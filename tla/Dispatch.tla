------------------------------ MODULE Dispatch ------------------------------
(* One update on its way through the gateway: the two inner middlewares        *)
(* (middlewares.py) and the chain of routers build_router puts together        *)
(* (handlers/__init__.py). The first handler whose filters take the update     *)
(* answers it, unless it raises SkipHandler; the group's configuration is read *)
(* by each handler anew, and may have changed in between. The outermost        *)
(* middleware, which drops repeats, is the module Ingest.                      *)
EXTENDS Commands, Integers, Sequences, FiniteSetsExt, FiniteSets

CONSTANTS Updates,  \* The updates that may arrive, as messages of Commands.tla.
          Settings  \* The configurations a group may have.

VARIABLES update,   \* The update being handled.
          config,   \* The group's configuration, as everybody reads it.
          seen,     \* Every configuration since the update arrived.
          at,       \* The last place in the chain that was asked.
          taker,    \* Who kept the update.
          said,     \* What was sent to the chat, by whom.
          deeds,    \* What was done besides.
          jobs,     \* What the workers were given.
          mark      \* The outcome on the trace.

dispatchVars == <<update, config, seen, at, taker, said, deeds, jobs, mark>>

-----------------------------------------------------------------------------
\* build_router, in its order; callbacks and messages are observed apart.
Cons == {"con_patas", "con_bff", "con_fursmeet", "con_furcamp", "con_pawstral", "con_trex"}
Chain ==
  <<"register", "isalive", "privacy", "analysis", "reload", "commands",
    "config", "config press", "config reply", "rules", "newrules", "rules reply",
    "calladms", "call press", "complaint", "complaint reply", "death", "dice", "ship",
    "firecracker", "everyone", "battle", "meme", "unearth", "con", "age", "gender",
    "fortune", "drawingidea", "youtube", "birthday", "nextbirthday", "publish", "repost",
    "deletereposts", "searchsource", "destroy", "giveaway",
    "groups", "leave", "blacklist", "unblacklist", "broadcast", "stop",
    "custom", "anything", "search",
    "join record", "restriction", "bot added", "doomlist", "captcha join", "captcha reply",
    "captcha press", "welcome join", "newwelcome", "welcome reply",
    "sticker", "sticker spam", "relay", "ai", "replenish", "music", "voice ai", "transcribe",
    "embedder", "share", "sticker reply", "pool", "random">>

\* Handlers of one command, by its name, and no other filter than the chat's.
Unaliased ==
  {"isalive", "privacy", "analysis", "reload", "commands", "config", "rules", "newrules",
   "complaint", "death", "dice", "ship", "firecracker", "battle", "meme", "unearth", "age",
   "gender", "fortune", "drawingidea", "youtube", "birthday", "nextbirthday", "publish",
   "repost", "deletereposts", "searchsource", "destroy", "giveaway", "anything",
   "newwelcome", "transcribe", "random"}

OwnersCommands == {"groups", "leave", "blacklist", "unblacklist", "broadcast", "stop"}

\* What the aliases of COMMAND_ALIASES stand for.
CanonicalCommands ==
  Unaliased \cup Cons \cup OwnersCommands \cup {"calladms", "everyone", "restart"}

\* The code reads no more of a configuration than this. Only what is written has a
\* text, and only a command a name (parse_command is given message.text, and never a
\* caption).
DispatchAssumption ==
  /\ Settings \subseteq
       [{"fun", "utility", "restrict", "captcha", "doomlist", "ask", "sfw"} -> BOOLEAN]
  /\ \A m \in Updates :
       /\ m.name \in CanonicalCommands \cup {Nothing}
       /\ m.name # Nothing => m.text = "command"
       /\ m.text \in {"plain", "link", "command", "@adm", "@everyone", "folder", "unknown",
                      "other"} => m.body = "text"
  /\ Nothing \notin CanonicalCommands \cup {Chain[i] : i \in DOMAIN Chain} \cup
       {"gate", "nobody", "answer", "notice", "answered", "refused", "silent", "error"}

\* Handlers filtered on F.chat.type.
InGroups ==
  {"register", "config", "calladms", "death", "ship", "everyone", "battle", "meme", "con",
   "drawingidea", "youtube", "birthday", "nextbirthday", "publish", "repost", "deletereposts",
   "searchsource", "destroy", "giveaway", "custom", "anything", "search", "sticker",
   "sticker spam", "relay", "ai", "replenish", "music", "voice ai", "embedder", "share",
   "sticker reply", "pool", "random"}

Slash(m) == m.text \in {"command", "folder", "unknown", "other"}
Says(m) == m.body = "text"
Joins(m) == m.body = "join"
RestrictedContent == {"photo", "video", "animation", "sticker", "voice", "document"}

\* MentionsBot: the display name or the username anywhere in the text, or a reply
\* to a text of the bot.
MentionsBot(m) == m.cue \/ m.to \in BotTexts

\* Replies to what the bot asked for, by the text of its prompt; but for the
\* menu's, a command is none.
IsConfigReply(m) == m.body # "callback" /\ m.to = "config"
IsNewRulesReply(m) == Says(m) /\ ~Slash(m) /\ m.to = "rules"
IsWelcomeReply(m) == Says(m) /\ ~Slash(m) /\ m.to = "welcome"
IsMiltonReply(m) == Says(m) /\ ~Slash(m) /\ m.to = "milton"
IsCaptchaReply(m, c) == Says(m) /\ ~Slash(m) /\ c.captcha /\ m.by = "pending"

\* A reply to something of a bot's with buttons.
IsPostReply(m) == Says(m) /\ m.to = "post"

IsAdminMention(m) == m.text = "@adm"
IsEveryoneMention(m) == m.text = "@everyone"

\* A slash, and the name of a folder of pictures.
CustomCommandName(m) == m.text = "folder"

IsAd(m) == m.by = "channel" /\ m.body \in {"photo", "video", "animation", "document"}

\* The rest of a handler's filters. A command's is CommandName.
Takes(h, m, c) ==
  CASE h \in Unaliased -> m.name = h
    [] h = "register" -> m.body # "callback"
    [] h \in {"config press", "call press", "captcha press"} -> m.body = "callback" /\ m.text = h
    [] h = "config reply" -> IsConfigReply(m)
    [] h = "rules reply" -> IsNewRulesReply(m)
    [] h = "welcome reply" -> IsWelcomeReply(m)
    [] h = "calladms" -> m.name = "calladms" \/ IsAdminMention(m)
    [] h = "everyone" -> m.name = "everyone" \/ IsEveryoneMention(m)
    [] h = "complaint reply" -> IsMiltonReply(m)
    [] h = "con" -> m.name \in Cons
    [] h \in OwnersCommands ->
         /\ m.chat = "private" /\ m.by = "owner"
         /\ m.name = h \/ (h = "stop" /\ m.name = "restart")
    [] h = "custom" -> CustomCommandName(m)
    [] h = "search" -> Slash(m)
    [] h \in {"join record", "bot added", "doomlist", "captcha join", "welcome join"} -> Joins(m)
    [] h = "restriction" -> m.body \in RestrictedContent
    [] h = "captcha reply" -> IsCaptchaReply(m, c)
    [] h \in {"sticker", "sticker spam"} -> m.body = "sticker"
    [] h = "relay" -> IsPostReply(m)
    [] h = "ai" -> Says(m) /\ c.fun /\ MentionsBot(m)
    [] h = "replenish" -> Says(m)
    [] h = "music" -> m.body = "voice"
    [] h = "voice ai" -> m.body = "voice" /\ c.fun /\ RepliesToBot(m)
    [] h = "embedder" -> Says(m) /\ c.utility
    [] h = "share" -> IsAd(m)
    [] h = "sticker reply" -> m.body \in {"document", "animation"}
    [] h = "pool" -> m.body \in {"photo", "video"}

Claims(h, m, c) == Takes(h, m, c) /\ (h \in InGroups => m.chat = "group")

\* What the handler may do with it: Commands.tla.
Outcomes(h, m, c) ==
  CASE h = "register" -> RegisterSender
    [] h = "isalive" -> IsAlive
    [] h = "privacy" -> Privacy
    [] h = "analysis" -> Analysis(m)
    [] h = "reload" -> Reload
    [] h = "commands" -> ListCommands
    [] h = "config" -> OpenMenu(m)
    [] h = "config press" -> ConfigPress
    [] h = "config reply" -> ConfigReply(m)
    [] h = "rules" -> Rules
    [] h = "newrules" -> NewRules
    [] h = "rules reply" -> CaptureRules(m)
    [] h = "calladms" -> AskAdmins
    [] h = "call press" -> ConfirmCall(m)
    [] h = "complaint" -> Complaint(c)
    [] h = "complaint reply" -> ComplaintReply(c)
    [] h = "death" -> Death(c)
    [] h = "dice" -> RollDice(m, c)
    [] h = "ship" -> Ship(m, c)
    [] h = "firecracker" -> Firecracker(c)
    [] h = "everyone" -> Everyone(m)
    [] h = "battle" -> Battle(m, c)
    [] h = "meme" -> Meme(m, c)
    [] h = "unearth" -> Unearth(c)
    [] h = "con" -> EventCountdown
    [] h = "age" -> AgeGuess(m, c)
    [] h = "gender" -> GenderGuess(m, c)
    [] h = "fortune" -> Fortune(c)
    [] h = "drawingidea" -> DrawingIdea(c)
    [] h = "youtube" -> YouTube(m, c)
    [] h = "birthday" -> Birthday(m, c)
    [] h = "nextbirthday" -> NextBirthday(c)
    [] h = "publish" -> SubmitPost(m)
    [] h = "repost" -> ScheduleRepost(m)
    [] h = "deletereposts" -> DeleteReposts(m)
    [] h = "searchsource" -> SearchSource(m, c)
    [] h = "destroy" -> Destroy(m, c)
    [] h = "giveaway" -> AskGiveaway(m, c)
    [] h = "groups" -> GroupList
    [] h = "leave" -> LeaveGroup(m)
    [] h = "blacklist" -> Blacklist(m)
    [] h = "unblacklist" -> Unblacklist(m)
    [] h = "broadcast" -> Broadcast(m)
    [] h = "stop" -> ProcessControl
    [] h = "custom" -> CustomCommand(c)
    [] h = "anything" -> AnythingPrompt(c)
    [] h = "search" -> CatchAllSearch(m, c)
    [] h = "join record" -> RecordJoin(m)
    [] h = "restriction" -> EnforceRestriction(m, c)
    [] h = "bot added" -> BotAdded(m)
    [] h = "doomlist" -> DoomJoin(m, c)
    [] h = "captcha join" -> GuardJoin(m, c)
    [] h = "captcha reply" -> CaptchaReply
    [] h = "captcha press" -> CaptchaPress
    [] h = "welcome join" -> WelcomeJoin(m)
    [] h = "newwelcome" -> NewWelcome
    [] h = "welcome reply" -> CaptureWelcome(m)
    [] h = "sticker" -> StickerUpdate(m, c)
    [] h = "sticker spam" -> AntiSpam
    [] h = "relay" -> RelayReply
    [] h = "ai" -> AiReply
    [] h = "replenish" -> Replenish
    [] h = "music" -> IdentifyMusic(c)
    [] h = "voice ai" -> VoiceAi
    [] h = "transcribe" -> TranscribeCommand(m, c)
    [] h = "embedder" -> EmbedLinks(m)
    [] h = "share" -> OfferToShare(c)
    [] h = "sticker reply" -> StickerReply(m, c)
    [] h = "pool" -> PoolMedia(m, c)
    [] h = "random" -> SendRandom(c)
-----------------------------------------------------------------------------
\* The trace starts as answered for what a person asked: a command, a press, a join.
Interaction(m) == m.name # Nothing \/ m.body \in {"callback", "join"}

Init ==
  /\ update \in Updates /\ config \in Settings
  /\ seen = {config} /\ at = 0 /\ taker = Nothing
  /\ said = {} /\ deeds = {} /\ jobs = {}
  /\ mark = IF Interaction(update) THEN "answered" ELSE Nothing

Moving == taker = Nothing

\* The tenant switched the command off; a lookup that fails lets it run, as one
\* that finds it on does.
TenantGate ==
  /\ Moving /\ at = 0 /\ update.name # Nothing
  /\ \E row \in CatalogRows, enabled \in BOOLEAN : BlockedForTenant(row, enabled)
  /\ taker' = "gate" /\ mark' = "silent"
  /\ UNCHANGED <<update, config, seen, at, said, deeds, jobs>>

\* The next place in the chain that takes the update.
NoClaim == 0
NextClaim ==
  LET claims == {i \in (at + 1)..Len(Chain) : Claims(Chain[i], update, config)} IN
  IF claims = {} THEN NoClaim ELSE Min(claims)

Handle(i) ==
  /\ Moving /\ i # NoClaim
  /\ LET h == Chain[i] IN
     \E o \in Outcomes(h, update, config) :
       /\ at' = i
       /\ taker' = IF o.on THEN Nothing ELSE h
       /\ said' = said \cup (IF o.says = Nothing THEN {} ELSE {<<h, o.says>>})
       /\ deeds' = deeds \cup o.deeds
       /\ jobs' = jobs \cup (IF o.job = Nothing THEN {} ELSE {o.job})
       /\ mark' = IF o.mark = Nothing THEN mark ELSE o.mark
  /\ UNCHANGED <<update, config, seen>>

\* Handlers that let no exception out of them, or that pass on before they call
\* anything that could raise one.
Swallow == {"register", "join record", "sticker", "sticker reply", "pool", "replenish"}
Unfailing(h, m) ==
  \/ h \in Swallow
  \/ h = "search" /\ m.name # Nothing
  \/ h = "embedder" /\ m.text # "link"
  \/ h = "bot added" /\ m.args # "us"
  \/ h \in {"doomlist", "captcha join"} /\ m.args # "self"

\* An exception, before or after the handler's writes: the telemetry middleware
\* tells the chat, and the update goes nowhere else.
Fail(i) ==
  /\ Moving /\ i # NoClaim
  /\ LET h == Chain[i] IN
     /\ ~Unfailing(h, update)
     /\ \E o \in Outcomes(h, update, config), wrote \in BOOLEAN :
          deeds' = deeds \cup (IF wrote THEN o.deeds ELSE {})
     /\ at' = i /\ taker' = h
     /\ said' = said \cup {<<"telemetry", "notice">>} /\ mark' = "error"
  /\ UNCHANGED <<update, config, seen, jobs>>

\* Nobody wanted it.
FallThrough(i) ==
  /\ Moving /\ i = NoClaim
  /\ taker' = "nobody"
  /\ UNCHANGED <<update, config, seen, at, said, deeds, jobs, mark>>

\* An administrator, on the menu or in the Mini App, switches an area.
Reconfigure ==
  /\ Moving /\ Cardinality(seen) = 1
  /\ \E area \in {"fun", "utility"} : config' = [config EXCEPT ![area] = ~@]
  /\ seen' = seen \cup {config'}
  /\ UNCHANGED <<update, at, taker, said, deeds, jobs, mark>>

Next ==
  \/ TenantGate \/ Reconfigure
  \/ \E i \in {NextClaim} : Handle(i) \/ Fail(i) \/ FallThrough(i)

Spec == Init /\ [][Next]_dispatchVars

-----------------------------------------------------------------------------
TypeOK ==
  /\ config \in seen /\ Cardinality(seen) <= 2
  /\ at \in 0..Len(Chain)
  /\ taker \in {Nothing, "gate", "nobody"} \cup {Chain[i] : i \in DOMAIN Chain}
  /\ \A s \in said : s[2] \in {"answer", "notice"}
  /\ mark \in {Nothing, "answered", "refused", "silent", "error"}

\* What command_catalog (0001_initial_schema.py) says of the commands it lists:
\* which area they belong to, and which are the administrators'.
FunCommands ==
  {"ship", "death", "meme", "battle", "random", "firecracker", "complaint", "birthday",
   "nextbirthday"}
UtilityCommands == {"dice", "youtube"}
AdminCommands == {"newrules", "newwelcome", "config", "everyone", "deletereposts", "repost"}

\* What is not the command's doing.
Bookkeeping == {"sender", "replenished"}

\* A command of an area that is off the whole time shows nothing of itself: no
\* answer, no job and no deed (the catalogue's feature_flag).
OffIsOff ==
  \A area \in {"fun", "utility"} :
    (/\ taker \in (IF area = "fun" THEN FunCommands ELSE UtilityCommands)
     /\ \A c \in seen : ~c[area])
    => /\ \A s \in said : s[2] # "answer"
       /\ deeds \subseteq Bookkeeping /\ jobs = {}

\* What the catalogue marks admin_only changes nothing for anybody else; the bot's
\* owner may repost (_is_repost_authorised).
AdminsOnly ==
  (update.name \in AdminCommands /\ ~IsAdmin(update) /\ update.by # "owner")
  => /\ deeds \cap {"menu", "posts removed", "repost", "rules", "welcome"} = {}
     /\ jobs = {}

\* A join has one fate: a newcomer is removed, challenged or welcomed, a bot is
\* announced, and the bot's own arrival sets the language; never two of them.
Fates == {"banned", "challenged", "welcomed", "language"}
OneFate == Cardinality(deeds \cap Fates) <= 1

\* What a newcomer under the media restriction sends is removed and not used: not
\* pooled, counted, transcribed, identified or answered (mediarestrict.py comes
\* before the content rules).
RestrictedUnused ==
  (update.by = "newcomer" /\ update.body \in RestrictedContent /\ config.restrict
   /\ update.to # "config" /\ update.chat = "group")
  => deeds \subseteq {"sender", "message deleted"} /\ jobs = {}

\* A channel's post that is offered for publication is not pooled as a picture of
\* the group (postgetter.py comes before fun_random.py).
AdsUnpooled == "post cached" \in deeds => "pooled" \notin deeds

\* A reply that reached the author of a post is not answered by the assistant too.
RelayedUnanswered == "relayed" \in deeds => taker = "relay"

\* What somebody with an open challenge writes is an attempt, and goes no further.
PendingUnheard ==
  (update.by = "pending" /\ update.text \in {"plain", "link"} /\ update.to = "nothing"
   /\ config.captcha)
  => deeds \cap {"streak spent", "window charged", "replenished"} = {}

\* An update is answered once, whatever it replies to and whoever it names; a
\* sticker may be answered with one and be one too many.
AnsweredOnce == (update.body # "sticker" /\ mark # "error") => Cardinality(said) <= 1

\* The trace says silent of nothing that was heard, refused of nothing that was
\* done; what a voice note is, is asked for whoever else takes it.
TraceHonest ==
  /\ mark = "silent" => said = {} /\ jobs \subseteq {"identify music"}
  /\ mark = "refused" =>
       jobs \subseteq {"identify music"} /\ \A s \in said : s[2] = "notice"

DispatchHolds ==
  /\ OffIsOff /\ AdminsOnly /\ OneFate /\ RestrictedUnused /\ AdsUnpooled
  /\ RelayedUnanswered /\ PendingUnheard /\ AnsweredOnce /\ TraceHonest

\* "its relative order against either is irrelevant" (handlers/__init__.py:199-202):
\* the transcribe router comes after the assistant's, and its command, /transcribe,
\* is not one of the messages the assistant takes.
CommandKept == update.name = "transcribe" => taker # "ai"

=============================================================================
