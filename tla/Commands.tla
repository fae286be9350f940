------------------------------ MODULE Commands ------------------------------
(* What each handler of the gateway may answer                                *)
(* (packages/cb-gateway/src/cb_gateway/handlers). A handler is an operator     *)
(* of the message m and of the group's configuration c it reads; its value    *)
(* is the set of outcomes the code can produce, and what decides between them  *)
(* outside m and c (what a table, the store, Telegram or the broker says) is   *)
(* the choice of one.                                                          *)
(*                                                                             *)
(* A message is a record: the chat it is in, its body, the kind of its text,   *)
(* the command parse_command finds in it, the shape of the arguments, its      *)
(* sender, what it replies to and whether its text calls the bot.              *)
CONSTANT Nothing

\* A handler that returns, having said nothing and left the trace's "answered" alone.
Unsaid == [says |-> Nothing, mark |-> Nothing, job |-> Nothing, deeds |-> {}, on |-> FALSE]

Answer == [Unsaid EXCEPT !.says = "answer"]
Notice == [Unsaid EXCEPT !.says = "notice"]
Refusal == [Notice EXCEPT !.mark = "refused"]
Silence == [Unsaid EXCEPT !.mark = "silent"]

\* raise SkipHandler: the routers below see the update too.
Skip == [Unsaid EXCEPT !.on = TRUE]

Having(deeds, outcome) == [outcome EXCEPT !.deeds = @ \cup deeds]

\* enqueue(): an unreachable broker is logged, and the handler goes on as if not.
Enqueued(job, outcome) == {[outcome EXCEPT !.job = job], outcome}

\* A gate on a feature area: deny_if_disabled replies, the others also mark the trace.
Soft(on, outcomes) == IF on THEN outcomes ELSE {Notice}
Loud(on, outcomes) == IF on THEN outcomes ELSE {Refusal}

IsAdmin(m) == m.by \in {"admin", "anonymous"}

-----------------------------------------------------------------------------
\* Core commands.
IsAlive == {Answer}
Privacy == {Answer}
Analysis(m) == IF m.to = "nothing" THEN {Notice} ELSE {Answer}

\* The cache is dropped for everybody; a failed read of the admins is logged.
Reload == {Having({"config dropped"}, Answer), Having({"config dropped", "admins read"}, Answer)}

\* What is advertised is what the catalogue describes and the tenant has not switched
\* off; what is dispatched, all but what either switched off.
CatalogRows == {"none", "on", "off"}
AvailableForTenant(row, enabled) == row = "on" /\ enabled
BlockedForTenant(row, enabled) == row = "off" \/ ~enabled

\* A failed lookup shows the list.
CommandsAvailable ==
  {TRUE} \cup {AvailableForTenant(row, enabled) : row \in CatalogRows, enabled \in BOOLEAN}
ListCommands == {IF available THEN Answer ELSE Silence : available \in CommandsAvailable}

\* A stored text of nothing but a name that is empty renders as nothing.
Rules == {Answer, Notice, Silence}

NewRules == {Having({"rules prompt"}, Answer)}

CaptureRules(m) == IF IsAdmin(m) THEN {Having({"rules"}, Answer)} ELSE {Refusal}

AskAdmins == {Having({"call prompt"}, Answer)}

\* The prompt is deleted whatever the press; past STALE_AFTER_SECONDS, or when
\* Telegram no longer shows it, the press is refused.
ConfirmCall(m) ==
  {Having({"prompt deleted"}, a) :
     a \in CASE m.args = "stale" -> {Refusal}
             [] m.args = "no" -> {Notice}
             [] OTHER -> Enqueued("call admins", Answer)}

Everyone(m) ==
  IF IsAdmin(m) THEN {Refusal} \cup Enqueued("everyone", Answer) ELSE {Refusal}

\* cancel_posts refuses without marking the trace.
DeleteReposts(m) == IF IsAdmin(m) THEN {Having({"posts removed"}, Answer)} ELSE {Notice}

-----------------------------------------------------------------------------
\* Fun. A picture comes from a pool that may hold none for the group.
FromPool == {Answer, Unsaid}

Complaint(c) == Loud(c.fun, {Answer})
ComplaintReply(c) == Loud(c.fun, {Having({"caption deleted", "answer later"}, Answer)})
Death(c) == Soft(c.fun, FromPool)
Ship(m, c) == Loud(c.fun, IF m.args = "many" THEN {Answer} ELSE {Answer, Notice})
Firecracker(c) == Loud(c.fun, {Answer})
Unearth(c) == Soft(c.fun, {Answer, Unsaid})
Fortune(c) == Soft(c.fun, {Having({"answer later"}, Answer)})

\* Two people are looked up in the roster; one person, or the sender, fights a
\* picture of the pool.
BattleOfTwo == {Answer, Notice}
HumanSide == {"photo", Nothing}
FighterBattle == UNION {IF side = Nothing THEN {Notice} ELSE FromPool : side \in HumanSide}
Battle(m, c) == Loud(c.fun, IF m.args = "many" THEN BattleOfTwo ELSE FighterBattle)

Meme(m, c) == Soft(c.fun, IF m.args = "many" THEN {Refusal} ELSE Enqueued("meme", Unsaid))

\* agify.io and genderize.io, behind a breaker each: an unknown name, a failure
\* and an open breaker read alike.
GuessOf(m, c) == Soft(c.fun, IF m.args = "none" THEN {Notice} ELSE {Answer, Notice})
AgeGuess(m, c) == GuessOf(m, c)
GenderGuess(m, c) == GuessOf(m, c)

Distorted == {"photo", "voice", "sticker"}
DestroyOwnPhoto == {Notice} \cup Enqueued("distort", Unsaid)
Destroy(m, c) ==
  Soft(c.fun, CASE m.args = "pfp" -> DestroyOwnPhoto
                [] m.args # "pfp" /\ m.to \in Distorted -> Enqueued("distort", Unsaid)
                [] OTHER -> {Notice})

Birthday(m, c) ==
  Loud(c.fun, IF m.args = "none" THEN {Answer} ELSE Enqueued("collage", Unsaid))
NextBirthday(c) == Loud(c.fun, {Answer})

\* The one block of fun commands that consults no gate.
EventCountdown == FromPool

\* A folder of the pack. An index past the pool is met with nothing.
CustomCommand(c) == Soft(c.fun, FromPool)

-----------------------------------------------------------------------------
\* Utility.
RollDice(m, c) == Loud(c.utility, IF m.args \in {"none", "bad"} THEN {Notice} ELSE {Answer})
DrawingIdea(c) == Soft(c.utility, FromPool)
YouTube(m, c) ==
  Loud(c.utility, IF m.args = "none" THEN {Notice} ELSE Enqueued("youtube", Unsaid))
SearchSource(m, c) ==
  Soft(c.utility, IF m.to = "photo" THEN Enqueued("reverse search", Unsaid) ELSE {Notice})

AnythingPrompt(c) == Loud(c.utility, {Answer})

\* Any other "/text" is a search, unless it addresses another bot or is a command.
IsSearchCandidate(m) == m.text \in {"folder", "unknown", "command"}

\* Both counters are charged before either is compared. An avoided term is
\* found after the charge.
WithinQuota == {TRUE, FALSE}
CatchAllSearch(m, c) ==
  CASE ~IsSearchCandidate(m) \/ m.name # Nothing -> {Skip}
    [] IsSearchCandidate(m) /\ m.name = Nothing /\ ~c.utility -> {Silence}
    [] OTHER -> {Having({"quota charged"}, a) :
                   a \in UNION {IF within THEN {Silence} \cup Enqueued("image search", Unsaid)
                                ELSE {Notice} : within \in WithinQuota}}

-----------------------------------------------------------------------------
\* Settings and posts. The menu is sent in private; a sender Telegram hides has none.
OpenMenu(m) ==
  CASE m.by = "anonymous" \/ ~IsAdmin(m) -> {Refusal}
    [] OTHER -> {Refusal, Having({"menu"}, Answer)}

\* A prompt of another shape is met with nothing, a value that does not parse, or
\* does not store, is refused.
ConfigReply(m) ==
  {Unsaid, Refusal} \cup (IF m.args = "bad" THEN {} ELSE {Having({"setting"}, Answer)})

ConfigPress == {Having({"config prompt"}, Answer)}

\* /publish without the two chats configured, without a post of a channel, or
\* without its caption, is explained.
SubmitPost(m) ==
  IF m.to = "post" THEN {Notice, Having({"post cached", "sent for approval"}, Answer)} ELSE {Notice}

ScheduleRepost(m) ==
  CASE ~(IsAdmin(m) \/ m.by = "owner") \/ m.to = "nothing" \/ m.args = "bad" -> {Notice}
    [] OTHER -> {Having({"repost"}, Answer)}

AskGiveaway(m, c) ==
  Loud(c.utility, CASE ~(IsAdmin(m) \/ m.by = "owner") -> {Refusal}
                    [] m.args = "none" -> {Notice}
                    [] OTHER -> {Having({"prize"}, Answer)})

-----------------------------------------------------------------------------
\* The owner's commands, in private: the filter is the gate.
GroupList == {Answer}

\* The group is blacklisted and forgotten before the bot leaves; a failure to
\* leave is logged.
LeaveGroup(m) ==
  IF m.args = "none" THEN {Notice}
  ELSE {Having({"blacklisted", "forgotten"}, Answer),
        Having({"blacklisted", "forgotten", "left"}, Answer)}

Blacklist(m) == IF m.args = "none" THEN {Notice} ELSE {Having({"blacklisted"}, Answer)}
Unblacklist(m) == IF m.args = "none" THEN {Notice} ELSE {Notice, Having({"cleared"}, Answer)}

\* The one caller that asks whether the job was taken.
Broadcast(m) ==
  IF m.args = "none" THEN {Notice} ELSE {Notice, [Answer EXCEPT !.job = "broadcast"]}

ProcessControl == {Refusal}

-----------------------------------------------------------------------------
(* What the handlers that wait for no command may answer: the registry, the   *)
(* join chain and the content rules. They read the message and the            *)
(* configuration as the command handlers do, and most of them pass it on.     *)

Fetch == [Answer EXCEPT !.on = TRUE]

\* The sender, or the member who left; a failed write is logged.
RegisterSender == {Skip, Having({"sender"}, Skip)}

-----------------------------------------------------------------------------
\* The join chain. Only joiners[0] of a message is looked at: `m.args' says who
\* that is, the bot itself (us), another bot, or a person who came alone or invited.
RecordJoin(m) == IF m.args \in {"us", "bot"} THEN {Skip} ELSE {Skip, Having({"joined"}, Skip)}

\* An unreadable language leaves the group as it is. Some skins post an intro.
BotAdded(m) ==
  IF m.args # "us" THEN {Skip}
  ELSE {Having(d, a) : d \in {{}, {"language"}}, a \in {Unsaid, Answer}}

\* cas.chat, then the local list, then burrbot; an open breaker reads as no hit. A
\* hit of cas.chat is written to the local list.
CheckCas == {"ban_cas", Nothing}
CheckLocal == {"ban", Nothing}
CheckBurrbot == {"ban", Nothing}
Evaluate ==
  {IF cas # Nothing THEN cas ELSE IF here # Nothing THEN here ELSE burr :
     cas \in CheckCas, here \in CheckLocal, burr \in CheckBurrbot}

DoomJoin(m, c) ==
  IF m.args # "self" \/ ~c.doomlist THEN {Skip}
  ELSE {CASE hit = "ban_cas" -> Having({"listed", "banned"}, Answer)
          [] hit = "ban" -> Having({"banned"}, Answer)
          [] OTHER -> Skip : hit \in Evaluate}

\* The bot must be an admin to restrict whoever it challenges.
GuardJoin(m, c) ==
  IF m.args # "self" \/ ~c.captcha THEN {Skip} ELSE {Skip, Having({"challenged"}, Answer)}

\* Sent once as HTML and once as plain text before it is given up.
SendWelcome == {Having({"welcomed"}, Answer), Unsaid}
WelcomeJoin(m) ==
  CASE m.args = "us" -> {Unsaid}
    [] m.args = "bot" -> {Notice}
    [] OTHER -> SendWelcome

-----------------------------------------------------------------------------
\* The captcha's answers: the attempt's message goes first.
Kicked == Having({"kicked"}, Notice)
ResolveAttempt ==
  {Having({"solved"}, a) : a \in SendWelcome} \cup {Having({"attempt"}, Notice), Kicked}
CaptchaReply == {Having({"message deleted"}, a) : a \in ResolveAttempt}

\* A press on a button of another challenge, or by a bystander, is answered with nothing.
CaptchaPress == {Unsaid} \cup ResolveAttempt

NewWelcome == {Having({"welcome prompt"}, Answer)}
CaptureWelcome(m) == IF IsAdmin(m) THEN {Having({"welcome"}, Answer)} ELSE {Notice}

-----------------------------------------------------------------------------
\* Content rules.
InWindow(m) == m.by = "newcomer"
EnforceRestriction_Passes(m, c) ==
  IF ~c.restrict \/ IsAdmin(m) \/ ~InWindow(m) THEN {Skip}
  ELSE {Having({"message deleted"}, Fetch), Fetch}
EnforceRestriction(m, c) ==
  IF ~c.restrict \/ IsAdmin(m) \/ ~InWindow(m) THEN {Skip}
  ELSE {Having({"message deleted"}, Notice), Notice}

\* What the bot wrote, and of that what has a text of its own.
BotTexts == {"bot", "rules", "welcome", "config"}
RepliesToBot(m) == m.to \in BotTexts \cup {"milton", "post"}

\* A sticker of a pack that suits everyone joins the pool once a day; the
\* handler swallows its failures.
Stickered(m, c) == {Skip} \cup (IF c.fun /\ RepliesToBot(m) THEN {Fetch} ELSE {})
StickerUpdate(m, c) ==
  Stickered(m, c) \cup (IF c.sfw THEN {Having({"sticker pooled"}, a) : a \in Stickered(m, c)} ELSE {})

\* Below, at and past the limit of the group's window; no count without the cache.
AntiSpam == {Unsaid, Notice, Having({"message deleted"}, Unsaid)}

StickerReply(m, c) == Stickered(m, c)

\* A reply to a post of the publisher: the author is told, or the failure logged,
\* and the replier told it was sent.
RelayReply == {Skip, Answer, Having({"relayed"}, Answer)}

\* The embedder leaves commands alone, whoever they were for.
EmbedLinks(m) == IF m.text = "link" THEN {Answer} ELSE {Skip}

OfferToShare(c) == IF c.ask THEN {Having({"post cached"}, Answer)} ELSE {Skip}

PoolMedia(m, c) ==
  IF c.sfw /\ c.fun /\ ~m.forwarded THEN {Skip, Having({"pooled"}, Skip)} ELSE {Skip}

SendRandom(c) == Soft(c.fun, FromPool)

-----------------------------------------------------------------------------
\* Conversation. The window of the group is charged first: at the limit the group
\* is told, past it nobody is. Then the sender's streak.
ReplyWithAi == {Answer, Refusal}
Windowed(outcomes) ==
  {Having({"window charged"}, a) : a \in {Refusal, Silence} \cup outcomes} \cup outcomes
AiReply == Windowed({Having({"streak spent"}, a) : a \in {Silence} \cup ReplyWithAi} \cup ReplyWithAi)
Replenish == {Having({"replenished"}, Skip)}

\* A voice note too long, or that cannot be fetched or transcribed, is refused.
Transcript == {"text", Nothing}
VoiceAi == Windowed(UNION {IF t = Nothing THEN {Refusal} ELSE ReplyWithAi : t \in Transcript})
TranscribeCommand(m, c) ==
  Loud(c.utility, IF m.to # "voice" THEN {Refusal}
                  ELSE {IF t = Nothing THEN Refusal ELSE Answer : t \in Transcript})

IdentifyMusic(c) == IF c.utility THEN Enqueued("identify music", Skip) ELSE {Skip}
=============================================================================
