---------------------------- MODULE GroupSettings ----------------------------
(* What the fifteen settings of a group are, who may give them which values,  *)
(* and what their readers make of them. A setting comes from a typed answer to *)
(* the /config menu (handlers/config_menu.py), from the Mini App's PATCH       *)
(* (routers/groups.py), from the language of whoever adds the bot              *)
(* (handlers/setlang.py) or from v1's document (importer/mappers.py). A group   *)
(* without a row reads its tenant's defaults. How old a copy may be is told in  *)
(* ConfigCache, the trail of a change in Console: here all is read afresh.      *)
EXTENDS Integers, Functions, FiniteSets

CONSTANTS DefaultLanguage, \* CB_DEFAULT_LANGUAGE
          Tenants,         \* what a tenant's feature_defaults may say: functions
                           \* of some of the switches
          Numbers,         \* what may be typed or sent as a number ...
          Words,           \* ... and as a word
          Widest,          \* the greatest value of an int column
          MaxWrites,
          Nothing

Switches == {"allow_furbots", "functions_fun", "functions_utility", "sfw",
             "publisher_post", "publisher_ask", "publisher_members_only", "doomlist_enabled"}
\* The bounds of the Mini App.
Bounds == [sticker_spam_limit      |-> <<1, 100>>,   sticker_spam_window_s |-> <<1, 3600>>,
           media_restrict_seconds  |-> <<0, 604800>>,
           captcha_timeout_seconds |-> <<0, 86400>>, max_posts             |-> <<0, 9999>>]
Counts == DOMAIN Bounds
Columns == Switches \cup Counts \cup {"language", "thread_posts"}
\* CONFIG_FIELDS: the menu has no button for two of them.
MenuColumns == Columns \ {"sticker_spam_window_s", "doomlist_enabled"}

\* A typed text is a number or a word; a topic is kept as text, NULL is none.
Number(n) == [n |-> n, word |-> Nothing]
Word(w) == [n |-> Nothing, word |-> w]
Texts == {Number(n) : n \in Numbers} \cup {Word(w) : w \in Words}

\* The columns' defaults in SQL ...
SqlValues ==
  [sticker_spam_limit |-> 5, sticker_spam_window_s |-> 60, media_restrict_seconds |-> 600,
   captcha_timeout_seconds |-> 300, max_posts |-> 9999,
   language |-> Word("en"), thread_posts |-> Nothing]
SqlDefaults ==
  [c \in Columns |-> IF c \in Switches THEN c \notin {"publisher_post", "publisher_members_only"}
                                        ELSE SqlValues[c]]
\* ... and DEFAULTS, which differ in the language of the deployment.
Defaults == [SqlDefaults EXCEPT !["language"] = Word(DefaultLanguage)]

\* The codes of a language that v1 and Telegram may use for it.
Aliases == [pt |-> {"pt", "pt-br", "pt-pt", "por", "portuguese"},
            es |-> {"es", "es-es", "es-ar", "es-mx", "spanish", "esp"}]

\* What a column may hold.
Heard == Words \cup {"no", "en", "eng", "pt", "es", DefaultLanguage}
Stored == BOOLEAN \cup Int \cup {Nothing} \cup [n : Int \cup {Nothing}, word : Heard \cup {Nothing}]

\* A deployment's language is not an alias of Portuguese, which the fan-out would
\* not know.
SettingsAssumption ==
  /\ \A t \in Tenants : DOMAIN t \subseteq Switches /\ \A c \in DOMAIN t : t[c] \in BOOLEAN
  /\ Numbers \subseteq Int /\ MaxWrites \in Nat /\ \A c \in Counts : Bounds[c][2] <= Widest
  /\ Widest \in Nat /\ Nothing \notin Int \cup Heard \cup [Columns -> Stored]
  /\ DefaultLanguage \notin Aliases["pt"] \ {"pt"}

VARIABLES row,    \* the group's row of group_configs, or Nothing
          tenant, \* feature_defaults of its tenant
          free,   \* history: settings whose value came from where no bound is
                  \* kept, the menu or v1's document; and a topic from an admin
          last,   \* history: the last change: what it named and what it moved
          writes

settingsVars == <<row, tenant, free, last, writes>>

Overlaid(base, over) == [c \in Columns |-> IF c \in DOMAIN over THEN over[c] ELSE base[c]]

\* get_config, when nothing fails.
EffectiveOf(r) == IF r = Nothing THEN Overlaid(Defaults, tenant) ELSE r
Effective == EffectiveOf(row)

TypeOK ==
  /\ row # Nothing => /\ DOMAIN row = Columns
                      /\ \A c \in Switches : row[c] \in BOOLEAN
                      /\ \A c \in Counts : row[c] \in (-Widest)..Widest
  /\ tenant \in Tenants /\ free \subseteq Columns /\ writes \in 0..MaxWrites

Init ==
  /\ row = Nothing /\ tenant \in Tenants
  /\ free = {} /\ last = Nothing /\ writes = 0

-----------------------------------------------------------------------------
\* int columns are four bytes wide: the statement raises on more.
Fits(values) == \A c \in DOMAIN values \cap Counts : values[c] \in (-Widest)..Widest

\* The upsert names the columns of the request: a row that is new takes the
\* columns' own defaults for the others, one that exists keeps them.
Upsert(values) == Overlaid(IF row = Nothing THEN SqlDefaults ELSE row, values)

Change(named) ==
  [named |-> named, fresh |-> row = Nothing,
   moved |-> {c \in Columns : EffectiveOf(row')[c] # Effective[c]}]

\* set_config: the row of the group is seen to, and a failure raises.
SetConfig(values) ==
  /\ writes < MaxWrites /\ writes' = writes + 1
  /\ UNCHANGED tenant
  /\ IF Fits(values) THEN row' = Upsert(values) /\ last' = Change(DOMAIN values)
                     ELSE UNCHANGED <<row, last>>

\* parse_reply_value: {} is "invalid input". Any number is a switch, of any
\* size, and any word is a language.
ParseReplyValue(c, text) ==
  CASE c = "language" -> {text}
    [] text.n = Nothing /\ c # "language" -> {}
    [] text.n # Nothing /\ c \in Switches -> {text.n # 0}
    [] text.n # Nothing /\ c \in Counts -> {text.n}
    [] text.n # Nothing /\ c = "thread_posts" -> {text}

\* An admin answers a prompt of the menu.
ApplyConfigReply(c, text) ==
  \E v \in ParseReplyValue(c, text) :
    /\ SetConfig([x \in {c} |-> v])
    /\ free' = IF row' = row THEN free ELSE free \cup {c}

\* resolve_language: a code or an alias of it; anything else is English.
ResolveLanguage(text) ==
  IF \E l \in DOMAIN Aliases : text.word \in Aliases[l]
  THEN CHOOSE l \in DOMAIN Aliases : text.word \in Aliases[l] ELSE "en"

AcceptedLanguages == {"en", "eng", "english", "pt", "pt-br", "portuguese", "es", "spanish"}

\* ConfigPatch: {} is a 422. Pydantic takes 0 and 1 for a switch.
Validated(c, text) ==
  IF c \in Switches THEN {on \in BOOLEAN : text.n = IF on THEN 1 ELSE 0}
  ELSE CASE c \in Counts ->
              IF text.n # Nothing /\ text.n \in Bounds[c][1]..Bounds[c][2] THEN {text.n} ELSE {}
         [] c = "language" ->
              IF text.word \in AcceptedLanguages THEN {Word(ResolveLanguage(text))} ELSE {}
         [] c = "thread_posts" -> {text}

\* The Mini App sends some settings at once: all of them are valid or nothing
\* is written.
UpdateConfig(patch) ==
  /\ \A c \in DOMAIN patch : Validated(c, patch[c]) # {}
  /\ SetConfig([c \in DOMAIN patch |-> CHOOSE v \in Validated(c, patch[c]) : TRUE])
  /\ free' = (free \ DOMAIN patch) \cup ({"thread_posts"} \cap DOMAIN patch)

\* The bot is added by somebody whose client speaks this language, if any.
DeriveJoinLanguage(code) == CASE code = "pt-br" -> "pt" [] code = "es" -> "es" [] OTHER -> "eng"
ApplyJoinLanguage(code) ==
  /\ SetConfig([x \in {"language"} |-> Word(DeriveJoinLanguage(code))])
  /\ free' = free \ {"language"}

\* A field of v1's document, absent or unreadable, is the default; 9999 was its
\* way of saying that no topic is set.
Mapped(c, doc) ==
  IF c \notin DOMAIN doc THEN Defaults[c]
  ELSE LET text == doc[c] IN
       CASE c \in Switches -> IF text.n # Nothing THEN text.n # 0 ELSE Defaults[c]
         [] c \in Counts -> IF text.n # Nothing THEN text.n ELSE Defaults[c]
         [] c = "language" -> text
         [] c = "thread_posts" -> IF text.n = 9999 THEN Nothing ELSE text

\* The importer's upsert leaves the two settings v1 did not have to a row that
\* is there already.
V2Only == {"sticker_spam_window_s", "doomlist_enabled"}
MapConfigs(doc) ==
  LET values == [c \in Columns |-> Mapped(c, doc)] IN
  /\ writes < MaxWrites /\ writes' = writes + 1
  /\ UNCHANGED tenant
  /\ IF Fits(values)
     THEN /\ row' = IF row = Nothing THEN values ELSE Overlaid(values, Restrict(row, V2Only))
          /\ last' = Change(IF row = Nothing THEN Columns ELSE Columns \ V2Only)
          /\ free' = DOMAIN doc \ {"thread_posts"}
     ELSE UNCHANGED <<row, last, free>>

\* The group is forgotten (/leave), and its row with it.
Forget ==
  /\ row # Nothing
  /\ row' = Nothing /\ free' = {} /\ last' = Nothing
  /\ UNCHANGED <<tenant, writes>>

Next ==
  \/ \E c \in MenuColumns, text \in Texts : ApplyConfigReply(c, text)
  \/ \E c \in Columns, text \in Texts :
       \/ UpdateConfig([x \in {c} |-> text])
       \/ \E other \in {Number(0), Word("no")} :
            UpdateConfig([x \in {c, "sfw"} |-> IF x = c THEN text ELSE other])
  \/ \E code \in {"pt-br", "es", "en", "de"} : ApplyJoinLanguage(code)
  \/ \E c \in Columns \ V2Only, text \in Texts : MapConfigs([x \in {c} |-> text])
  \/ Forget

Spec == Init /\ [][Next]_settingsVars

-----------------------------------------------------------------------------
\* What the readers make of it. The fan-out reads the row by a query of its own.
Targeted ==
  [c \in {"publisher_post", "sfw", "publisher_members_only", "max_posts", "language"} |->
     IF row = Nothing THEN SqlDefaults[c] ELSE row[c]]
\* Which of the two renderings a group gets.
Version == IF Targeted["language"] = Word("pt") THEN "pt" ELSE "en"

\* The forum topic of a delivery: 0 stands for the General thread.
Topic(text) == IF text = Nothing THEN 0 ELSE IF text.n = Nothing THEN 0 ELSE text.n

-----------------------------------------------------------------------------
\* "Absent fields are left alone" (routers/groups.py:355-357): a change moves
\* the settings it names and no other - of a group that has a row. The first
\* change of one that has none makes the row, and the tenant's defaults and the
\* deployment's language give way to the columns' own.
OnlyNamedMoves ==
  last # Nothing =>
    \A c \in last.moved \ last.named :
      /\ last.fresh /\ c \in DOMAIN tenant \cup {"language"}
      /\ Effective[c] = SqlDefaults[c]

\* A value out of the bounds of the Mini App was typed into the menu or came from
\* v1: no default, of SQL, of a tenant or of DEFAULTS, is one the form would
\* refuse to send back.
BoundsKept ==
  \A c \in Counts \ free : Effective[c] \in Bounds[c][1]..Bounds[c][2]

\* All who read a group that has a row read the same (routers/groups.py:150-152,
\* "the same resolution the bot itself reads"), and without one they do where
\* the tenant says nothing; a group gets the Portuguese rendering exactly when
\* it is spoken to in Portuguese, unless somebody typed another word for it.
ReadersAgree ==
  /\ row # Nothing => \A c \in DOMAIN Targeted : Targeted[c] = Effective[c]
  /\ \A c \in DOMAIN Targeted \ ({"language"} \cup DOMAIN tenant) : Targeted[c] = Effective[c]
  /\ row # Nothing /\ "language" \notin free =>
       ((Version = "pt") <=> (ResolveLanguage(Effective["language"]) = "pt"))

\* "One sentinel, not two" (group_config.py:66-69): v1's 9999 never becomes a
\* topic that posts are forwarded into; only an admin who asks for it gets it.
NoSentinel == Topic(Effective["thread_posts"]) = 9999 => "thread_posts" \in free

\* What the four surfaces and the readers of a group's settings agree on.
SettingsHold == OnlyNamedMoves /\ BoundsKept /\ ReadersAgree /\ NoSentinel
=============================================================================
