----------------------------- MODULE AdminList ------------------------------
(***************************************************************************)
(* Who administers a group, as cb_core/admins.py tells: each process keeps *)
(* a first-level cache, all share a second one in Valkey and the table     *)
(* group_admins, and Telegram knows.  The set of administrators is known   *)
(* by its version.  Time is told in ticks; a call lasts at most Flight.    *)
(***************************************************************************)
EXTENDS Naturals

CONSTANTS Callers,     \* coroutines that resolve the list
          Replicas, ReplicaOf,
          TTL1, TTL2,  \* config_cache_l1_seconds, admin_cache_seconds
          Flight,      \* bound on how long a resolution takes
          MaxChanges, MaxTime,
          Nobody

AdminListAssumption ==
  /\ ReplicaOf \in [Callers -> Replicas]
  /\ {TTL1, TTL2, Flight, MaxChanges, MaxTime} \subseteq Nat
  /\ Nobody \notin Nat

VARIABLES now,
          truth,     \* the version Telegram has
          gone,      \* when each version before it was replaced
          l1, l2,    \* entries: version, expiry and where it came from
          persisted, \* group_admins
          call,      \* where each coroutine is in admins() or refresh()
          lag        \* history: how long ago the oldest list that was answered
                     \* from Telegram or from a cache of it had been replaced

vars == <<now, truth, gone, l1, l2, persisted, call, lag>>

Versions == 0..MaxChanges
Idle == [at |-> "idle"]
Entries == [list : Versions, until : 0..(MaxTime + TTL1 + TTL2), fresh : BOOLEAN]
Empty == [list |-> 0, until |-> 0, fresh |-> FALSE]
Resolutions == [at : {"l2", "telegram", "fallback", "persist", "warm"},
          began : 0..MaxTime, list : Versions, fresh : BOOLEAN]

TypeOK ==
  /\ now \in 0..MaxTime /\ truth \in Versions /\ lag \in 0..MaxTime
  /\ gone \in [Versions -> 0..MaxTime]
  /\ l1 \in [Replicas -> Entries] /\ l2 \in Entries
  /\ persisted \in Versions \cup {Nobody}
  /\ call \in [Callers -> {Idle} \cup Resolutions]

Init ==
  /\ now = 0 /\ truth = 0 /\ gone = [v \in Versions |-> 0]
  /\ l1 = [r \in Replicas |-> Empty] /\ l2 = Empty /\ persisted = Nobody
  /\ call = [c \in Callers |-> Idle] /\ lag = 0

-----------------------------------------------------------------------------
\* Somebody is promoted or demoted in Telegram; the bot is not told.
Change ==
  /\ truth < MaxChanges
  /\ truth' = truth + 1
  /\ gone' = [gone EXCEPT ![truth] = now]
  /\ UNCHANGED <<now, l1, l2, persisted, call, lag>>

\* An entry that has expired is as good as none.
Tick ==
  /\ now < MaxTime
  /\ \A c \in Callers : call[c] # Idle => now - call[c].began < Flight
  /\ now' = now + 1
  /\ l1' = [r \in Replicas |-> IF l1[r].until <= now' THEN Empty ELSE l1[r]]
  /\ l2' = IF l2.until <= now' THEN Empty ELSE l2
  /\ UNCHANGED <<truth, gone, persisted, call, lag>>

At(c, stage) == call[c].at = stage
Goto(c, stage) == call' = [call EXCEPT ![c].at = stage]
Begin(c, stage) ==
  call' = [call EXCEPT ![c] = [at |-> stage, began |-> now, list |-> 0, fresh |-> FALSE]]

Staleness(v) == IF v = truth THEN 0 ELSE now - gone[v]
Answer(list, fresh) ==
  lag' = IF fresh /\ Staleness(list) > lag THEN Staleness(list) ELSE lag

Live(entry) == now < entry.until
Cached(list, fresh, ttl) == [list |-> list, until |-> now + ttl, fresh |-> fresh]
SetL1(c, list, fresh) == l1' = [l1 EXCEPT ![ReplicaOf[c]] = Cached(list, fresh, TTL1)]
Mine(c) == l1[ReplicaOf[c]]

\* A hit keeps the entry for another while.
HitL1_Slides(c) ==
  /\ At(c, "idle") /\ Live(Mine(c))
  /\ Answer(Mine(c).list, Mine(c).fresh)
  /\ SetL1(c, Mine(c).list, Mine(c).fresh)
  /\ UNCHANGED <<now, truth, gone, l2, persisted, call>>

HitL1(c) ==
  /\ At(c, "idle") /\ Live(Mine(c))
  /\ Answer(Mine(c).list, Mine(c).fresh)
  /\ UNCHANGED <<now, truth, gone, l1, l2, persisted, call>>

MissL1(c) ==
  /\ At(c, "idle") /\ ~Live(Mine(c))
  /\ Begin(c, "l2")
  /\ UNCHANGED <<now, truth, gone, l1, l2, persisted, lag>>

\* /reload asks Telegram whatever is cached.
Reload(c) ==
  /\ At(c, "idle")
  /\ Begin(c, "telegram")
  /\ UNCHANGED <<now, truth, gone, l1, l2, persisted, lag>>

HitL2(c) ==
  /\ At(c, "l2") /\ Live(l2)
  /\ SetL1(c, l2.list, l2.fresh)
  /\ Answer(l2.list, l2.fresh)
  /\ call' = [call EXCEPT ![c] = Idle]
  /\ UNCHANGED <<now, truth, gone, l2, persisted>>

\* A cache that cannot be read is a miss.
MissL2(c) ==
  /\ At(c, "l2")
  /\ Goto(c, "telegram")
  /\ UNCHANGED <<now, truth, gone, l1, l2, persisted, lag>>

Fetch(c) ==
  /\ At(c, "telegram")
  /\ call' = [call EXCEPT ![c] = [@ EXCEPT !.at = "persist", !.list = truth, !.fresh = TRUE]]
  /\ UNCHANGED <<now, truth, gone, l1, l2, persisted, lag>>

TelegramFails(c) ==
  /\ At(c, "telegram")
  /\ Goto(c, "fallback")
  /\ UNCHANGED <<now, truth, gone, l1, l2, persisted, lag>>

\* The last known list is cached like a fresh one; that there is none is not.
Fallback(c) ==
  /\ At(c, "fallback")
  /\ \/ /\ persisted # Nobody
        /\ call' = [call EXCEPT ![c] = [@ EXCEPT !.at = "warm", !.list = persisted]]
        /\ SetL1(c, persisted, FALSE)
     \/ call' = [call EXCEPT ![c] = Idle] /\ UNCHANGED l1
  /\ UNCHANGED <<now, truth, gone, l2, persisted, lag>>

\* Best effort: the rows are replaced in one transaction, or not at all.
Persist(c) ==
  /\ At(c, "persist")
  /\ persisted' \in {call[c].list, persisted}
  /\ SetL1(c, call[c].list, TRUE)
  /\ Goto(c, "warm")
  /\ UNCHANGED <<now, truth, gone, l2, lag>>

Warm(c) ==
  /\ At(c, "warm")
  /\ l2' \in {Cached(call[c].list, call[c].fresh, TTL2), l2}
  /\ Answer(call[c].list, call[c].fresh)
  /\ call' = [call EXCEPT ![c] = Idle]
  /\ UNCHANGED <<now, truth, gone, l1, persisted>>

\* Valkey is flushed, or a replica starts again.
FlushL2 == l2' = Empty /\ UNCHANGED <<now, truth, gone, l1, persisted, call, lag>>
Restart(r) ==
  /\ l1' = [l1 EXCEPT ![r] = Empty]
  /\ call' = [c \in Callers |-> IF ReplicaOf[c] = r THEN Idle ELSE call[c]]
  /\ UNCHANGED <<now, truth, gone, l2, persisted, lag>>

Next ==
  \/ Change \/ Tick \/ FlushL2
  \/ \E c \in Callers :
       \/ HitL1(c) \/ MissL1(c) \/ Reload(c) \/ HitL2(c) \/ MissL2(c) \/ Fetch(c)
       \/ TelegramFails(c) \/ Fallback(c) \/ Persist(c) \/ Warm(c)
  \/ \E r \in Replicas : Restart(r)

Spec == Init /\ [][Next]_vars

-----------------------------------------------------------------------------
\* Whoever is demoted while Telegram answers loses the bot's admin commands
\* within the two expiries and one resolution, on every replica, whichever
\* replica refreshed last and however refreshes overlap; a list that came from
\* the table because Telegram did not answer may be of any age.
DemotionBites == lag < TTL1 + TTL2 + Flight

\* A list that was refreshed anywhere is what every process answers with
\* (admins.py: "a refresh from any replica fixes every replica").
OneRefreshFixesAll ==
  \A r \in Replicas : Live(l1[r]) /\ Live(l2) => l1[r].list = l2.list
=============================================================================
