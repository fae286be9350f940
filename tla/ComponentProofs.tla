-------------------------- MODULE ComponentProofs ---------------------------
(***************************************************************************)
(* Proofs about components that MCServices and MCTools instantiate.  Each  *)
(* is an instance here too, of constants and variables by its own names,   *)
(* and its theorems are about that instance alone, for every value of the  *)
(* constants.                                                              *)
(***************************************************************************)
EXTENDS Integers, Sequences, FiniteSets, FiniteSetTheorems, WellFoundedInduction, TLAPS

-----------------------------------------------------------------------------
(* AdminList.                                                              *)
(*                                                                         *)
(* What bounds the age of an answer is when its list was the truth: a      *)
(* resolution knows since when it has run, an entry of a cache when it     *)
(* ends, and so does the entry of another cache it was copied to.          *)
CONSTANTS Callers, Replicas, ReplicaOf, TTL1, TTL2, Flight, MaxChanges, MaxTime, Nobody
VARIABLES now, truth, gone, l1, l2, persisted, call, lag

Lists == INSTANCE AdminList

\* The list was Telegram's at the time `since', less `slack'.
WasTrue(list, since, slack) == list = truth \/ gone[list] + slack >= since

\* An entry is kept for no longer than ttl, and lists from Telegram were its own
\* no longer than slack before the entry ends.
EntryDated(entry, ttl, slack) ==
  /\ entry.until <= now + ttl
  /\ entry.fresh /\ now < entry.until => WasTrue(entry.list, entry.until, slack)

\* A resolution lasts at most Flight, and what it got from Telegram was true at
\* some time of it.
CallDated(c) ==
  /\ c.began <= now /\ now <= c.began + Flight
  /\ c.fresh => WasTrue(c.list, c.began, 0)
  /\ c.at = "persist" => c.fresh
  /\ c.at \in {"l2", "telegram", "fallback"} => ~c.fresh

AdminsInv ==
  /\ Lists!TypeOK
  /\ \A c \in Callers : call[c] # Lists!Idle => CallDated(call[c])
  /\ EntryDated(l2, TTL2, TTL2 + Flight)
  /\ \A r \in Replicas : EntryDated(l1[r], TTL1, TTL1 + TTL2 + Flight)
  /\ Lists!DemotionBites

\* Caches keep what they are given for a while (settings.py,
\* config_cache_l1_seconds and admin_cache_seconds).
Kept == Lists!AdminListAssumption /\ TTL1 > 0

LEMMA AdminsTypes ==
  ASSUME AdminsInv, Kept
  PROVE  /\ now \in Nat /\ lag \in Nat /\ {TTL1, TTL2, Flight, MaxTime, MaxChanges} \subseteq Nat
         /\ now <= MaxTime
         /\ \A v \in Lists!Versions : gone[v] \in Nat /\ gone[v] <= MaxTime
         /\ \A r \in Replicas : l1[r] \in Lists!Entries
         /\ l2 \in Lists!Entries
         /\ \A c \in Callers : call[c] # Lists!Idle => call[c] \in Lists!Resolutions
         /\ \A c \in Callers : ReplicaOf[c] \in Replicas
BY DEF AdminsInv, Kept, Lists!TypeOK, Lists!AdminListAssumption

\* A list is stale for as long as its slack allows.
LEMMA AnswerBounded ==
  ASSUME AdminsInv, Kept, NEW list \in Lists!Versions, NEW fresh \in BOOLEAN,
         Lists!Answer(list, fresh),
         fresh => list = truth \/ now < gone[list] + TTL1 + TTL2 + Flight
  PROVE  lag' \in 0..MaxTime /\ lag' < TTL1 + TTL2 + Flight
<1>1. lag \in 0..MaxTime /\ lag < TTL1 + TTL2 + Flight
  BY DEF AdminsInv, Lists!TypeOK, Lists!DemotionBites
<1>2. /\ now \in Nat /\ {TTL1, TTL2, Flight, MaxTime} \subseteq Nat
      /\ now <= MaxTime /\ gone[list] \in Nat
  BY AdminsTypes
<1>3. CASE fresh /\ Lists!Staleness(list) > lag
  <2>1. lag' = Lists!Staleness(list) BY <1>3 DEF Lists!Answer
  <2>2. CASE list = truth BY <1>1, <1>2, <1>3, <2>1, <2>2 DEF Lists!Staleness
  <2>3. CASE list # truth
    <3>1. lag' = now - gone[list] /\ lag' > lag BY <1>3, <2>1, <2>3 DEF Lists!Staleness
    <3> QED BY <1>1, <1>2, <1>3, <2>3, <3>1
  <2> QED BY <2>2, <2>3
<1>4. CASE ~(fresh /\ Lists!Staleness(list) > lag)
  BY <1>1, <1>4 DEF Lists!Answer
<1> QED BY <1>3, <1>4

\* Writing an entry with a list dated well enough keeps the first level dated.
LEMMA SetL1Dated ==
  ASSUME AdminsInv, Kept, NEW c \in Callers, NEW list \in Lists!Versions,
         NEW fresh \in BOOLEAN, Lists!SetL1(c, list, fresh), UNCHANGED <<now, truth, gone>>,
         fresh => WasTrue(list, now, TTL2 + Flight)
  PROVE  /\ l1' \in [Replicas -> Lists!Entries]
         /\ \A r \in Replicas : EntryDated(l1[r], TTL1, TTL1 + TTL2 + Flight)'
<1> DEFINE new == Lists!Cached(list, fresh, TTL1)
<1>1. /\ now \in Nat /\ {TTL1, TTL2, Flight, MaxTime} \subseteq Nat /\ now <= MaxTime
      /\ gone[list] \in Nat /\ ReplicaOf[c] \in Replicas
  BY AdminsTypes
<1>2. l1 \in [Replicas -> Lists!Entries] BY DEF AdminsInv, Lists!TypeOK
<1>3. new \in Lists!Entries BY <1>1 DEF Lists!Cached, Lists!Entries
<1>4. l1' = [l1 EXCEPT ![ReplicaOf[c]] = new] BY DEF Lists!SetL1
<1>5. new.list = list /\ new.until = now + TTL1 /\ new.fresh = fresh BY DEF Lists!Cached
<1>6. fresh => WasTrue(list, now + TTL1, TTL1 + TTL2 + Flight) BY <1>1 DEF WasTrue
<1>7. EntryDated(new, TTL1, TTL1 + TTL2 + Flight) BY <1>1, <1>5, <1>6 DEF EntryDated
<1> HIDE DEF new
<1>8. \A r \in Replicas : l1'[r] = IF r = ReplicaOf[c] THEN new ELSE l1[r] BY <1>2, <1>4
<1>9. l1' \in [Replicas -> Lists!Entries] BY <1>2, <1>3, <1>4
<1>10. \A r \in Replicas : EntryDated(l1'[r], TTL1, TTL1 + TTL2 + Flight)
  BY <1>7, <1>8 DEF AdminsInv
<1>11. \A e : EntryDated(e, TTL1, TTL1 + TTL2 + Flight)
                => /\ e.until <= now' + TTL1
                   /\ e.fresh /\ now' < e.until
                        => e.list = truth' \/ gone'[e.list] + (TTL1 + TTL2 + Flight) >= e.until
  BY DEF EntryDated, WasTrue
<1> QED BY <1>9, <1>10, <1>11 DEF EntryDated, WasTrue

\* A step that leaves time and Telegram alone, and the caches it does not write.
LEMMA DatesStay ==
  ASSUME AdminsInv, UNCHANGED <<now, truth, gone>>
  PROVE  /\ UNCHANGED l1 => \A r \in Replicas : EntryDated(l1[r], TTL1, TTL1 + TTL2 + Flight)'
         /\ UNCHANGED l2 => EntryDated(l2, TTL2, TTL2 + Flight)'
         /\ \A c \in Callers : call'[c] = call[c] /\ call[c] # Lists!Idle => CallDated(call[c])'
<1>1. ASSUME UNCHANGED l1, NEW r \in Replicas PROVE EntryDated(l1[r], TTL1, TTL1 + TTL2 + Flight)'
  BY <1>1 DEF AdminsInv, EntryDated, WasTrue
<1>2. ASSUME UNCHANGED l2 PROVE EntryDated(l2, TTL2, TTL2 + Flight)'
  BY <1>2 DEF AdminsInv, EntryDated, WasTrue
<1>3. ASSUME NEW c \in Callers, call'[c] = call[c], call[c] # Lists!Idle PROVE CallDated(call[c])'
  BY <1>3 DEF AdminsInv, CallDated, WasTrue
<1> QED BY <1>1, <1>2, <1>3

\* One coroutine moves on, or ends.
LEMMA CallMoves ==
  ASSUME AdminsInv, NEW c \in Callers, NEW new \in {Lists!Idle} \cup Lists!Resolutions,
         call' = [call EXCEPT ![c] = new], UNCHANGED <<now, truth, gone>>,
         new # Lists!Idle => CallDated(new)
  PROVE  /\ call' \in [Callers -> {Lists!Idle} \cup Lists!Resolutions]
         /\ \A d \in Callers : call'[d] # Lists!Idle => CallDated(call[d])'
<1>1. call \in [Callers -> {Lists!Idle} \cup Lists!Resolutions] BY DEF AdminsInv, Lists!TypeOK
<1>2. \A d \in Callers : call'[d] = IF d = c THEN new ELSE call[d] BY <1>1
<1>3. call' \in [Callers -> {Lists!Idle} \cup Lists!Resolutions] BY <1>1
<1>4. \A d \in Callers : call'[d] # Lists!Idle => CallDated(call'[d])
  BY <1>2 DEF AdminsInv
<1>5. \A d \in Callers : CallDated(call'[d]) => CallDated(call[d])' BY DEF CallDated, WasTrue
<1> QED BY <1>3, <1>4, <1>5
LEMMA AdminsInvInit == ASSUME Kept PROVE Lists!Init => AdminsInv
<1> SUFFICES ASSUME Lists!Init PROVE AdminsInv OBVIOUS
<1> USE DEF Kept, Lists!AdminListAssumption
<1>1. Lists!Empty \in Lists!Entries BY DEF Lists!Empty, Lists!Entries, Lists!Versions
<1>2. Lists!TypeOK BY <1>1 DEF Lists!Init, Lists!TypeOK, Lists!Versions
<1>3. EntryDated(Lists!Empty, TTL2, TTL2 + Flight) /\ EntryDated(Lists!Empty, TTL1, TTL1 + TTL2 + Flight)
  BY DEF Lists!Init, EntryDated, Lists!Empty
<1>4. Lists!DemotionBites BY DEF Lists!Init, Lists!DemotionBites
<1> QED BY <1>2, <1>3, <1>4 DEF Lists!Init, AdminsInv

\* The clock: an entry that ends now is gone, and no resolution outlasts Flight.
LEMMA TickDated == ASSUME AdminsInv, Kept, Lists!Tick PROVE AdminsInv'
<1>1. /\ now \in Nat /\ {TTL1, TTL2, Flight, MaxTime} \subseteq Nat
      /\ \A r \in Replicas : l1[r] \in Lists!Entries
      /\ l2 \in Lists!Entries
      /\ \A c \in Callers : call[c] # Lists!Idle => call[c] \in Lists!Resolutions
  BY AdminsTypes
<1>2. now' = now + 1 /\ now < MaxTime /\ UNCHANGED <<truth, gone, persisted, call, lag>>
  BY DEF Lists!Tick
<1>3. Lists!Empty \in Lists!Entries BY <1>1 DEF Lists!Empty, Lists!Entries, Lists!Versions, Kept, Lists!AdminListAssumption
<1>4. ASSUME NEW e \in Lists!Entries, NEW ttl \in Nat, NEW slack \in Nat, EntryDated(e, ttl, slack),
             NEW d, d = IF e.until <= now' THEN Lists!Empty ELSE e
      PROVE  /\ d \in Lists!Entries
             /\ d.until <= now' + ttl
             /\ d.fresh /\ now' < d.until => WasTrue(d.list, d.until, slack)
  <2>1. CASE e.until <= now' BY <1>1, <1>2, <1>3, <1>4, <2>1 DEF Lists!Empty
  <2>2. CASE ~(e.until <= now')
    <3>1. e.until \in Nat BY DEF Lists!Entries
    <3> QED BY <1>1, <1>2, <1>4, <2>2, <3>1 DEF EntryDated
  <2> QED BY <2>1, <2>2
<1>5. \A list, since, slack : WasTrue(list, since, slack)' <=> WasTrue(list, since, slack)
  BY <1>2 DEF WasTrue
<1>6. EntryDated(l2, TTL2, TTL2 + Flight)' /\ l2' \in Lists!Entries
  <2>1. l2' = IF l2.until <= now' THEN Lists!Empty ELSE l2 BY DEF Lists!Tick
  <2>2. EntryDated(l2, TTL2, TTL2 + Flight) BY DEF AdminsInv
  <2>3. /\ l2' \in Lists!Entries /\ l2'.until <= now' + TTL2
        /\ l2'.fresh /\ now' < l2'.until => WasTrue(l2'.list, l2'.until, TTL2 + Flight)
    <3>1. TTL2 \in Nat /\ TTL2 + Flight \in Nat BY <1>1
    <3> QED BY <1>1, <1>4, <2>1, <2>2, <3>1
  <2> QED BY <1>2, <2>3 DEF EntryDated, WasTrue
<1>7. ASSUME NEW r \in Replicas
      PROVE  EntryDated(l1[r], TTL1, TTL1 + TTL2 + Flight)' /\ l1'[r] \in Lists!Entries
  <2>1. l1'[r] = IF l1[r].until <= now' THEN Lists!Empty ELSE l1[r] BY DEF Lists!Tick
  <2>2. EntryDated(l1[r], TTL1, TTL1 + TTL2 + Flight) BY DEF AdminsInv
  <2>3. /\ l1'[r] \in Lists!Entries /\ l1'[r].until <= now' + TTL1
        /\ l1'[r].fresh /\ now' < l1'[r].until
             => WasTrue(l1'[r].list, l1'[r].until, TTL1 + TTL2 + Flight)
    <3>1. TTL1 \in Nat /\ TTL1 + TTL2 + Flight \in Nat BY <1>1
    <3> QED BY <1>1, <1>4, <2>1, <2>2, <3>1
  <2> QED BY <1>2, <2>3 DEF EntryDated, WasTrue
<1>8. ASSUME NEW c \in Callers, call'[c] # Lists!Idle PROVE CallDated(call[c])'
  <2>1. call[c] # Lists!Idle /\ call[c] \in Lists!Resolutions /\ call'[c] = call[c]
    BY <1>1, <1>2, <1>8
  <2>2. CallDated(call[c]) /\ now - call[c].began < Flight
    BY <2>1 DEF AdminsInv, Lists!Tick
  <2>3. call[c].began \in Nat BY <1>1, <2>1 DEF Lists!Resolutions
  <2>4. call[c].began <= now' /\ now' <= call[c].began + Flight BY <1>1, <1>2, <2>2, <2>3 DEF CallDated
  <2> QED BY <1>2, <2>1, <2>2, <2>4 DEF CallDated, WasTrue
<1>9. l1' \in [Replicas -> Lists!Entries]
  <2>1. l1' = [r \in Replicas |-> IF l1[r].until <= now' THEN Lists!Empty ELSE l1[r]]
    BY DEF Lists!Tick
  <2> QED BY <1>1, <1>3, <2>1
<1>10. now' \in 0..MaxTime BY <1>1, <1>2
<1>11. Lists!TypeOK' BY <1>2, <1>6, <1>9, <1>10 DEF AdminsInv, Lists!TypeOK
<1>12. Lists!DemotionBites' BY <1>2 DEF AdminsInv, Lists!DemotionBites
<1> QED BY <1>6, <1>7, <1>8, <1>11, <1>12 DEF AdminsInv

\* Whatever was true until now was true a moment ago.
LEMMA ChangeDated == ASSUME AdminsInv, Kept, Lists!Change PROVE AdminsInv'
<1>1. /\ now \in Nat /\ {TTL1, TTL2, Flight, MaxTime, MaxChanges} \subseteq Nat /\ now <= MaxTime
      /\ \A r \in Replicas : l1[r] \in Lists!Entries
      /\ l2 \in Lists!Entries
      /\ \A c \in Callers : call[c] # Lists!Idle => call[c] \in Lists!Resolutions
  BY AdminsTypes
<1>2. /\ truth' = truth + 1 /\ truth < MaxChanges /\ gone' = [gone EXCEPT ![truth] = now]
      /\ UNCHANGED <<now, l1, l2, persisted, call, lag>>
  BY DEF Lists!Change
<1>3. truth \in Lists!Versions /\ gone \in [Lists!Versions -> 0..MaxTime]
  BY DEF AdminsInv, Lists!TypeOK
<1>4. truth' \in Lists!Versions /\ gone' \in [Lists!Versions -> 0..MaxTime]
  BY <1>1, <1>2, <1>3 DEF Lists!Versions
<1>5. ASSUME NEW list \in Lists!Versions, NEW since \in Nat, NEW slack \in Nat,
             since <= now + slack, WasTrue(list, since, slack)
      PROVE  list = truth' \/ gone'[list] + slack >= since
  <2>1. CASE list = truth BY <1>2, <1>3, <1>5, <2>1
  <2>2. CASE list # truth BY <1>2, <1>3, <1>5, <2>2 DEF WasTrue
  <2> QED BY <2>1, <2>2
<1>6. ASSUME NEW e \in Lists!Entries, NEW ttl \in Nat, NEW slack \in Nat, ttl <= slack,
             EntryDated(e, ttl, slack), e.fresh, now < e.until
      PROVE  e.list = truth' \/ gone'[e.list] + slack >= e.until
  <2>1. e.list \in Lists!Versions /\ e.until \in Nat BY DEF Lists!Entries
  <2>2. e.until <= now + slack BY <1>1, <1>6, <2>1 DEF EntryDated
  <2> QED BY <1>5, <1>6, <2>1, <2>2 DEF EntryDated
<1>7. EntryDated(l2, TTL2, TTL2 + Flight)'
  <2>1. EntryDated(l2, TTL2, TTL2 + Flight) BY DEF AdminsInv
  <2>2. TTL2 <= TTL2 + Flight /\ TTL2 + Flight \in Nat /\ TTL2 \in Nat BY <1>1
  <2> QED BY <1>1, <1>2, <1>6, <2>1, <2>2 DEF EntryDated, WasTrue
<1>8. ASSUME NEW r \in Replicas PROVE EntryDated(l1[r], TTL1, TTL1 + TTL2 + Flight)'
  <2>1. EntryDated(l1[r], TTL1, TTL1 + TTL2 + Flight) BY DEF AdminsInv
  <2>2. TTL1 <= TTL1 + TTL2 + Flight /\ TTL1 + TTL2 + Flight \in Nat /\ TTL1 \in Nat BY <1>1
  <2> QED BY <1>1, <1>2, <1>6, <2>1, <2>2 DEF EntryDated, WasTrue
<1>9. ASSUME NEW c \in Callers, call[c] # Lists!Idle PROVE CallDated(call[c])'
  <2>1. call[c] \in Lists!Resolutions /\ CallDated(call[c]) BY <1>1, <1>9 DEF AdminsInv
  <2>2. call[c].list \in Lists!Versions /\ call[c].began \in Nat BY <1>1, <2>1 DEF Lists!Resolutions
  <2>3. call[c].fresh => call[c].list = truth' \/ gone'[call[c].list] + 0 >= call[c].began
    BY <1>1, <1>5, <2>1, <2>2 DEF CallDated
  <2> QED BY <1>2, <2>1, <2>3 DEF CallDated, WasTrue
<1>10. Lists!TypeOK' BY <1>2, <1>4 DEF AdminsInv, Lists!TypeOK
<1>11. Lists!DemotionBites' BY <1>2 DEF AdminsInv, Lists!DemotionBites
<1> QED BY <1>2, <1>7, <1>8, <1>9, <1>10, <1>11 DEF AdminsInv

LEMMA AdminsInvNext == ASSUME Kept PROVE AdminsInv /\ [Lists!Next]_Lists!vars => AdminsInv'
<1> SUFFICES ASSUME AdminsInv, [Lists!Next]_Lists!vars PROVE AdminsInv' OBVIOUS
<1>t. /\ now \in Nat /\ {TTL1, TTL2, Flight, MaxTime, MaxChanges} \subseteq Nat /\ now <= MaxTime
      /\ \A v \in Lists!Versions : gone[v] \in Nat
      /\ \A r \in Replicas : l1[r] \in Lists!Entries
      /\ l2 \in Lists!Entries
      /\ \A c \in Callers : call[c] # Lists!Idle => call[c] \in Lists!Resolutions
      /\ \A c \in Callers : ReplicaOf[c] \in Replicas
  BY AdminsTypes
<1>v. 0 \in Lists!Versions BY <1>t DEF Lists!Versions
\* The steps of a resolution that write no cache.
<1>1. ASSUME NEW c \in Callers, NEW new \in {Lists!Idle} \cup Lists!Resolutions,
             call' = [call EXCEPT ![c] = new], new # Lists!Idle => CallDated(new),
             UNCHANGED <<now, truth, gone, l1, l2, persisted, lag>>
      PROVE  AdminsInv'
  <2>1. /\ call' \in [Callers -> {Lists!Idle} \cup Lists!Resolutions]
        /\ \A d \in Callers : call'[d] # Lists!Idle => CallDated(call[d])'
    BY <1>1, CallMoves
  <2>2. /\ \A r \in Replicas : EntryDated(l1[r], TTL1, TTL1 + TTL2 + Flight)'
        /\ EntryDated(l2, TTL2, TTL2 + Flight)'
    BY <1>1, DatesStay
  <2>3. Lists!TypeOK' BY <1>1, <2>1 DEF AdminsInv, Lists!TypeOK
  <2> QED BY <1>1, <2>1, <2>2, <2>3 DEF AdminsInv, Lists!DemotionBites
\* What a resolution is at, by where it stands.
<1>2. ASSUME NEW c \in Callers, call[c].at # "idle"
      PROVE  call[c] # Lists!Idle /\ call[c] \in Lists!Resolutions /\ CallDated(call[c])
  <2>1. call[c] # Lists!Idle BY <1>2 DEF Lists!Idle
  <2> QED BY <1>t, <2>1 DEF AdminsInv
<1>3. ASSUME NEW c \in Callers, NEW next \in {"l2", "telegram"}, Lists!Begin(c, next),
             UNCHANGED <<now, truth, gone, l1, l2, persisted, lag>>
      PROVE  AdminsInv'
  <2> DEFINE new == [at |-> next, began |-> now, list |-> 0, fresh |-> FALSE]
  <2>1. new \in Lists!Resolutions BY <1>t, <1>v DEF Lists!Resolutions
  <2>2. CallDated(new) BY <1>t DEF CallDated
  <2>3. call' = [call EXCEPT ![c] = new] BY <1>3 DEF Lists!Begin
  <2> HIDE DEF new
  <2> QED BY <1>1, <1>3, <2>1, <2>2, <2>3
<1>4. ASSUME NEW c \in Callers, Lists!MissL1(c) \/ Lists!Reload(c) PROVE AdminsInv'
  BY <1>3, <1>4 DEF Lists!MissL1, Lists!Reload
<1>5. ASSUME NEW c \in Callers, Lists!MissL2(c) \/ Lists!TelegramFails(c) PROVE AdminsInv'
  <2>1. call[c].at \in {"l2", "telegram"}
    BY <1>5 DEF Lists!MissL2, Lists!TelegramFails, Lists!At
  <2>2. call[c] \in Lists!Resolutions /\ CallDated(call[c]) BY <1>2, <2>1
  <2>3. PICK next \in {"telegram", "fallback"} : call' = [call EXCEPT ![c].at = next]
    BY <1>5 DEF Lists!MissL2, Lists!TelegramFails, Lists!Goto
  <2> DEFINE new == [call[c] EXCEPT !.at = next]
  <2>4. /\ new \in Lists!Resolutions /\ new.at = next /\ new.began = call[c].began
        /\ new.list = call[c].list /\ new.fresh = call[c].fresh
    <3>1. new = [at |-> next, began |-> call[c].began, list |-> call[c].list,
                 fresh |-> call[c].fresh] BY <2>2 DEF Lists!Resolutions
    <3> QED BY <2>2, <3>1 DEF Lists!Resolutions
  <2>5. call' = [call EXCEPT ![c] = new] BY <2>3
  <2> HIDE DEF new
  <2>6. CallDated(new) BY <2>1, <2>2, <2>4 DEF CallDated
  <2> QED BY <1>1, <1>5, <2>4, <2>5, <2>6 DEF Lists!MissL2, Lists!TelegramFails
<1>6. ASSUME NEW c \in Callers, Lists!Fetch(c) PROVE AdminsInv'
  <2>1. call[c].at = "telegram" BY <1>6 DEF Lists!Fetch, Lists!At
  <2>2. call[c] \in Lists!Resolutions /\ CallDated(call[c]) BY <1>2, <2>1
  <2> DEFINE first == [call[c] EXCEPT !.at = "persist"]
             second == [first EXCEPT !.list = truth]
             new == [second EXCEPT !.fresh = TRUE]
  <2>3. truth \in Lists!Versions BY DEF AdminsInv, Lists!TypeOK
  <2>4. /\ new \in Lists!Resolutions /\ new.at = "persist" /\ new.began = call[c].began
        /\ new.list = truth /\ new.fresh = TRUE
        /\ [call[c] EXCEPT !.at = "persist", !.list = truth, !.fresh = TRUE] = new
    <3>1. first \in Lists!Resolutions BY <2>2 DEF Lists!Resolutions
    <3>2. second \in Lists!Resolutions BY <2>3, <3>1 DEF Lists!Resolutions
    <3> QED BY <2>2, <2>3, <3>1, <3>2 DEF Lists!Resolutions
  <2>5. new \in Lists!Resolutions BY <2>4
  <2>6. CallDated(new) BY <2>2, <2>4 DEF CallDated, WasTrue
  <2>7. call' = [call EXCEPT ![c] = new] BY <1>6, <2>4 DEF Lists!Fetch
  <2> HIDE DEF new
  <2> QED BY <1>1, <1>6, <2>5, <2>6, <2>7 DEF Lists!Fetch
<1>7. ASSUME NEW c \in Callers, Lists!HitL1(c) PROVE AdminsInv'
  <2> DEFINE e == l1[ReplicaOf[c]]
  <2>1. e \in Lists!Entries /\ EntryDated(e, TTL1, TTL1 + TTL2 + Flight) BY <1>t DEF AdminsInv
  <2>2. now < e.until /\ Lists!Answer(e.list, e.fresh)
    BY <1>7 DEF Lists!HitL1, Lists!Live, Lists!Mine
  <2>3. e.list \in Lists!Versions /\ e.fresh \in BOOLEAN /\ e.until \in Nat
    BY <2>1 DEF Lists!Entries
  <2>4. e.fresh => e.list = truth \/ now < gone[e.list] + TTL1 + TTL2 + Flight
    BY <1>t, <2>1, <2>2, <2>3 DEF EntryDated, WasTrue
  <2> HIDE DEF e
  <2>5. lag' \in 0..MaxTime /\ lag' < TTL1 + TTL2 + Flight BY <2>2, <2>3, <2>4, AnswerBounded
  <2>6. UNCHANGED <<now, truth, gone, l1, l2, persisted, call>> BY <1>7 DEF Lists!HitL1
  <2>7. /\ \A r \in Replicas : EntryDated(l1[r], TTL1, TTL1 + TTL2 + Flight)'
        /\ EntryDated(l2, TTL2, TTL2 + Flight)'
        /\ \A d \in Callers : call'[d] # Lists!Idle => CallDated(call[d])'
    BY <2>6, DatesStay
  <2>8. Lists!TypeOK' BY <2>5, <2>6 DEF AdminsInv, Lists!TypeOK
  <2> QED BY <2>5, <2>7, <2>8 DEF AdminsInv, Lists!DemotionBites
<1>8. ASSUME NEW c \in Callers, Lists!HitL2(c) PROVE AdminsInv'
  <2>1. /\ l2.list \in Lists!Versions /\ l2.fresh \in BOOLEAN /\ l2.until \in Nat
    BY <1>t DEF Lists!Entries
  <2>2. /\ now < l2.until /\ Lists!SetL1(c, l2.list, l2.fresh)
        /\ Lists!Answer(l2.list, l2.fresh) /\ call' = [call EXCEPT ![c] = Lists!Idle]
        /\ UNCHANGED <<now, truth, gone, l2, persisted>>
    BY <1>8 DEF Lists!HitL2, Lists!Live
  <2>3. l2.fresh => WasTrue(l2.list, l2.until, TTL2 + Flight) BY <2>2 DEF AdminsInv, EntryDated
  <2>4. l2.fresh => WasTrue(l2.list, now, TTL2 + Flight)
    BY <1>t, <2>1, <2>2, <2>3 DEF WasTrue
  <2>5. /\ l1' \in [Replicas -> Lists!Entries]
        /\ \A r \in Replicas : EntryDated(l1[r], TTL1, TTL1 + TTL2 + Flight)'
    BY <2>1, <2>2, <2>4, SetL1Dated
  <2>6. l2.fresh => l2.list = truth \/ now < gone[l2.list] + TTL1 + TTL2 + Flight
    BY <1>t, <2>1, <2>2, <2>3 DEF WasTrue
  <2>7. lag' \in 0..MaxTime /\ lag' < TTL1 + TTL2 + Flight BY <2>1, <2>2, <2>6, AnswerBounded
  <2>8. /\ call' \in [Callers -> {Lists!Idle} \cup Lists!Resolutions]
        /\ \A d \in Callers : call'[d] # Lists!Idle => CallDated(call[d])'
    BY <2>2, CallMoves
  <2>9. EntryDated(l2, TTL2, TTL2 + Flight)' BY <2>2, DatesStay
  <2>10. Lists!TypeOK' BY <2>2, <2>5, <2>7, <2>8 DEF AdminsInv, Lists!TypeOK
  <2> QED BY <2>5, <2>7, <2>8, <2>9, <2>10 DEF AdminsInv, Lists!DemotionBites
<1>9. ASSUME NEW c \in Callers, Lists!Fallback(c) PROVE AdminsInv'
  <2>1. call[c].at = "fallback" BY <1>9 DEF Lists!Fallback, Lists!At
  <2>2. call[c] \in Lists!Resolutions /\ CallDated(call[c]) BY <1>2, <2>1
  <2>3. UNCHANGED <<now, truth, gone, l2, persisted, lag>> BY <1>9 DEF Lists!Fallback
  <2>4. CASE call' = [call EXCEPT ![c] = Lists!Idle] /\ UNCHANGED l1 BY <1>1, <2>3, <2>4
  <2>5. CASE /\ persisted # Nobody
             /\ call' = [call EXCEPT ![c] = [@ EXCEPT !.at = "warm", !.list = persisted]]
             /\ Lists!SetL1(c, persisted, FALSE)
    <3>1. persisted \in Lists!Versions BY <2>5 DEF AdminsInv, Lists!TypeOK
    <3> DEFINE first == [call[c] EXCEPT !.at = "warm"]
               new == [first EXCEPT !.list = persisted]
    <3>2. /\ new \in Lists!Resolutions /\ new.at = "warm" /\ new.began = call[c].began
          /\ new.list = persisted /\ new.fresh = call[c].fresh
          /\ [call[c] EXCEPT !.at = "warm", !.list = persisted] = new
      <4>1. first \in Lists!Resolutions BY <2>2 DEF Lists!Resolutions
      <4> QED BY <2>2, <3>1, <4>1 DEF Lists!Resolutions
    <3>3. new \in Lists!Resolutions BY <3>2
    <3>4. CallDated(new) BY <2>1, <2>2, <3>2 DEF CallDated
    <3>5. call' = [call EXCEPT ![c] = new] BY <2>5, <3>2
    <3> HIDE DEF new
    <3>6. /\ call' \in [Callers -> {Lists!Idle} \cup Lists!Resolutions]
          /\ \A d \in Callers : call'[d] # Lists!Idle => CallDated(call[d])'
      BY <2>3, <3>3, <3>4, <3>5, CallMoves
    <3>7. /\ l1' \in [Replicas -> Lists!Entries]
          /\ \A r \in Replicas : EntryDated(l1[r], TTL1, TTL1 + TTL2 + Flight)'
      BY <2>3, <2>5, <3>1, SetL1Dated
    <3>8. EntryDated(l2, TTL2, TTL2 + Flight)' BY <2>3, DatesStay
    <3>9. Lists!TypeOK' BY <2>3, <3>6, <3>7 DEF AdminsInv, Lists!TypeOK
    <3> QED BY <2>3, <3>6, <3>7, <3>8, <3>9 DEF AdminsInv, Lists!DemotionBites
  <2> QED BY <1>9, <2>4, <2>5 DEF Lists!Fallback
<1>10. ASSUME NEW c \in Callers, Lists!Persist(c) PROVE AdminsInv'
  <2>1. call[c].at = "persist" BY <1>10 DEF Lists!Persist, Lists!At
  <2>2. call[c] \in Lists!Resolutions /\ CallDated(call[c]) BY <1>2, <2>1
  <2>3. call[c].list \in Lists!Versions /\ call[c].began \in Nat BY <1>t, <2>2 DEF Lists!Resolutions
  <2>4. /\ UNCHANGED <<now, truth, gone, l2, lag>> /\ persisted' \in {call[c].list, persisted}
        /\ Lists!SetL1(c, call[c].list, TRUE)
    BY <1>10 DEF Lists!Persist
  <2>5. WasTrue(call[c].list, now, TTL2 + Flight)
    <3>1. WasTrue(call[c].list, call[c].began, 0) /\ now <= call[c].began + Flight
      BY <2>1, <2>2 DEF CallDated
    <3> QED BY <1>t, <2>3, <3>1 DEF WasTrue
  <2>6. /\ l1' \in [Replicas -> Lists!Entries]
        /\ \A r \in Replicas : EntryDated(l1[r], TTL1, TTL1 + TTL2 + Flight)'
    BY <2>3, <2>4, <2>5, SetL1Dated
  <2> DEFINE new == [call[c] EXCEPT !.at = "warm"]
  <2>7. /\ new \in Lists!Resolutions /\ new.at = "warm" /\ new.began = call[c].began
        /\ new.list = call[c].list /\ new.fresh = call[c].fresh
    <3>1. new = [at |-> "warm", began |-> call[c].began, list |-> call[c].list,
                 fresh |-> call[c].fresh] BY <2>2 DEF Lists!Resolutions
    <3> QED BY <2>2, <3>1 DEF Lists!Resolutions
  <2>8. call' = [call EXCEPT ![c] = new] BY <1>10 DEF Lists!Persist, Lists!Goto
  <2> HIDE DEF new
  <2>9. CallDated(new) BY <2>2, <2>7 DEF CallDated
  <2>10. /\ call' \in [Callers -> {Lists!Idle} \cup Lists!Resolutions]
         /\ \A d \in Callers : call'[d] # Lists!Idle => CallDated(call[d])'
    BY <2>4, <2>7, <2>8, <2>9, CallMoves
  <2>11. EntryDated(l2, TTL2, TTL2 + Flight)' BY <2>4, DatesStay
  <2>12. Lists!TypeOK' BY <2>3, <2>4, <2>6, <2>10 DEF AdminsInv, Lists!TypeOK
  <2> QED BY <2>4, <2>6, <2>10, <2>11, <2>12 DEF AdminsInv, Lists!DemotionBites
<1>11. ASSUME NEW c \in Callers, Lists!Warm(c) PROVE AdminsInv'
  <2>1. call[c].at = "warm" BY <1>11 DEF Lists!Warm, Lists!At
  <2>2. call[c] \in Lists!Resolutions /\ CallDated(call[c]) BY <1>2, <2>1
  <2> DEFINE list == call[c].list
             fresh == call[c].fresh
             new == Lists!Cached(list, fresh, TTL2)
  <2>3. list \in Lists!Versions /\ fresh \in BOOLEAN /\ call[c].began \in Nat
    BY <1>t, <2>2 DEF Lists!Resolutions
  <2>4. /\ UNCHANGED <<now, truth, gone, l1, persisted>> /\ l2' \in {new, l2}
        /\ Lists!Answer(list, fresh) /\ call' = [call EXCEPT ![c] = Lists!Idle]
    BY <1>11 DEF Lists!Warm
  <2>5. fresh => list = truth \/ gone[list] + Flight >= now
    BY <1>t, <2>2, <2>3 DEF CallDated, WasTrue
  <2>6. new.list = list /\ new.until = now + TTL2 /\ new.fresh = fresh BY DEF Lists!Cached
  <2>7. new \in Lists!Entries BY <1>t, <2>3 DEF Lists!Cached, Lists!Entries
  <2> HIDE DEF new, list, fresh
  <2>8. EntryDated(new, TTL2, TTL2 + Flight)
    BY <1>t, <2>3, <2>5, <2>6 DEF EntryDated, WasTrue
  <2>9. l2' \in Lists!Entries /\ EntryDated(l2, TTL2, TTL2 + Flight)'
    BY <1>t, <2>4, <2>7, <2>8 DEF AdminsInv, EntryDated, WasTrue
  <2>10. fresh => list = truth \/ now < gone[list] + TTL1 + TTL2 + Flight
    BY <1>t, <2>3, <2>5 DEF Kept
  <2>11. lag' \in 0..MaxTime /\ lag' < TTL1 + TTL2 + Flight BY <2>3, <2>4, <2>10, AnswerBounded
  <2>12. /\ call' \in [Callers -> {Lists!Idle} \cup Lists!Resolutions]
         /\ \A d \in Callers : call'[d] # Lists!Idle => CallDated(call[d])'
    BY <2>4, CallMoves
  <2>13. \A r \in Replicas : EntryDated(l1[r], TTL1, TTL1 + TTL2 + Flight)' BY <2>4, DatesStay
  <2>14. Lists!TypeOK' BY <2>4, <2>9, <2>11, <2>12 DEF AdminsInv, Lists!TypeOK
  <2> QED BY <2>9, <2>11, <2>12, <2>13, <2>14 DEF AdminsInv, Lists!DemotionBites
<1>e. /\ Lists!Empty \in Lists!Entries
      /\ EntryDated(Lists!Empty, TTL2, TTL2 + Flight)
      /\ EntryDated(Lists!Empty, TTL1, TTL1 + TTL2 + Flight)
  BY <1>t, <1>v DEF Lists!Empty, Lists!Entries, EntryDated
<1>12. CASE Lists!FlushL2
  <2>1. l2' = Lists!Empty /\ UNCHANGED <<now, truth, gone, l1, persisted, call, lag>>
    BY <1>12 DEF Lists!FlushL2
  <2>2. EntryDated(l2, TTL2, TTL2 + Flight)' BY <1>e, <2>1 DEF EntryDated, WasTrue
  <2>3. /\ \A r \in Replicas : EntryDated(l1[r], TTL1, TTL1 + TTL2 + Flight)'
        /\ \A d \in Callers : call'[d] # Lists!Idle => CallDated(call[d])'
    BY <2>1, DatesStay
  <2>4. Lists!TypeOK' BY <1>e, <2>1 DEF AdminsInv, Lists!TypeOK
  <2> QED BY <2>1, <2>2, <2>3, <2>4 DEF AdminsInv, Lists!DemotionBites
<1>13. ASSUME NEW r \in Replicas, Lists!Restart(r) PROVE AdminsInv'
  <2>1. /\ l1' = [l1 EXCEPT ![r] = Lists!Empty]
        /\ call' = [c \in Callers |-> IF ReplicaOf[c] = r THEN Lists!Idle ELSE call[c]]
        /\ UNCHANGED <<now, truth, gone, l2, persisted, lag>>
    BY <1>13 DEF Lists!Restart
  <2>2. /\ l1 \in [Replicas -> Lists!Entries]
        /\ call \in [Callers -> {Lists!Idle} \cup Lists!Resolutions]
    BY DEF AdminsInv, Lists!TypeOK
  <2>3. l1' \in [Replicas -> Lists!Entries] BY <1>e, <2>1, <2>2
  <2>4. call' \in [Callers -> {Lists!Idle} \cup Lists!Resolutions] BY <2>1, <2>2
  <2>5. \A d \in Callers : call'[d] # Lists!Idle => CallDated(call[d])'
    <3>1. \A d \in Callers : call'[d] # Lists!Idle => call'[d] = call[d] BY <2>1
    <3> QED BY <2>1, <3>1, DatesStay
  <2>6. \A q \in Replicas : EntryDated(l1'[q], TTL1, TTL1 + TTL2 + Flight)
    BY <1>e, <2>1, <2>2 DEF AdminsInv
  <2>7. \A q \in Replicas : EntryDated(l1[q], TTL1, TTL1 + TTL2 + Flight)'
    BY <2>1, <2>6 DEF EntryDated, WasTrue
  <2>8. EntryDated(l2, TTL2, TTL2 + Flight)' BY <2>1, DatesStay
  <2>9. Lists!TypeOK' BY <2>1, <2>3, <2>4 DEF AdminsInv, Lists!TypeOK
  <2> QED BY <2>1, <2>5, <2>7, <2>8, <2>9 DEF AdminsInv, Lists!DemotionBites
<1>14. CASE UNCHANGED Lists!vars
  <2>1. UNCHANGED <<now, truth, gone, l1, l2, persisted, call, lag>> BY <1>14 DEF Lists!vars
  <2>2. /\ \A r \in Replicas : EntryDated(l1[r], TTL1, TTL1 + TTL2 + Flight)'
        /\ EntryDated(l2, TTL2, TTL2 + Flight)'
        /\ \A d \in Callers : call'[d] # Lists!Idle => CallDated(call[d])'
    BY <2>1, DatesStay
  <2> QED BY <2>1, <2>2 DEF AdminsInv, Lists!TypeOK, Lists!DemotionBites
<1> QED
  BY <1>4, <1>5, <1>6, <1>7, <1>8, <1>9, <1>10, <1>11, <1>12, <1>13, <1>14, TickDated, ChangeDated
  DEF Lists!Next

\* Whoever is demoted while Telegram answers loses the bot's admin commands within
\* the two expiries and one resolution, for every number of replicas and
\* coroutines and whatever the expiries are (admins.py).
THEOREM DemotionsBite == ASSUME Kept PROVE Lists!Spec => []Lists!DemotionBites
<1>1. AdminsInv => Lists!DemotionBites BY DEF AdminsInv
<1>2. Lists!Init => AdminsInv BY AdminsInvInit
<1>3. AdminsInv /\ [Lists!Next]_Lists!vars => AdminsInv' BY AdminsInvNext
<1> QED BY <1>1, <1>2, <1>3, PTL DEF Lists!Spec


-----------------------------------------------------------------------------
(* FanOut.                                                                 *)
(*                                                                         *)
(* What is still due to a group is counted: by the jobs in the queue that   *)
(* will post in it or sweep over it, and by the workers that are at such a  *)
(* job.  A step of a worker moves the count from one to another, and only  *)
(* a kill adds to it.                                                      *)
CONSTANTS Groups, FunOff, Sweeps, Broadcasts, Manual, ManualIn, Workers, MaxKills, All
VARIABLES begun, queue, at, pinned, posts, excused, kills

FanOuts == INSTANCE FanOut

\* A worker with the record r has yet to post, or to queue the post, in group g.
Owes(r, k, g) ==
  \/ r.job = <<k, g>> /\ r.step = "post"
  \/ r.job = <<k, All>> /\ (r.step = "start" \/ (r.step = "sweep" /\ g \in r.todo))

Owers(k, g) == {w \in Workers : Owes(at[w], k, g)}
Queued(k, g) == queue[<<k, g>>] + queue[<<k, All>>]
Due(k, g) == Queued(k, g) + Cardinality(Owers(k, g))

\* Campaign k keeps its word to group g.
KeptFor(k, g) ==
  /\ k \notin begun => posts[<<k, g>>] = 0 /\ Due(k, g) = 0
  /\ posts[<<k, g>>] + Due(k, g) <= 1 + kills
  /\ k \in begun \ Manual => (Due(k, g) > 0 \/ posts[<<k, g>>] > 0 \/ <<k, g>> \in excused)

\* Workers sweep with the jobs that sweep, and all jobs are of what was begun.
Sensible(r) == r.step # "idle" => /\ r.job[1] \in begun
                                  /\ (r.job[2] = All) <=> (r.step \in {"start", "sweep"})

FanInv ==
  /\ FanOuts!TypeOK
  /\ \A w \in Workers : Sensible(at[w])
  /\ \A j \in FanOuts!Jobs : queue[j] > 0 => j[1] \in begun
  /\ \A k \in FanOuts!Campaigns, g \in Groups : KeptFor(k, g)

Fans == FanOuts!FanOutAssumption /\ IsFiniteSet(Workers)

Count(b) == IF b THEN 1 ELSE 0

LEMMA FanTypes ==
  ASSUME FanInv, Fans
  PROVE  /\ All \notin Groups /\ kills \in Nat /\ MaxKills \in Nat
         /\ \A k \in FanOuts!Campaigns, g \in Groups :
              <<k, g>> \in FanOuts!Jobs /\ <<k, All>> \in FanOuts!Jobs /\ posts[<<k, g>>] \in Nat
         /\ \A j \in FanOuts!Jobs :
              /\ queue[j] \in Nat /\ j = <<j[1], j[2]>>
              /\ j[1] \in FanOuts!Campaigns /\ j[2] \in Groups \cup {All}
         /\ \A k, g : IsFiniteSet(Owers(k, g)) /\ Cardinality(Owers(k, g)) \in Nat
         /\ \A k \in FanOuts!Campaigns, g \in Groups : Queued(k, g) \in Nat /\ Due(k, g) \in Nat
<1>1. All \notin Groups /\ MaxKills \in Nat BY DEF Fans, FanOuts!FanOutAssumption
<1>2. kills \in Nat BY <1>1 DEF FanInv, FanOuts!TypeOK
<1>3. \A k \in FanOuts!Campaigns, g \in Groups :
        <<k, g>> \in FanOuts!Jobs /\ <<k, All>> \in FanOuts!Jobs /\ posts[<<k, g>>] \in Nat
  BY DEF FanInv, FanOuts!TypeOK, FanOuts!Jobs
<1>4. \A j \in FanOuts!Jobs : /\ queue[j] \in Nat /\ j = <<j[1], j[2]>>
                              /\ j[1] \in FanOuts!Campaigns /\ j[2] \in Groups \cup {All}
  BY DEF FanInv, FanOuts!TypeOK, FanOuts!Jobs
<1>5. ASSUME NEW k, NEW g PROVE IsFiniteSet(Owers(k, g)) /\ Cardinality(Owers(k, g)) \in Nat
  <2>1. Owers(k, g) \subseteq Workers BY DEF Owers
  <2>2. IsFiniteSet(Owers(k, g)) BY <2>1, FS_Subset DEF Fans
  <2> QED BY <2>2, FS_CardinalityType
<1>6. \A k \in FanOuts!Campaigns, g \in Groups : Queued(k, g) \in Nat /\ Due(k, g) \in Nat
  <2> SUFFICES ASSUME NEW k \in FanOuts!Campaigns, NEW g \in Groups
               PROVE  Queued(k, g) \in Nat /\ Due(k, g) \in Nat OBVIOUS
  <2>1. queue[<<k, g>>] \in Nat /\ queue[<<k, All>>] \in Nat BY <1>3, <1>4
  <2>2. Cardinality(Owers(k, g)) \in Nat BY <1>5
  <2> QED BY <2>1, <2>2 DEF Queued, Due
<1> QED BY <1>1, <1>2, <1>3, <1>4, <1>5, <1>6

\* A worker at a job.
LEMMA AtAJob ==
  ASSUME FanInv, Fans, NEW w \in Workers, ~FanOuts!Doing(w, "idle")
  PROVE  /\ at[w] \in FanOuts!Stages /\ at[w].job \in FanOuts!Jobs
         /\ at[w].job = <<FanOuts!Of(w), FanOuts!GroupOf(w)>>
         /\ FanOuts!Of(w) \in begun /\ FanOuts!Of(w) \in FanOuts!Campaigns
         /\ FanOuts!GroupOf(w) \in Groups \cup {All}
         /\ (FanOuts!GroupOf(w) = All) <=> (at[w].step \in {"start", "sweep"})
         /\ at[w].step \in {"start", "sweep", "post", "pin", "cake"}
         /\ at[w].todo \subseteq Groups
<1>1. at[w] # FanOuts!Idle BY DEF FanOuts!Doing, FanOuts!Idle
<1>2. at[w] \in FanOuts!Stages BY <1>1 DEF FanInv, FanOuts!TypeOK
<1>3. /\ at[w].job \in FanOuts!Jobs /\ at[w].todo \subseteq Groups
      /\ at[w].step \in {"start", "sweep", "post", "pin", "cake"}
  BY <1>2 DEF FanOuts!Stages
<1>4. Sensible(at[w]) /\ at[w].step # "idle" BY DEF FanInv, FanOuts!Doing
<1>5. at[w].job = <<at[w].job[1], at[w].job[2]>> /\ at[w].job[1] \in FanOuts!Campaigns
      /\ at[w].job[2] \in Groups \cup {All}
  BY <1>3, FanTypes
<1> QED BY <1>2, <1>3, <1>4, <1>5 DEF Sensible, FanOuts!Of, FanOuts!GroupOf

\* An idle worker owes nothing.
LEMMA IdleOwesNothing == \A k, g : ~Owes(FanOuts!Idle, k, g)
BY DEF Owes, FanOuts!Idle

\* One worker turns to something else: the others owe what they owed.
LEMMA WorkerTurns ==
  ASSUME FanInv, Fans, NEW w \in Workers, NEW new \in {FanOuts!Idle} \cup FanOuts!Stages,
         at' = [at EXCEPT ![w] = new], NEW k, NEW g
  PROVE  /\ Cardinality(Owers(k, g)') \in Nat
         /\ Cardinality(Owers(k, g)') + Count(Owes(at[w], k, g))
              = Cardinality(Owers(k, g)) + Count(Owes(new, k, g))
<1> DEFINE before == Owers(k, g)  after == Owers(k, g)'
<1>1. IsFiniteSet(before) /\ Cardinality(before) \in Nat BY FanTypes
<1>2. \A x \in Workers : at'[x] = IF x = w THEN new ELSE at[x] BY DEF FanInv, FanOuts!TypeOK
<1>3. w \in before <=> Owes(at[w], k, g) BY DEF Owers
<1>4. \A x : x \in after <=> x \in Workers /\ Owes(at'[x], k, g) BY DEF Owers, Owes
<1>5. after = IF Owes(new, k, g) THEN before \cup {w} ELSE before \ {w}
  BY <1>2, <1>4 DEF Owers
<1> HIDE DEF before, after
<1>6. Cardinality(before \cup {w}) = IF w \in before THEN Cardinality(before) ELSE Cardinality(before) + 1
  BY <1>1, FS_AddElement
<1>7. Cardinality(before \ {w}) = IF w \in before THEN Cardinality(before) - 1 ELSE Cardinality(before)
  BY <1>1, FS_RemoveElement
<1>8. IsFiniteSet(after) BY <1>1, <1>5, FS_AddElement, FS_RemoveElement
<1>9. Cardinality(after) \in Nat BY <1>8, FS_CardinalityType
<1>10. Cardinality(after) + Count(Owes(at[w], k, g)) = Cardinality(before) + Count(Owes(new, k, g))
  BY <1>1, <1>3, <1>5, <1>6, <1>7 DEF Count
<1> QED BY <1>9, <1>10 DEF before, after

\* A job is put into the queue, or taken from it.
LEMMA JobPut ==
  ASSUME FanInv, Fans, NEW job \in FanOuts!Jobs, FanOuts!Put(job)
  PROVE  /\ queue' \in [FanOuts!Jobs -> Nat]
         /\ \A j \in FanOuts!Jobs : queue'[j] = queue[j] + Count(j = job)
         /\ \A k \in FanOuts!Campaigns, g \in Groups :
              Queued(k, g)' = Queued(k, g) + Count(job = <<k, g>> \/ job = <<k, All>>)
<1>1. queue \in [FanOuts!Jobs -> Nat] BY DEF FanInv, FanOuts!TypeOK
<1>2. queue' = [queue EXCEPT ![job] = queue[job] + 1] BY DEF FanOuts!Put
<1>3. queue' \in [FanOuts!Jobs -> Nat] BY <1>1, <1>2
<1>4. \A j \in FanOuts!Jobs : queue'[j] = queue[j] + Count(j = job) BY <1>1, <1>2 DEF Count
<1>5. ASSUME NEW k \in FanOuts!Campaigns, NEW g \in Groups
      PROVE  Queued(k, g)' = Queued(k, g) + Count(job = <<k, g>> \/ job = <<k, All>>)
  <2>1. <<k, g>> \in FanOuts!Jobs /\ <<k, All>> \in FanOuts!Jobs /\ <<k, g>> # <<k, All>> BY FanTypes
  <2>2. queue[<<k, g>>] \in Nat /\ queue[<<k, All>>] \in Nat BY <1>1, <2>1
  <2> QED BY <1>4, <2>1, <2>2 DEF Queued, Count
<1> QED BY <1>3, <1>4, <1>5

\* What is due moves with the worker and with the queue.
LEMMA DueMoves ==
  ASSUME FanInv, Fans, NEW w \in Workers, NEW new \in {FanOuts!Idle} \cup FanOuts!Stages,
         at' = [at EXCEPT ![w] = new], NEW k \in FanOuts!Campaigns, NEW g \in Groups,
         NEW more \in Int, Queued(k, g)' = Queued(k, g) + more, Queued(k, g)' \in Nat
  PROVE  /\ Due(k, g)' \in Nat
         /\ Due(k, g)' + Count(Owes(at[w], k, g)) = Due(k, g) + Count(Owes(new, k, g)) + more
<1>1. /\ Cardinality(Owers(k, g)') \in Nat
      /\ Cardinality(Owers(k, g)') + Count(Owes(at[w], k, g))
           = Cardinality(Owers(k, g)) + Count(Owes(new, k, g))
  BY WorkerTurns
<1>2. Queued(k, g) \in Nat /\ Cardinality(Owers(k, g)) \in Nat BY FanTypes
<1>3. Due(k, g)' = Queued(k, g)' + Cardinality(Owers(k, g)') BY DEF Due
<1>4. Due(k, g) = Queued(k, g) + Cardinality(Owers(k, g)) BY DEF Due
<1>5. Count(Owes(at[w], k, g)) \in Nat /\ Count(Owes(new, k, g)) \in Nat BY DEF Count
<1> QED BY <1>1, <1>2, <1>3, <1>4, <1>5

\* The word is kept where what is due is posted or excused, and grows by kills only.
LEMMA KeptStays ==
  ASSUME FanInv, Fans, NEW k \in FanOuts!Campaigns, NEW g \in Groups, begun' = begun,
         Due(k, g)' \in Nat, posts'[<<k, g>>] \in Nat, kills' \in Nat,
         k \notin begun => posts'[<<k, g>>] = posts[<<k, g>>] /\ Due(k, g)' = Due(k, g),
         posts'[<<k, g>>] + Due(k, g)' + kills <= posts[<<k, g>>] + Due(k, g) + kills',
         excused \subseteq excused',
         \/ <<k, g>> \in excused'
         \/ posts'[<<k, g>>] + Due(k, g)' >= posts[<<k, g>>] + Due(k, g)
  PROVE  KeptFor(k, g)'
<1>1. posts[<<k, g>>] \in Nat /\ kills \in Nat /\ Due(k, g) \in Nat BY FanTypes
<1>2. KeptFor(k, g) BY DEF FanInv
<1>3. k \notin begun' => posts'[<<k, g>>] = 0 /\ Due(k, g)' = 0 BY <1>2 DEF KeptFor
<1>4. posts'[<<k, g>>] + Due(k, g)' <= 1 + kills' BY <1>1, <1>2 DEF KeptFor
<1>5. k \in begun' \ Manual =>
        (Due(k, g)' > 0 \/ posts'[<<k, g>>] > 0 \/ <<k, g>> \in excused')
  BY <1>1, <1>2 DEF KeptFor
<1> QED BY <1>3, <1>4, <1>5 DEF KeptFor

\* A step of one worker.
LEMMA WorkerStep ==
  ASSUME FanInv, Fans, NEW w \in Workers, NEW new \in {FanOuts!Idle} \cup FanOuts!Stages,
         at' = [at EXCEPT ![w] = new], Sensible(new), begun' = begun,
         queue' \in [FanOuts!Jobs -> Nat],
         \A j \in FanOuts!Jobs : queue'[j] > 0 => j[1] \in begun,
         posts' \in [FanOuts!Campaigns \X Groups -> Nat], pinned' \subseteq Groups,
         excused' \subseteq FanOuts!Campaigns \X Groups, kills' \in 0..MaxKills,
         \A k \in FanOuts!Campaigns, g \in Groups : KeptFor(k, g)'
  PROVE  FanInv'
<1>1. at \in [Workers -> {FanOuts!Idle} \cup FanOuts!Stages] BY DEF FanInv, FanOuts!TypeOK
<1>2. \A x \in Workers : at'[x] = IF x = w THEN new ELSE at[x] BY <1>1
<1>3. at' \in [Workers -> {FanOuts!Idle} \cup FanOuts!Stages] BY <1>1
<1>4. FanOuts!TypeOK' BY <1>3 DEF FanInv, FanOuts!TypeOK
<1>5. \A x \in Workers : Sensible(at'[x]) BY <1>2 DEF FanInv
<1>6. \A x \in Workers : Sensible(at[x])' BY <1>5 DEF Sensible
<1> QED BY <1>4, <1>6 DEF FanInv

LEMMA FanInvInit == ASSUME Fans PROVE FanOuts!Init => FanInv
<1> SUFFICES ASSUME FanOuts!Init PROVE FanInv OBVIOUS
<1>1. MaxKills \in Nat BY DEF Fans, FanOuts!FanOutAssumption
<1>2. FanOuts!TypeOK BY <1>1 DEF FanOuts!Init, FanOuts!TypeOK
<1>3. \A w \in Workers : at[w].step = "idle" BY DEF FanOuts!Init, FanOuts!Idle
<1>4. ASSUME NEW k \in FanOuts!Campaigns, NEW g \in Groups PROVE KeptFor(k, g)
  <2>1. \A w \in Workers : ~Owes(at[w], k, g) BY <1>3 DEF Owes
  <2>2. Owers(k, g) = {} BY <2>1 DEF Owers
  <2>3. Cardinality(Owers(k, g)) = 0 BY <2>2, FS_EmptySet
  <2>4. queue[<<k, g>>] = 0 /\ queue[<<k, All>>] = 0 BY DEF FanOuts!Init, FanOuts!Jobs
  <2>5. posts[<<k, g>>] = 0 /\ kills = 0 /\ begun = {} BY DEF FanOuts!Init
  <2> QED BY <2>3, <2>4, <2>5 DEF KeptFor, Due, Queued
<1>5. \A j \in FanOuts!Jobs : queue[j] = 0 BY DEF FanOuts!Init
<1> QED BY <1>2, <1>3, <1>4, <1>5 DEF FanInv, Sensible

LEMMA BeginKept ==
  ASSUME FanInv, Fans, NEW k0 \in FanOuts!Campaigns, FanOuts!Begin(k0) PROVE FanInv'
<1> DEFINE job == <<k0, IF k0 \in Manual THEN ManualIn[k0] ELSE All>>
<1>1. /\ k0 \notin begun /\ begun' = begun \cup {k0} /\ FanOuts!Put(job)
      /\ UNCHANGED <<at, pinned, posts, excused, kills>>
  BY DEF FanOuts!Begin
<1>2. job \in FanOuts!Jobs /\ (k0 \notin Manual => job = <<k0, All>>) /\ job[1] = k0
  BY DEF Fans, FanOuts!FanOutAssumption, FanOuts!Jobs
<1> HIDE DEF job
<1>3. /\ queue' \in [FanOuts!Jobs -> Nat]
      /\ \A j \in FanOuts!Jobs : queue'[j] = queue[j] + Count(j = job)
      /\ \A k \in FanOuts!Campaigns, g \in Groups :
           Queued(k, g)' = Queued(k, g) + Count(job = <<k, g>> \/ job = <<k, All>>)
  BY <1>1, <1>2, JobPut
<1>4. FanOuts!TypeOK' BY <1>1, <1>3 DEF FanInv, FanOuts!TypeOK
<1>5. \A w \in Workers : Sensible(at[w])' BY <1>1 DEF FanInv, Sensible
<1>6. \A j \in FanOuts!Jobs : queue'[j] > 0 => j[1] \in begun'
  BY <1>1, <1>2, <1>3, FanTypes DEF FanInv, Count
<1>7. ASSUME NEW k \in FanOuts!Campaigns, NEW g \in Groups PROVE KeptFor(k, g)'
  <2>1. KeptFor(k, g) BY DEF FanInv
  <2>2. /\ Queued(k, g) \in Nat /\ Cardinality(Owers(k, g)) \in Nat /\ posts[<<k, g>>] \in Nat
        /\ kills \in Nat
    BY FanTypes
  <2>3. Owers(k, g)' = Owers(k, g) BY <1>1 DEF Owers, Owes
  <2>4. Due(k, g)' = Due(k, g) + Count(job = <<k, g>> \/ job = <<k, All>>)
    <3>1. Queued(k, g)' = Queued(k, g) + Count(job = <<k, g>> \/ job = <<k, All>>) BY <1>3
    <3>2. Due(k, g)' = Queued(k, g)' + Cardinality(Owers(k, g)) BY <2>3 DEF Due
    <3>3. Count(job = <<k, g>> \/ job = <<k, All>>) \in Nat BY DEF Count
    <3> QED BY <2>2, <3>1, <3>2, <3>3 DEF Due
  <2>5. Due(k, g) \in Nat BY FanTypes
  <2>6. CASE k = k0
    <3>1. posts[<<k, g>>] = 0 /\ Due(k, g) = 0 BY <1>1, <2>1, <2>6 DEF KeptFor
    <3>2. Due(k, g)' <= 1 /\ Due(k, g)' \in Nat BY <2>4, <3>1 DEF Count
    <3>3. k \notin Manual => Due(k, g)' > 0 BY <1>2, <2>4, <2>6, <3>1 DEF Count
    <3> QED BY <1>1, <2>2, <2>6, <3>1, <3>2, <3>3 DEF KeptFor
  <2>7. CASE k # k0
    <3>1. Due(k, g)' = Due(k, g) BY <1>2, <2>4, <2>5, <2>7 DEF Count
    <3>2. k \in begun' <=> k \in begun BY <1>1, <2>7
    <3> QED BY <1>1, <2>1, <2>2, <2>5, <3>1, <3>2 DEF KeptFor
  <2> QED BY <2>6, <2>7
<1> QED BY <1>4, <1>5, <1>6, <1>7 DEF FanInv

\* A worker takes a job: what was due in the queue is due from it.
LEMMA DequeueKept ==
  ASSUME FanInv, Fans, NEW w \in Workers, NEW job \in FanOuts!Jobs, FanOuts!Dequeue(w, job)
  PROVE  FanInv'
<1> DEFINE new == [job |-> job, todo |-> {}, step |-> IF job[2] = All THEN "start" ELSE "post"]
<1>1. /\ FanOuts!Doing(w, "idle") /\ queue[job] > 0 /\ queue' = [queue EXCEPT ![job] = queue[job] - 1]
      /\ at' = [at EXCEPT ![w] = new] /\ UNCHANGED <<begun, pinned, posts, excused, kills>>
  BY DEF FanOuts!Dequeue
<1>2. new \in FanOuts!Stages BY DEF FanOuts!Stages
<1>3. /\ job[1] \in begun /\ job = <<job[1], job[2]>> /\ queue[job] \in Nat
      /\ All \notin Groups
  BY <1>1, FanTypes DEF FanInv
<1>4. Sensible(new) BY <1>3 DEF Sensible
<1>5. at[w] = FanOuts!Idle
  BY <1>1 DEF FanInv, FanOuts!TypeOK, FanOuts!Doing, FanOuts!Stages
<1>6. \A k, g : ~Owes(at[w], k, g) BY <1>5, IdleOwesNothing
<1>7. \A k, g : g \in Groups => (Owes(new, k, g) <=> (job = <<k, g>> \/ job = <<k, All>>))
  BY <1>3 DEF Owes
<1> HIDE DEF new
<1>8. queue \in [FanOuts!Jobs -> Nat] BY DEF FanInv, FanOuts!TypeOK
<1>9. queue' \in [FanOuts!Jobs -> Nat] BY <1>1, <1>8
<1>10. \A j \in FanOuts!Jobs : queue'[j] = queue[j] - Count(j = job) BY <1>1, <1>8 DEF Count
<1>11. ASSUME NEW k \in FanOuts!Campaigns, NEW g \in Groups PROVE KeptFor(k, g)'
  <2> DEFINE less == Count(job = <<k, g>> \/ job = <<k, All>>)
  <2>1. <<k, g>> \in FanOuts!Jobs /\ <<k, All>> \in FanOuts!Jobs /\ <<k, g>> # <<k, All>> BY FanTypes
  <2>2. /\ queue'[<<k, g>>] \in Nat /\ queue'[<<k, All>>] \in Nat
        /\ queue[<<k, g>>] \in Nat /\ queue[<<k, All>>] \in Nat
    BY <1>8, <1>9, <2>1
  <2>3. Queued(k, g)' = Queued(k, g) + (0 - less) BY <1>10, <2>1, <2>2 DEF Queued, Count
  <2>4. Queued(k, g)' \in Nat BY <2>2 DEF Queued
  <2>5. 0 - less \in Int /\ less \in Nat BY DEF Count
  <2>6. Count(Owes(new, k, g)) = less BY <1>7 DEF Count
  <2>7. Count(Owes(at[w], k, g)) = 0 BY <1>6 DEF Count
  <2> HIDE DEF less
  <2>8. /\ Due(k, g)' \in Nat
        /\ Due(k, g)' + Count(Owes(at[w], k, g)) = Due(k, g) + Count(Owes(new, k, g)) + (0 - less)
    BY <1>1, <1>2, <2>3, <2>4, <2>5, DueMoves
  <2>9. Due(k, g) \in Nat /\ posts[<<k, g>>] \in Nat /\ kills \in Nat BY FanTypes
  <2>10. Due(k, g)' = Due(k, g) BY <2>5, <2>6, <2>7, <2>8, <2>9
  <2> QED BY <1>1, <2>8, <2>9, <2>10, KeptStays
<1>12. \A j \in FanOuts!Jobs : queue'[j] > 0 => j[1] \in begun
  BY <1>8, <1>10 DEF FanInv, Count
<1> QED BY <1>1, <1>2, <1>4, <1>9, <1>11, <1>12, WorkerStep DEF FanInv, FanOuts!TypeOK

\* The steps of a worker that leave the queue alone: it posts, or it goes on to a
\* record with which it owes no more than before, and only what is excused less.
LEMMA TurnKept ==
  ASSUME FanInv, Fans, NEW w \in Workers, ~FanOuts!Doing(w, "idle"),
         NEW new \in {FanOuts!Idle} \cup FanOuts!Stages, at' = [at EXCEPT ![w] = new],
         Sensible(new), UNCHANGED <<begun, queue, posts, kills>>, pinned' \subseteq Groups,
         excused \subseteq excused', excused' \subseteq FanOuts!Campaigns \X Groups,
         \A k, g : Owes(new, k, g) => Owes(at[w], k, g),
         \A k, g : Owes(at[w], k, g) /\ g \in Groups => (Owes(new, k, g) \/ <<k, g>> \in excused')
  PROVE  FanInv'
<1>1. ASSUME NEW k \in FanOuts!Campaigns, NEW g \in Groups PROVE KeptFor(k, g)'
  <2>1. Queued(k, g)' = Queued(k, g) + 0 /\ Queued(k, g)' \in Nat
    <3>1. Queued(k, g)' = Queued(k, g) BY DEF Queued
    <3> QED BY <3>1, FanTypes
  <2>2. 0 \in Int OBVIOUS
  <2>3. /\ Due(k, g)' \in Nat
        /\ Due(k, g)' + Count(Owes(at[w], k, g)) = Due(k, g) + Count(Owes(new, k, g)) + 0
    BY <2>1, <2>2, DueMoves
  <2>4. Due(k, g) \in Nat /\ posts[<<k, g>>] \in Nat /\ kills \in Nat BY FanTypes
  <2>5. FanOuts!Of(w) \in begun /\ at[w].job = <<FanOuts!Of(w), FanOuts!GroupOf(w)>> BY AtAJob
  <2>6. k \notin begun => ~Owes(at[w], k, g) BY <2>5 DEF Owes
  <2>7. k \notin begun => Due(k, g)' = Due(k, g) BY <2>3, <2>4, <2>6 DEF Count
  <2>8. Due(k, g)' <= Due(k, g) BY <2>3, <2>4 DEF Count
  <2>9. Due(k, g)' = Due(k, g) \/ <<k, g>> \in excused' BY <2>3, <2>4 DEF Count
  <2>10. begun' = begun /\ posts'[<<k, g>>] = posts[<<k, g>>] /\ kills' = kills OBVIOUS
  <2>11. posts'[<<k, g>>] + Due(k, g)' + kills <= posts[<<k, g>>] + Due(k, g) + kills'
    BY <2>3, <2>4, <2>8, <2>10
  <2>12. \/ <<k, g>> \in excused'
         \/ posts'[<<k, g>>] + Due(k, g)' >= posts[<<k, g>>] + Due(k, g)
    BY <2>3, <2>4, <2>9, <2>10
  <2> QED BY <2>3, <2>4, <2>7, <2>10, <2>11, <2>12, KeptStays
<1> QED BY <1>1, WorkerStep DEF FanInv, FanOuts!TypeOK

LEMMA PostKept == ASSUME FanInv, Fans, NEW w \in Workers, FanOuts!Post(w) PROVE FanInv'
<1>1. /\ at[w].step = "post" /\ posts' = [posts EXCEPT ![at[w].job] = posts[at[w].job] + 1]
      /\ UNCHANGED <<begun, queue, pinned, excused, kills>>
  BY DEF FanOuts!Post, FanOuts!Doing
<1>2. ~FanOuts!Doing(w, "idle") BY <1>1 DEF FanOuts!Doing
<1> DEFINE k0 == FanOuts!Of(w)  g0 == FanOuts!GroupOf(w)
<1>3. /\ at[w] \in FanOuts!Stages /\ at[w].job = <<k0, g0>> /\ k0 \in begun
      /\ k0 \in FanOuts!Campaigns /\ g0 \in Groups
  BY <1>1, <1>2, AtAJob
<1>4. All \notin Groups BY FanTypes
<1>5. PICK new \in {FanOuts!Idle} \cup FanOuts!Stages :
        /\ at' = [at EXCEPT ![w] = new] /\ Sensible(new) /\ \A k, g : ~Owes(new, k, g)
  <2>1. CASE at' = [at EXCEPT ![w] = FanOuts!Idle]
    BY <2>1, IdleOwesNothing DEF Sensible, FanOuts!Idle
  <2>2. CASE at' = [at EXCEPT ![w].step = "pin"]
    <3> DEFINE new == [at[w] EXCEPT !.step = "pin"]
    <3>1. new = [job |-> at[w].job, todo |-> at[w].todo, step |-> "pin"] BY <1>3 DEF FanOuts!Stages
    <3>2. new \in FanOuts!Stages BY <1>3, <3>1 DEF FanOuts!Stages
    <3>3. Sensible(new) BY <1>3, <1>4, <3>1 DEF Sensible
    <3>4. \A k, g : ~Owes(new, k, g) BY <3>1 DEF Owes
    <3>5. at' = [at EXCEPT ![w] = new] BY <2>2
    <3> QED BY <3>2, <3>3, <3>4, <3>5
  <2> QED BY <2>1, <2>2 DEF FanOuts!Post, FanOuts!Over, FanOuts!Goto
<1>6. \A k, g : g \in Groups => (Owes(at[w], k, g) <=> (k = k0 /\ g = g0))
  BY <1>1, <1>3, <1>4 DEF Owes
<1> HIDE DEF k0, g0
<1>7. posts \in [FanOuts!Campaigns \X Groups -> Nat] BY DEF FanInv, FanOuts!TypeOK
<1>8. posts' = [posts EXCEPT ![<<k0, g0>>] = posts[<<k0, g0>>] + 1] BY <1>1, <1>3
<1>9. posts' \in [FanOuts!Campaigns \X Groups -> Nat] BY <1>3, <1>7, <1>8
<1>10. ASSUME NEW k \in FanOuts!Campaigns, NEW g \in Groups PROVE KeptFor(k, g)'
  <2>1. Queued(k, g)' = Queued(k, g) + 0 /\ Queued(k, g)' \in Nat
    <3>1. Queued(k, g)' = Queued(k, g) BY <1>1 DEF Queued
    <3> QED BY <3>1, FanTypes
  <2>2. 0 \in Int OBVIOUS
  <2>3. /\ Due(k, g)' \in Nat
        /\ Due(k, g)' + Count(Owes(at[w], k, g)) = Due(k, g) + Count(Owes(new, k, g)) + 0
    BY <1>5, <2>1, <2>2, DueMoves
  <2>4. Due(k, g) \in Nat /\ posts[<<k, g>>] \in Nat /\ kills \in Nat BY FanTypes
  <2>5. posts'[<<k, g>>] = posts[<<k, g>>] + Count(k = k0 /\ g = g0)
    BY <1>3, <1>7, <1>8, <2>4 DEF Count
  <2>6. Due(k, g)' + Count(k = k0 /\ g = g0) = Due(k, g) BY <1>5, <1>6, <2>3, <2>4 DEF Count
  <2>7. k \notin begun => posts'[<<k, g>>] = posts[<<k, g>>] /\ Due(k, g)' = Due(k, g)
    BY <1>3, <2>3, <2>4, <2>5, <2>6 DEF Count
  <2>8. Count(k = k0 /\ g = g0) \in Nat BY DEF Count
  <2>9. posts'[<<k, g>>] + Due(k, g)' = posts[<<k, g>>] + Due(k, g)
    BY <2>3, <2>4, <2>5, <2>6, <2>8
  <2>10. posts'[<<k, g>>] \in Nat BY <2>4, <2>5, <2>8
  <2>11. begun' = begun /\ kills' = kills /\ excused \subseteq excused' BY <1>1
  <2>12. posts'[<<k, g>>] + Due(k, g)' + kills <= posts[<<k, g>>] + Due(k, g) + kills'
    BY <2>3, <2>4, <2>9, <2>10, <2>11
  <2>13. posts'[<<k, g>>] + Due(k, g)' >= posts[<<k, g>>] + Due(k, g) BY <2>3, <2>4, <2>9, <2>10
  <2> QED BY <2>3, <2>4, <2>7, <2>10, <2>11, <2>12, <2>13, KeptStays
<1>11. \A j \in FanOuts!Jobs : queue'[j] > 0 => j[1] \in begun BY <1>1 DEF FanInv
<1> QED BY <1>1, <1>5, <1>9, <1>10, <1>11, WorkerStep DEF FanInv, FanOuts!TypeOK

\* The steps that put a job into the queue: what the worker owed the group is due
\* from the queue, or the job was the killed worker's own.
LEMMA PutKept ==
  ASSUME FanInv, Fans, NEW w \in Workers, ~FanOuts!Doing(w, "idle"),
         NEW new \in {FanOuts!Idle} \cup FanOuts!Stages, at' = [at EXCEPT ![w] = new],
         Sensible(new), NEW job \in FanOuts!Jobs, job[1] = FanOuts!Of(w), FanOuts!Put(job),
         UNCHANGED <<begun, pinned, posts, excused>>, kills' \in 0..MaxKills, kills' >= kills,
         \A k, g : g \in Groups /\ Owes(at[w], k, g)
                     => (Owes(new, k, g) \/ job = <<k, g>> \/ job = <<k, All>>),
         \/ kills' = kills + 1 /\ new = FanOuts!Idle
         \/ /\ kills' = kills
            /\ \A k, g : g \in Groups =>
                 /\ Owes(new, k, g) => Owes(at[w], k, g)
                 /\ job = <<k, g>> \/ job = <<k, All>> => Owes(at[w], k, g) /\ ~Owes(new, k, g)
  PROVE  FanInv'
<1>1. /\ queue' \in [FanOuts!Jobs -> Nat]
      /\ \A j \in FanOuts!Jobs : queue'[j] = queue[j] + Count(j = job)
      /\ \A k \in FanOuts!Campaigns, g \in Groups :
           Queued(k, g)' = Queued(k, g) + Count(job = <<k, g>> \/ job = <<k, All>>)
  BY JobPut
<1>2. FanOuts!Of(w) \in begun /\ at[w].job = <<FanOuts!Of(w), FanOuts!GroupOf(w)>> BY AtAJob
<1>3. ASSUME NEW k \in FanOuts!Campaigns, NEW g \in Groups PROVE KeptFor(k, g)'
  <2> DEFINE more == Count(job = <<k, g>> \/ job = <<k, All>>)
             old == Count(Owes(at[w], k, g))
             now0 == Count(Owes(new, k, g))
  <2>1. more \in {0, 1} /\ old \in {0, 1} /\ now0 \in {0, 1} BY DEF Count
  <2>2. Queued(k, g)' = Queued(k, g) + more /\ Queued(k, g)' \in Nat
    <3>1. Queued(k, g)' = Queued(k, g) + more BY <1>1
    <3> QED BY <2>1, <3>1, FanTypes
  <2>3. old <= now0 + more BY DEF Count
  <2>4. (kills' = kills + 1 /\ now0 = 0) \/ (kills' = kills /\ now0 + more <= old)
    <3>1. CASE kills' = kills + 1 /\ new = FanOuts!Idle
      <4>1. ~Owes(new, k, g) BY <3>1, IdleOwesNothing
      <4> QED BY <3>1, <4>1 DEF Count
    <3>2. CASE /\ kills' = kills
               /\ Owes(new, k, g) => Owes(at[w], k, g)
               /\ job = <<k, g>> \/ job = <<k, All>> => Owes(at[w], k, g) /\ ~Owes(new, k, g)
      BY <3>2 DEF Count
    <3> QED BY <3>1, <3>2
  <2>5. k \notin begun => more = 0 /\ old = 0
    BY <1>2 DEF Owes, Count
  <2>6. k \notin begun => now0 = 0
    BY <2>4, <2>5, <2>1
  <2> HIDE DEF more
  <2>7. Due(k, g)' \in Nat /\ Due(k, g)' + old = Due(k, g) + now0 + more
    <3>1. more \in Int BY <2>1
    <3> QED BY <2>2, <3>1, DueMoves
  <2> HIDE DEF old, now0
  <2>8. /\ Due(k, g) \in Nat /\ posts[<<k, g>>] \in Nat /\ kills \in Nat /\ kills' \in Nat
        /\ begun' = begun /\ posts'[<<k, g>>] = posts[<<k, g>>] /\ excused \subseteq excused'
    <3>1. kills' \in Nat BY FanTypes
    <3>2. Due(k, g) \in Nat /\ posts[<<k, g>>] \in Nat /\ kills \in Nat BY FanTypes
    <3> QED BY <3>1, <3>2
  <2>9. k \notin begun => Due(k, g)' = Due(k, g) BY <2>1, <2>5, <2>6, <2>7, <2>8
  <2>10. posts'[<<k, g>>] + Due(k, g)' + kills <= posts[<<k, g>>] + Due(k, g) + kills'
    BY <2>1, <2>3, <2>4, <2>7, <2>8
  <2>11. posts'[<<k, g>>] + Due(k, g)' >= posts[<<k, g>>] + Due(k, g) BY <2>1, <2>3, <2>7, <2>8
  <2> QED BY <2>7, <2>8, <2>9, <2>10, <2>11, KeptStays
<1>4. \A j \in FanOuts!Jobs : queue'[j] > 0 => j[1] \in begun
  BY <1>1, <1>2, FanTypes DEF FanInv, Count
<1> QED BY <1>1, <1>3, <1>4, WorkerStep DEF FanInv, FanOuts!TypeOK

LEMMA FanInvNext == ASSUME Fans PROVE FanInv /\ [FanOuts!Next]_FanOuts!vars => FanInv'
<1> SUFFICES ASSUME FanInv, [FanOuts!Next]_FanOuts!vars PROVE FanInv' OBVIOUS
<1>t. All \notin Groups BY FanTypes
<1>e. excused \subseteq FanOuts!Campaigns \X Groups /\ pinned \subseteq Groups /\ kills \in 0..MaxKills
  BY DEF FanInv, FanOuts!TypeOK
<1>i. Sensible(FanOuts!Idle) /\ \A k, g : ~Owes(FanOuts!Idle, k, g)
  BY IdleOwesNothing DEF Sensible, FanOuts!Idle
\* What a worker that sweeps owes, and the record it goes on to.
<1>s. ASSUME NEW w \in Workers, FanOuts!Doing(w, "sweep"), NEW rest \in SUBSET at[w].todo
      PROVE  \E new \in FanOuts!Stages :
               /\ [at EXCEPT ![w].todo = rest] = [at EXCEPT ![w] = new] /\ Sensible(new)
               /\ FanOuts!GroupOf(w) = All /\ ~FanOuts!Doing(w, "idle")
               /\ \A k, g : g \in Groups =>
                    (Owes(new, k, g) <=> (k = FanOuts!Of(w) /\ g \in rest))
               /\ \A k, g : Owes(new, k, g) => Owes(at[w], k, g)
               /\ \A k, g : g \in Groups =>
                    (Owes(at[w], k, g) <=> (k = FanOuts!Of(w) /\ g \in at[w].todo))
  <2> DEFINE new == [at[w] EXCEPT !.todo = rest]
  <2>1. ~FanOuts!Doing(w, "idle") /\ at[w].step = "sweep" BY <1>s DEF FanOuts!Doing
  <2>2. /\ at[w] \in FanOuts!Stages /\ at[w].job = <<FanOuts!Of(w), All>>
        /\ FanOuts!GroupOf(w) = All /\ FanOuts!Of(w) \in begun /\ at[w].todo \subseteq Groups
    BY <2>1, AtAJob
  <2>3. new = [job |-> at[w].job, todo |-> rest, step |-> at[w].step] BY <2>2 DEF FanOuts!Stages
  <2>4. new \in FanOuts!Stages BY <1>s, <2>2, <2>3 DEF FanOuts!Stages
  <2>5. Sensible(new) BY <2>1, <2>2, <2>3 DEF Sensible
  <2>6. [at EXCEPT ![w].todo = rest] = [at EXCEPT ![w] = new] OBVIOUS
  <2> HIDE DEF new
  <2>7. \A k, g : g \in Groups => (Owes(new, k, g) <=> (k = FanOuts!Of(w) /\ g \in rest))
    BY <1>t, <2>1, <2>2, <2>3 DEF Owes
  <2>8. \A k, g : g \in Groups =>
          (Owes(at[w], k, g) <=> (k = FanOuts!Of(w) /\ g \in at[w].todo))
    BY <1>t, <2>1, <2>2 DEF Owes
  <2>9. \A k, g : Owes(new, k, g) => Owes(at[w], k, g) BY <1>s, <2>1, <2>3 DEF Owes
  <2> QED BY <2>1, <2>2, <2>4, <2>5, <2>6, <2>7, <2>8, <2>9
\* A group is left out, with a word in the log.
<1>1. ASSUME NEW w \in Workers, NEW g \in Groups,
             FanOuts!Skip(w, g) \/ FanOuts!EnqueueFails(w, g)
      PROVE  FanInv'
  <2>1. /\ FanOuts!Doing(w, "sweep") /\ g \in at[w].todo
        /\ at' = [at EXCEPT ![w].todo = at[w].todo \ {g}]
        /\ excused' = excused \cup {<<FanOuts!Of(w), g>>}
        /\ UNCHANGED <<begun, queue, pinned, posts, kills>>
    BY <1>1 DEF FanOuts!Skip, FanOuts!EnqueueFails
  <2> DEFINE rest == at[w].todo \ {g}
  <2>2. rest \in SUBSET at[w].todo OBVIOUS
  <2>3. PICK new \in FanOuts!Stages :
          /\ [at EXCEPT ![w].todo = rest] = [at EXCEPT ![w] = new] /\ Sensible(new)
          /\ ~FanOuts!Doing(w, "idle")
          /\ \A k, h : h \in Groups => (Owes(new, k, h) <=> (k = FanOuts!Of(w) /\ h \in rest))
          /\ \A k, h : Owes(new, k, h) => Owes(at[w], k, h)
          /\ \A k, h : h \in Groups =>
               (Owes(at[w], k, h) <=> (k = FanOuts!Of(w) /\ h \in at[w].todo))
    BY <1>s, <2>1, <2>2
  <2>4. FanOuts!Of(w) \in FanOuts!Campaigns BY <2>3, AtAJob
  <2>5. excused \subseteq excused' /\ excused' \subseteq FanOuts!Campaigns \X Groups
    BY <1>e, <2>1, <2>4
  <2>6. \A k, h : Owes(at[w], k, h) /\ h \in Groups => (Owes(new, k, h) \/ <<k, h>> \in excused')
    BY <2>1, <2>3
  <2>7. at' = [at EXCEPT ![w] = new] BY <2>1, <2>3
  <2> QED BY <1>e, <2>1, <2>3, <2>5, <2>6, <2>7, TurnKept
<1>2. ASSUME NEW w \in Workers, NEW g \in Groups, FanOuts!Enqueue(w, g) PROVE FanInv'
  <2> DEFINE rest == at[w].todo \ {g}  job == <<FanOuts!Of(w), g>>
  <2>1. /\ FanOuts!Doing(w, "sweep") /\ g \in at[w].todo
        /\ at' = [at EXCEPT ![w].todo = rest] /\ FanOuts!Put(job)
        /\ UNCHANGED <<begun, pinned, posts, excused, kills>>
    BY <1>2 DEF FanOuts!Enqueue
  <2>2. rest \in SUBSET at[w].todo OBVIOUS
  <2>3. PICK new \in FanOuts!Stages :
          /\ [at EXCEPT ![w].todo = rest] = [at EXCEPT ![w] = new] /\ Sensible(new)
          /\ ~FanOuts!Doing(w, "idle")
          /\ \A k, h : h \in Groups => (Owes(new, k, h) <=> (k = FanOuts!Of(w) /\ h \in rest))
          /\ \A k, h : Owes(new, k, h) => Owes(at[w], k, h)
          /\ \A k, h : h \in Groups =>
               (Owes(at[w], k, h) <=> (k = FanOuts!Of(w) /\ h \in at[w].todo))
    BY <1>s, <2>1, <2>2
  <2>4. FanOuts!Of(w) \in FanOuts!Campaigns BY <2>3, AtAJob
  <2>5. job \in FanOuts!Jobs /\ job[1] = FanOuts!Of(w) BY <2>4 DEF FanOuts!Jobs
  <2>6. \A k, h : h \in Groups =>
          ((job = <<k, h>> \/ job = <<k, All>>) <=> (k = FanOuts!Of(w) /\ h = g))
    BY <1>t
  <2> HIDE DEF job
  <2>7. \A k, h : h \in Groups /\ Owes(at[w], k, h)
                    => (Owes(new, k, h) \/ job = <<k, h>> \/ job = <<k, All>>)
    BY <2>3, <2>6
  <2>8. \A k, h : h \in Groups =>
          /\ Owes(new, k, h) => Owes(at[w], k, h)
          /\ job = <<k, h>> \/ job = <<k, All>> => Owes(at[w], k, h) /\ ~Owes(new, k, h)
    BY <2>1, <2>3, <2>6
  <2>9. kills' \in 0..MaxKills /\ kills' >= kills /\ kills' = kills BY <1>e, <2>1, FanTypes
  <2>10. at' = [at EXCEPT ![w] = new] BY <2>1, <2>3
  <2> QED BY <2>1, <2>3, <2>5, <2>7, <2>8, <2>9, <2>10, PutKept
<1>3. ASSUME NEW w \in Workers, FanOuts!ReadGroups(w) PROVE FanInv'
  <2>1. /\ FanOuts!Doing(w, "start") /\ ~FanOuts!Doing(w, "idle")
        /\ UNCHANGED <<begun, queue, pinned, posts, excused, kills>>
    BY <1>3 DEF FanOuts!ReadGroups, FanOuts!Doing
  <2>2. /\ at[w] \in FanOuts!Stages /\ at[w].job = <<FanOuts!Of(w), All>> /\ at[w].step = "start"
        /\ FanOuts!Of(w) \in begun
    BY <2>1, AtAJob DEF FanOuts!Doing
  <2> DEFINE first == [at[w] EXCEPT !.todo = Groups]
             new == [first EXCEPT !.step = "sweep"]
  <2>3. first = [job |-> at[w].job, todo |-> Groups, step |-> at[w].step] BY <2>2 DEF FanOuts!Stages
  <2>4. new = [job |-> at[w].job, todo |-> Groups, step |-> "sweep"]
    <3>1. first.job = at[w].job /\ first.todo = Groups BY <2>3
    <3>2. first \in FanOuts!Stages BY <2>2, <2>3 DEF FanOuts!Stages
    <3> HIDE DEF first
    <3>3. new = [job |-> first.job, todo |-> first.todo, step |-> "sweep"]
      BY <3>2 DEF FanOuts!Stages
    <3> QED BY <3>1, <3>3
  <2>5. new = [at[w] EXCEPT !.todo = Groups, !.step = "sweep"] BY <2>2 DEF FanOuts!Stages
  <2>6. at' = [at EXCEPT ![w] = new] BY <1>3, <2>5 DEF FanOuts!ReadGroups
  <2>7. new \in FanOuts!Stages BY <2>2, <2>4 DEF FanOuts!Stages
  <2>8. Sensible(new) BY <2>2, <2>4 DEF Sensible
  <2> HIDE DEF new
  <2>9. \A k, g : Owes(new, k, g) => Owes(at[w], k, g) BY <2>2, <2>4 DEF Owes
  <2>10. \A k, g : Owes(at[w], k, g) /\ g \in Groups => Owes(new, k, g) BY <2>2, <2>4 DEF Owes
  <2> QED BY <1>e, <2>1, <2>6, <2>7, <2>8, <2>9, <2>10, TurnKept
\* The steps after which a worker owes nothing, and owed nothing before.
<1>4. ASSUME NEW w \in Workers, FanOuts!SweepDone(w) \/ FanOuts!Cake(w) PROVE FanInv'
  <2>1. /\ ~FanOuts!Doing(w, "idle") /\ at' = [at EXCEPT ![w] = FanOuts!Idle]
        /\ UNCHANGED <<begun, queue, pinned, posts, excused, kills>>
        /\ (at[w].step = "sweep" /\ at[w].todo = {}) \/ at[w].step = "cake"
    BY <1>4 DEF FanOuts!SweepDone, FanOuts!Cake, FanOuts!Over, FanOuts!Doing
  <2>2. \A k, g : ~Owes(at[w], k, g) BY <2>1 DEF Owes
  <2>3. FanOuts!Idle \in {FanOuts!Idle} \cup FanOuts!Stages OBVIOUS
  <2> QED BY <1>e, <1>i, <2>1, <2>2, <2>3, TurnKept
<1>5. ASSUME NEW w \in Workers, FanOuts!Pin(w) PROVE FanInv'
  <2>1. /\ FanOuts!Doing(w, "pin") /\ ~FanOuts!Doing(w, "idle")
        /\ at' = [at EXCEPT ![w].step = "cake"]
        /\ UNCHANGED <<begun, queue, posts, excused, kills>>
        /\ pinned' \in {pinned, pinned \cup {FanOuts!GroupOf(w)}}
    BY <1>5 DEF FanOuts!Pin, FanOuts!Goto, FanOuts!Doing
  <2>2. /\ at[w] \in FanOuts!Stages /\ at[w].job = <<FanOuts!Of(w), FanOuts!GroupOf(w)>>
        /\ at[w].step = "pin" /\ FanOuts!Of(w) \in begun /\ FanOuts!GroupOf(w) \in Groups
    BY <2>1, AtAJob DEF FanOuts!Doing
  <2> DEFINE new == [at[w] EXCEPT !.step = "cake"]
  <2>3. new = [job |-> at[w].job, todo |-> at[w].todo, step |-> "cake"] BY <2>2 DEF FanOuts!Stages
  <2>4. new \in FanOuts!Stages BY <2>2, <2>3 DEF FanOuts!Stages
  <2>5. Sensible(new) BY <1>t, <2>2, <2>3 DEF Sensible
  <2>6. at' = [at EXCEPT ![w] = new] BY <2>1
  <2> HIDE DEF new
  <2>7. \A k, g : ~Owes(new, k, g) /\ ~Owes(at[w], k, g) BY <2>2, <2>3 DEF Owes
  <2> QED BY <1>e, <2>1, <2>2, <2>4, <2>5, <2>6, <2>7, TurnKept
<1>6. ASSUME NEW w \in Workers, FanOuts!Raises(w) PROVE FanInv'
  <2> DEFINE lost == IF FanOuts!GroupOf(w) = All
                     THEN IF FanOuts!Doing(w, "start") THEN Groups ELSE at[w].todo
                     ELSE {FanOuts!GroupOf(w)}
  <2>1. /\ ~FanOuts!Doing(w, "idle") /\ at' = [at EXCEPT ![w] = FanOuts!Idle]
        /\ excused' = excused \cup {<<FanOuts!Of(w), g>> : g \in lost}
        /\ UNCHANGED <<begun, queue, pinned, posts, kills>>
    BY <1>6 DEF FanOuts!Raises, FanOuts!Over
  <2>2. /\ at[w].job = <<FanOuts!Of(w), FanOuts!GroupOf(w)>> /\ FanOuts!Of(w) \in FanOuts!Campaigns
        /\ at[w].todo \subseteq Groups /\ FanOuts!GroupOf(w) \in Groups \cup {All}
    BY <2>1, AtAJob
  <2>3. lost \subseteq Groups BY <2>2
  <2>4. \A k, g : Owes(at[w], k, g) /\ g \in Groups => k = FanOuts!Of(w) /\ g \in lost
    BY <1>t, <2>2 DEF Owes, FanOuts!Doing
  <2> HIDE DEF lost
  <2>5. excused \subseteq excused' /\ excused' \subseteq FanOuts!Campaigns \X Groups
    BY <1>e, <2>1, <2>2, <2>3
  <2>6. \A k, g : Owes(at[w], k, g) /\ g \in Groups => <<k, g>> \in excused' BY <2>1, <2>4
  <2>7. FanOuts!Idle \in {FanOuts!Idle} \cup FanOuts!Stages OBVIOUS
  <2> QED BY <1>e, <1>i, <2>1, <2>5, <2>6, <2>7, TurnKept
<1>7. ASSUME NEW w \in Workers, FanOuts!Kill(w) PROVE FanInv'
  <2>1. /\ ~FanOuts!Doing(w, "idle") /\ kills < MaxKills /\ kills' = kills + 1
        /\ FanOuts!Put(at[w].job) /\ at' = [at EXCEPT ![w] = FanOuts!Idle]
        /\ UNCHANGED <<begun, pinned, posts, excused>>
    BY <1>7 DEF FanOuts!Kill, FanOuts!Over
  <2>2. at[w].job \in FanOuts!Jobs /\ at[w].job[1] = FanOuts!Of(w) BY <2>1, AtAJob DEF FanOuts!Of
  <2>3. kills' \in 0..MaxKills /\ kills' >= kills BY <1>e, <2>1, FanTypes
  <2>4. \A k, g : g \in Groups /\ Owes(at[w], k, g)
                    => (at[w].job = <<k, g>> \/ at[w].job = <<k, All>>) BY DEF Owes
  <2>5. FanOuts!Idle \in {FanOuts!Idle} \cup FanOuts!Stages OBVIOUS
  <2> QED BY <1>i, <2>1, <2>2, <2>3, <2>4, <2>5, PutKept
<1>8. CASE UNCHANGED FanOuts!vars
  <2>1. UNCHANGED <<begun, queue, at, pinned, posts, excused, kills>> BY <1>8 DEF FanOuts!vars
  <2>2. FanOuts!TypeOK' BY <2>1 DEF FanInv, FanOuts!TypeOK
  <2>3. \A w \in Workers : Sensible(at[w])' BY <2>1 DEF FanInv, Sensible
  <2>4. \A j \in FanOuts!Jobs : queue'[j] > 0 => j[1] \in begun' BY <2>1 DEF FanInv
  <2>5. \A k \in FanOuts!Campaigns, g \in Groups : KeptFor(k, g)'
    <3> SUFFICES ASSUME NEW k \in FanOuts!Campaigns, NEW g \in Groups PROVE KeptFor(k, g)'
      OBVIOUS
    <3>1. Owers(k, g)' = Owers(k, g) BY <2>1 DEF Owers, Owes
    <3>2. Due(k, g)' = Due(k, g) BY <2>1, <3>1 DEF Due, Queued
    <3>3. KeptFor(k, g) BY DEF FanInv
    <3> QED BY <2>1, <3>2, <3>3 DEF KeptFor
  <2> QED BY <2>2, <2>3, <2>4, <2>5 DEF FanInv
<1>9. ASSUME NEW w \in Workers, NEW job \in FanOuts!Jobs, FanOuts!Dequeue(w, job) PROVE FanInv'
  BY <1>9, DequeueKept
<1>10. ASSUME NEW w \in Workers, FanOuts!Post(w) PROVE FanInv' BY <1>10, PostKept
<1>11. ASSUME NEW k \in FanOuts!Campaigns, FanOuts!Begin(k) PROVE FanInv' BY <1>11, BeginKept
<1> QED BY <1>1, <1>2, <1>3, <1>4, <1>5, <1>6, <1>7, <1>8, <1>9, <1>10, <1>11 DEF FanOuts!Next

\* A group gets a post of a birthday sweep or a broadcast once, and once more at
\* most for each worker that was killed: whatever raises, is skipped or cannot be
\* queued, in whatever order the workers take the jobs.
THEOREM PostsAreCounted == ASSUME Fans PROVE FanOuts!Spec => []FanOuts!PostedOnce
<1>1. FanInv => FanOuts!PostedOnce
  <2> SUFFICES ASSUME FanInv, NEW p \in DOMAIN posts PROVE posts[p] <= 1 + kills
    BY DEF FanOuts!PostedOnce
  <2>1. p \in FanOuts!Campaigns \X Groups BY DEF FanInv, FanOuts!TypeOK
  <2>2. PICK k \in FanOuts!Campaigns, g \in Groups : p = <<k, g>> BY <2>1
  <2>3. posts[<<k, g>>] \in Nat /\ Due(k, g) \in Nat /\ kills \in Nat BY FanTypes
  <2>4. posts[<<k, g>>] + Due(k, g) <= 1 + kills BY DEF FanInv, KeptFor
  <2> QED BY <2>2, <2>3, <2>4
<1> QED BY <1>1, FanInvInit, FanInvNext, PTL DEF FanOuts!Spec

\* When no job is left, every group of what was begun has its post or was given up
\* with a word in the log.
THEOREM NoGroupForgotten == ASSUME Fans PROVE FanOuts!Spec => []FanOuts!NobodyForgotten
<1>1. FanInv => FanOuts!NobodyForgotten
  <2> SUFFICES ASSUME FanInv, \A j \in FanOuts!Jobs : queue[j] = 0,
                      \A w \in Workers : at[w] = FanOuts!Idle,
                      NEW k \in begun, NEW g \in Groups
               PROVE  k \in Manual \/ posts[<<k, g>>] > 0 \/ <<k, g>> \in excused
    BY DEF FanOuts!NobodyForgotten
  <2>1. k \in FanOuts!Campaigns BY DEF FanInv, FanOuts!TypeOK
  <2>2. queue[<<k, g>>] = 0 /\ queue[<<k, All>>] = 0 BY <2>1, FanTypes
  <2>3. Owers(k, g) = {} BY IdleOwesNothing DEF Owers
  <2>4. Cardinality(Owers(k, g)) = 0 BY <2>3, FS_EmptySet
  <2>5. Due(k, g) = 0 BY <2>2, <2>4 DEF Due, Queued
  <2>6. KeptFor(k, g) BY <2>1 DEF FanInv
  <2> QED BY <2>5, <2>6 DEF KeptFor
<1> QED BY <1>1, FanInvInit, FanInvNext, PTL DEF FanOuts!Spec

-----------------------------------------------------------------------------
(* Migrations.                                                             *)
(*                                                                         *)
(* Whose upgrade is not astray holds the lock while it runs, and revisions *)
(* only grow: a commit names the revision it began at.                     *)
CONSTANTS Procs, Jobs, HeadOf, First, Nothing
VARIABLES revision, holder, pc, upgrading, astray

Schema == INSTANCE Migrations WITH begun <- upgrading

SchemaInv ==
  /\ Schema!TypeOK
  /\ \A p \in Procs : holder = p => pc[p] \in {"locked", "upgrading", "applied"}
  /\ \A p \in Procs \ astray : upgrading[p] # Nothing => holder = p /\ pc[p] = "upgrading"
  /\ Schema!ServesAtHead

LEMMA SchemaInvInit == ASSUME Schema!MigrationAssumption PROVE Schema!Init => SchemaInv
BY DEF Schema!MigrationAssumption, Schema!Init, SchemaInv, Schema!TypeOK, Schema!Stages,
       Schema!ServesAtHead, Schema!Runs

\* The steps of one process that leave the schema and the threads alone.
LEMMA ProcessMoves ==
  ASSUME SchemaInv, Schema!MigrationAssumption, NEW p \in Procs, NEW stage \in Schema!Stages,
         Schema!To(p, stage), UNCHANGED <<revision, upgrading>>,
         stage = "serving" => revision >= HeadOf[p],
         \/ Schema!LetGo(p) /\ astray' = astray \cup {p}
         \/ /\ UNCHANGED astray
            /\ \/ holder' = p /\ holder = Nothing /\ stage = "locked"
               \/ Schema!LetGo(p)
            /\ p \in astray \/ upgrading[p] = Nothing
  PROVE  SchemaInv'
<1> USE DEF SchemaInv, Schema!TypeOK
<1>1. pc' = [pc EXCEPT ![p] = stage] BY DEF Schema!To
<1>2. \A q \in Procs : pc'[q] = IF q = p THEN stage ELSE pc[q] BY <1>1
<1>3. holder' \in Procs \cup {Nothing} /\ (holder' = p => stage = "locked")
      /\ \A q \in Procs \ {p} : holder' = q <=> holder = q
  BY DEF Schema!LetGo, Schema!MigrationAssumption, Schema!Runs
<1>4. Schema!TypeOK' BY <1>1, <1>3
<1>5. \A q \in Procs : holder' = q => pc'[q] \in {"locked", "upgrading", "applied"}
  BY <1>2, <1>3
<1>6. \A q \in Procs \ astray' : upgrading'[q] # Nothing => holder' = q /\ pc'[q] = "upgrading"
  BY <1>2, <1>3
<1>7. Schema!ServesAtHead' BY <1>2 DEF Schema!ServesAtHead
<1> QED BY <1>4, <1>5, <1>6, <1>7

LEMMA SchemaInvNext ==
  ASSUME Schema!MigrationAssumption PROVE SchemaInv /\ [Schema!Next]_Schema!vars => SchemaInv'
<1> SUFFICES ASSUME SchemaInv, [Schema!Next]_Schema!vars PROVE SchemaInv' OBVIOUS
<1>t. /\ revision \in Nat /\ pc \in [Procs -> Schema!Stages]
      /\ upgrading \in [Schema!Runs -> Nat \cup {Nothing}] /\ Procs \subseteq Schema!Runs
      /\ Nothing \notin Schema!Runs \cup Nat /\ HeadOf \in [Schema!Runs -> Nat]
      /\ holder \in Procs \cup {Nothing} /\ astray \subseteq Procs
  BY DEF SchemaInv, Schema!TypeOK, Schema!MigrationAssumption, Schema!Runs
<1>n. ASSUME NEW p \in Procs, pc[p] # "upgrading" PROVE p \in astray \/ upgrading[p] = Nothing
  BY <1>n DEF SchemaInv
<1>1. ASSUME NEW p \in Procs, Schema!Start(p) PROVE SchemaInv'
  <2>1. holder # p BY <1>1 DEF Schema!Start, SchemaInv
  <2>2. Schema!LetGo(p) BY <1>1, <2>1 DEF Schema!Start, Schema!LetGo
  <2> DEFINE stage == IF revision = HeadOf[p] THEN "serving" ELSE "waiting"
  <2>3. stage \in Schema!Stages /\ (stage = "serving" => revision >= HeadOf[p])
    BY <1>t DEF Schema!Stages
  <2>4. Schema!To(p, stage) /\ UNCHANGED <<revision, upgrading, astray>> BY <1>1 DEF Schema!Start
  <2>5. p \in astray \/ upgrading[p] = Nothing BY <1>1, <1>n DEF Schema!Start
  <2> HIDE DEF stage
  <2> QED BY <2>2, <2>3, <2>4, <2>5, ProcessMoves
<1>2. ASSUME NEW p \in Procs, Schema!Lock(p) PROVE SchemaInv'
  <2>1. p \in astray \/ upgrading[p] = Nothing BY <1>2, <1>n DEF Schema!Lock
  <2>2. "locked" \in Schema!Stages BY DEF Schema!Stages
  <2> QED BY <1>2, <2>1, <2>2, ProcessMoves DEF Schema!Lock
<1>3. ASSUME NEW p \in Procs, Schema!LockTimeout(p) PROVE SchemaInv'
  <2>1. Schema!LetGo(p) BY <1>3 DEF Schema!LockTimeout, Schema!LetGo, SchemaInv
  <2>2. p \in astray \/ upgrading[p] = Nothing BY <1>3, <1>n DEF Schema!LockTimeout
  <2>3. "failed" \in Schema!Stages BY DEF Schema!Stages
  <2> QED BY <1>3, <2>1, <2>2, <2>3, ProcessMoves DEF Schema!LockTimeout
<1>4. ASSUME NEW p \in Procs, Schema!Converged(p) PROVE SchemaInv'
  <2>1. p \in astray \/ upgrading[p] = Nothing BY <1>4, <1>n DEF Schema!Converged
  <2>2. "serving" \in Schema!Stages /\ revision >= HeadOf[p]
    BY <1>4, <1>t DEF Schema!Stages, Schema!Converged
  <2> QED BY <1>4, <2>1, <2>2, ProcessMoves DEF Schema!Converged
<1>5. ASSUME NEW p \in Procs, Schema!Verify(p) PROVE SchemaInv'
  <2>1. p \in astray \/ upgrading[p] = Nothing BY <1>5, <1>n DEF Schema!Verify
  <2> DEFINE stage == IF revision = HeadOf[p] THEN "serving" ELSE "failed"
  <2>2. stage \in Schema!Stages /\ (stage = "serving" => revision >= HeadOf[p])
    BY <1>t DEF Schema!Stages
  <2>3. Schema!To(p, stage) /\ Schema!LetGo(p) /\ UNCHANGED <<revision, upgrading, astray>>
    BY <1>5 DEF Schema!Verify
  <2> HIDE DEF stage
  <2> QED BY <2>1, <2>2, <2>3, ProcessMoves
<1>6. ASSUME NEW p \in Procs, Schema!Cancel(p) PROVE SchemaInv'
  <2>1. "failed" \in Schema!Stages BY DEF Schema!Stages
  <2> QED BY <1>6, <2>1, ProcessMoves DEF Schema!Cancel
<1>7. ASSUME NEW p \in Procs, Schema!Upgrade(p) PROVE SchemaInv'
  <2>1. /\ pc[p] = "locked" /\ holder = p /\ upgrading' = [upgrading EXCEPT ![p] = revision]
        /\ pc' = [pc EXCEPT ![p] = "upgrading"] /\ UNCHANGED <<revision, holder, astray>>
    BY <1>7 DEF Schema!Upgrade, Schema!To
  <2>2. Schema!TypeOK' BY <1>t, <2>1 DEF SchemaInv, Schema!TypeOK, Schema!Stages
  <2>3. \A q \in Procs : pc'[q] = IF q = p THEN "upgrading" ELSE pc[q] BY <1>t, <2>1
  <2>4. \A q \in Procs : q # p => upgrading'[q] = upgrading[q] BY <1>t, <2>1
  <2>5. Schema!ServesAtHead' BY <2>1, <2>3 DEF SchemaInv, Schema!ServesAtHead
  <2> QED BY <2>1, <2>2, <2>3, <2>4, <2>5 DEF SchemaInv
<1>8. ASSUME NEW p \in Procs, Schema!SessionLost(p) PROVE SchemaInv'
  <2>1. holder = p /\ holder' = Nothing /\ astray' = astray \cup {p} /\ UNCHANGED <<revision, pc, upgrading>>
    BY <1>8 DEF Schema!SessionLost
  <2>2. \A q \in Procs : holder' # q BY <1>t, <2>1
  <2>3. Schema!TypeOK' BY <2>1 DEF SchemaInv, Schema!TypeOK
  <2>4. Schema!ServesAtHead' BY <2>1 DEF SchemaInv, Schema!ServesAtHead
  <2> QED BY <2>1, <2>2, <2>3, <2>4 DEF SchemaInv
<1>9. ASSUME NEW p \in Procs, Schema!Crash(p) PROVE SchemaInv'
  <2>1. /\ pc' = [pc EXCEPT ![p] = "off"] /\ holder' = (IF holder = p THEN Nothing ELSE holder)
        /\ upgrading' = [upgrading EXCEPT ![p] = Nothing] /\ astray' = astray \ {p}
        /\ revision' = revision
    BY <1>9 DEF Schema!Crash, Schema!To, Schema!LetGo
  <2>2. Schema!TypeOK' BY <1>t, <2>1 DEF SchemaInv, Schema!TypeOK, Schema!Stages
  <2>3. \A q \in Procs : /\ pc'[q] = IF q = p THEN "off" ELSE pc[q]
                         /\ upgrading'[q] = IF q = p THEN Nothing ELSE upgrading[q]
                         /\ holder' = q <=> holder = q /\ q # p
    BY <1>t, <2>1
  <2>4. Schema!ServesAtHead' BY <2>1, <2>3 DEF SchemaInv, Schema!ServesAtHead
  <2> QED BY <2>1, <2>2, <2>3, <2>4 DEF SchemaInv
<1>10. ASSUME NEW r \in Schema!Runs, Schema!Commit(r) PROVE SchemaInv'
  <2>1. /\ upgrading[r] \in Nat /\ upgrading[r] <= HeadOf[r] /\ revision = upgrading[r]
        /\ revision' = HeadOf[r] /\ upgrading' = [upgrading EXCEPT ![r] = Nothing]
        /\ pc' = [p \in Procs |-> IF p = r /\ pc[p] = "upgrading" THEN "applied" ELSE pc[p]]
        /\ UNCHANGED <<holder, astray>>
    BY <1>10, <1>t DEF Schema!Commit
  <2>2. revision' \in Nat /\ revision' >= revision BY <1>t, <2>1
  <2>3. Schema!TypeOK' BY <1>t, <2>1, <2>2 DEF SchemaInv, Schema!TypeOK, Schema!Stages
  <2>4. \A p \in Procs : /\ pc'[p] = IF p = r /\ pc[p] = "upgrading" THEN "applied" ELSE pc[p]
                         /\ upgrading'[p] = IF p = r THEN Nothing ELSE upgrading[p]
    BY <1>t, <2>1
  <2>5. Schema!ServesAtHead'
    <3> SUFFICES ASSUME NEW p \in Procs, pc'[p] = "serving" PROVE revision' >= HeadOf[p]
      BY DEF Schema!ServesAtHead
    <3>1. revision >= HeadOf[p] BY <2>4 DEF SchemaInv, Schema!ServesAtHead
    <3>2. HeadOf[p] \in Nat BY <1>t
    <3> QED BY <1>t, <2>2, <3>1, <3>2
  <2> QED BY <2>1, <2>3, <2>4, <2>5 DEF SchemaInv
<1>11. ASSUME NEW r \in Schema!Runs, Schema!RollBack(r) PROVE SchemaInv'
  <2>1. /\ upgrading' = [upgrading EXCEPT ![r] = Nothing]
        /\ pc' = [p \in Procs |-> IF p = r /\ pc[p] = "upgrading" THEN "failed" ELSE pc[p]]
        /\ holder' = (IF holder = r THEN Nothing ELSE holder) /\ astray' = astray \ {r}
        /\ revision' = revision
    BY <1>11 DEF Schema!RollBack, Schema!LetGo
  <2>2. Schema!TypeOK' BY <1>t, <2>1 DEF SchemaInv, Schema!TypeOK, Schema!Stages
  <2>3. \A q \in Procs : /\ pc'[q] = IF q = r /\ pc[q] = "upgrading" THEN "failed" ELSE pc[q]
                         /\ upgrading'[q] = IF q = r THEN Nothing ELSE upgrading[q]
                         /\ holder' = q <=> holder = q /\ q # r
    BY <1>t, <2>1
  <2>4. Schema!ServesAtHead' BY <2>1, <2>3 DEF SchemaInv, Schema!ServesAtHead
  <2> QED BY <2>1, <2>2, <2>3, <2>4 DEF SchemaInv
<1>12. ASSUME NEW j \in Jobs, Schema!RunJob(j) PROVE SchemaInv'
  <2>1. /\ upgrading' = [upgrading EXCEPT ![j] = revision]
        /\ UNCHANGED <<revision, holder, pc, astray>> /\ j \in Schema!Runs /\ j \notin Procs
    BY <1>12 DEF Schema!RunJob, Schema!Runs, Schema!MigrationAssumption
  <2>2. Schema!TypeOK' BY <1>t, <2>1 DEF SchemaInv, Schema!TypeOK
  <2>3. \A q \in Procs : upgrading'[q] = upgrading[q] BY <1>t, <2>1
  <2>4. Schema!ServesAtHead' BY <2>1 DEF SchemaInv, Schema!ServesAtHead
  <2> QED BY <2>1, <2>2, <2>3, <2>4 DEF SchemaInv
<1>13. CASE UNCHANGED Schema!vars
  BY <1>13 DEF Schema!vars, SchemaInv, Schema!TypeOK, Schema!ServesAtHead
<1> QED BY <1>1, <1>2, <1>3, <1>4, <1>5, <1>6, <1>7, <1>8, <1>9, <1>10, <1>11, <1>12, <1>13
        DEF Schema!Next

\* No process serves on a schema older than its code, and no two that hold on to
\* their lock upgrade at once: with any processes, jobs and revisions, cancelled,
\* cut off and killed anywhere.
THEOREM SchemaConverges ==
  ASSUME Schema!MigrationAssumption
  PROVE  Schema!Spec => [](Schema!ServesAtHead /\ Schema!OneLockedUpgrade)
<1>1. SchemaInv => Schema!ServesAtHead /\ Schema!OneLockedUpgrade
  BY DEF SchemaInv, Schema!OneLockedUpgrade
<1> QED BY <1>1, SchemaInvInit, SchemaInvNext, PTL DEF Schema!Spec

-----------------------------------------------------------------------------
(* JobQueue.                                                               *)
(*                                                                         *)
(* A pool that was opened while no other was is the one calls find; every  *)
(* other one came of an opening that met another, or close().  A job's     *)
(* tries count its starts, and its starts the ends that cut it short.      *)
CONSTANTS Calls, Sent, MaxJobs, MaxTries, MaxEnds
VARIABLES pool, live, opened, closing, enqueuing, job, cut, ran, stray, ends

Queue == INSTANCE JobQueue WITH call <- enqueuing, kills <- ends, MaxKills <- MaxEnds

\* While a call still opens a pool, one that is there already met it.
PoolsInv ==
  /\ Queue!PoolsAccounted
  /\ \A c \in Calls :
       /\ enqueuing[c].at = "opening" /\ pool # Nothing /\ closing = "no" => pool \in stray
       /\ enqueuing[c].at = "handing" => enqueuing[c].pool # Nothing
  /\ closing # "no" => live \subseteq stray

\* What the fate of a job says of its history.
Fare(c) ==
  /\ enqueuing[c].at \in {"idle", "opening", "handing"} => job[c].fate = "none"
  /\ enqueuing[c].at = "accepted" => job[c].fate # "none"
  /\ job[c].fate \in {"none", "queued", "orphaned"} => ran[c] = cut[c] /\ job[c].tries = ran[c]
  /\ job[c].fate = "running" => ran[c] = cut[c] + 1 /\ job[c].tries = ran[c]
  /\ job[c].fate \in {"none", "queued", "orphaned", "running"} => job[c].tries <= MaxTries
  /\ job[c].fate = "spent" => cut[c] = MaxTries
  /\ ran[c] <= cut[c] + 1

QueueInv == Queue!TypeOK /\ PoolsInv /\ \A c \in Calls : Fare(c)

CallRecords == [at : {"idle", "opening", "handing", "accepted", "refused"}, name : Sent,
                pool : {Nothing} \cup 1..opened]
JobRecords == [fate : Queue!Fates, tries : Nat]

LEMMA QueueTypes ==
  ASSUME QueueInv, Queue!QueueAssumption
  PROVE  /\ opened \in Nat /\ MaxTries \in Nat /\ MaxEnds \in Nat /\ ends \in 0..MaxEnds
         /\ live \subseteq 1..opened /\ stray \subseteq 1..opened
         /\ pool \in {Nothing} \cup 1..opened /\ closing \in {"no", "begun", "ended"}
         /\ Nothing \notin Nat
         /\ enqueuing \in [Calls -> CallRecords] /\ job \in [Calls -> JobRecords]
         /\ cut \in [Calls -> Nat] /\ ran \in [Calls -> Nat]
         /\ \A c \in Calls : cut[c] \in Nat /\ ran[c] \in Nat /\ job[c].tries \in Nat
BY DEF QueueInv, Queue!TypeOK, Queue!QueueAssumption, CallRecords, JobRecords

\* One call of enqueue() goes on, and may have a job in the queue.
GoesOn(c, at1, pool1) ==
  /\ enqueuing' = [enqueuing EXCEPT ![c].at = at1, ![c].pool = pool1]
  /\ at1 \in {"opening", "handing", "accepted", "refused"}
  /\ opened' \in Nat /\ opened' >= opened /\ pool1 \in {Nothing} \cup 1..opened'
  /\ UNCHANGED <<cut, ran, ends>>
  /\ \/ UNCHANGED job /\ (at1 = "accepted" => job[c].fate # "none")
     \/ job[c].fate = "none" /\ at1 \in {"accepted", "refused"}
          /\ job' = [job EXCEPT ![c].fate = "queued"]
  /\ at1 \in {"opening", "handing"} => job[c].fate = "none" /\ UNCHANGED job

LEMMA CallGoesOn ==
  ASSUME QueueInv, Queue!QueueAssumption, NEW c \in Calls, NEW at1, NEW pool1,
         GoesOn(c, at1, pool1)
  PROVE  /\ enqueuing' \in [Calls -> CallRecords'] /\ job' \in [Calls -> JobRecords]
         /\ \A d \in Calls : Fare(d)'
         /\ \A d \in Calls : enqueuing'[d].at = (IF d = c THEN at1 ELSE enqueuing[d].at)
                             /\ enqueuing'[d].pool = (IF d = c THEN pool1 ELSE enqueuing[d].pool)
<1> USE DEF GoesOn
<1>t. /\ opened \in Nat /\ enqueuing \in [Calls -> CallRecords] /\ job \in [Calls -> JobRecords]
      /\ MaxTries \in Nat
      /\ \A d \in Calls : cut[d] \in Nat /\ ran[d] \in Nat /\ job[d].tries \in Nat
  BY QueueTypes
<1> DEFINE new == [at |-> at1, name |-> enqueuing[c].name, pool |-> pool1]
<1>1. enqueuing[c] \in CallRecords BY <1>t
<1>2. enqueuing' = [enqueuing EXCEPT ![c] = new]
  <2> DEFINE first == [enqueuing EXCEPT ![c].at = at1]
             one == [enqueuing[c] EXCEPT !.at = at1]
  <2>1. enqueuing' = [first EXCEPT ![c].pool = pool1] OBVIOUS
  <2>2. one = [at |-> at1, name |-> enqueuing[c].name, pool |-> enqueuing[c].pool]
    BY <1>1 DEF CallRecords
  <2>3. first = [enqueuing EXCEPT ![c] = one] OBVIOUS
  <2> HIDE DEF one, first
  <2>4. first[c] = one /\ DOMAIN first = Calls /\ \A d \in Calls \ {c} : first[d] = enqueuing[d]
    BY <1>t, <2>3
  <2>5. enqueuing' = [first EXCEPT ![c] = [first[c] EXCEPT !.pool = pool1]] BY <2>1
  <2>6. [one EXCEPT !.pool = pool1] = new BY <2>2
  <2>7. enqueuing' = [first EXCEPT ![c] = new] BY <2>4, <2>5, <2>6
  <2> HIDE DEF new
  <2> QED BY <1>t, <2>3, <2>7
<1>3. new \in CallRecords' /\ new.at = at1 /\ new.pool = pool1 BY <1>1 DEF CallRecords
<1> HIDE DEF new
<1>4. \A d \in Calls : enqueuing'[d] = IF d = c THEN new ELSE enqueuing[d] BY <1>t, <1>2
<1>5. \A d \in Calls : enqueuing[d] \in CallRecords'
  <2>1. 1..opened \subseteq 1..opened' BY <1>t
  <2> QED BY <1>t, <2>1 DEF CallRecords
<1>6. enqueuing' \in [Calls -> CallRecords'] BY <1>t, <1>2, <1>3, <1>5
<1>7. /\ job' \in [Calls -> JobRecords]
      /\ \A d \in Calls : /\ job'[d].tries = job[d].tries
                          /\ d # c => job'[d] = job[d]
      /\ job'[c].fate = job[c].fate \/ (job[c].fate = "none" /\ job'[c].fate = "queued")
  <2>1. CASE UNCHANGED job BY <1>t, <2>1
  <2>2. CASE job[c].fate = "none" /\ job' = [job EXCEPT ![c].fate = "queued"]
    <3> DEFINE j1 == [job[c] EXCEPT !.fate = "queued"]
    <3>1. job[c] \in JobRecords BY <1>t
    <3>2. j1 = [fate |-> "queued", tries |-> job[c].tries] BY <3>1 DEF JobRecords
    <3>3. j1 \in JobRecords BY <1>t, <3>2 DEF JobRecords, Queue!Fates
    <3>4. job' = [job EXCEPT ![c] = j1] BY <2>2
    <3>5. j1.fate = "queued" /\ j1.tries = job[c].tries BY <3>2
    <3> HIDE DEF j1
    <3>6. \A d \in Calls : job'[d] = IF d = c THEN j1 ELSE job[d] BY <1>t, <3>4
    <3>7. job' \in [Calls -> JobRecords] BY <1>t, <3>3, <3>4
    <3> QED BY <2>2, <3>5, <3>6, <3>7
  <2> QED BY <2>1, <2>2
<1>8. ASSUME NEW d \in Calls PROVE Fare(d)'
  <2>1. Fare(d) BY DEF QueueInv
  <2>2. CASE d # c BY <1>4, <1>7, <2>1, <2>2 DEF Fare
  <2>3. CASE d = c
    <3>1. enqueuing'[c].at = at1 BY <1>3, <1>4
    <3>2. job'[c].tries = job[c].tries /\ cut'[c] = cut[c] /\ ran'[c] = ran[c] BY <1>7
    <3>3. CASE UNCHANGED job /\ (at1 = "accepted" => job[c].fate # "none")
      BY <2>1, <2>3, <3>1, <3>2, <3>3 DEF Fare
    <3>4. CASE job[c].fate = "none" /\ at1 \in {"accepted", "refused"}
                 /\ job' = [job EXCEPT ![c].fate = "queued"]
      <4>1. job'[c].fate = "queued" BY <1>t, <3>4 DEF JobRecords
      <4> QED BY <2>1, <2>3, <3>1, <3>2, <3>4, <4>1 DEF Fare
    <3> QED BY <3>3, <3>4
  <2> QED BY <2>2, <2>3
<1> QED BY <1>3, <1>4, <1>6, <1>7, <1>8

LEMMA QueueInvInit == ASSUME Queue!QueueAssumption PROVE Queue!Init => QueueInv
<1> SUFFICES ASSUME Queue!Init PROVE QueueInv OBVIOUS
<1>1. Queue!TypeOK BY DEF Queue!QueueAssumption, Queue!Init, Queue!TypeOK, Queue!Fates
<1>2. \A c \in Calls : enqueuing[c].at = "idle" /\ job[c].fate = "none" /\ job[c].tries = 0
                       /\ cut[c] = 0 /\ ran[c] = 0
  BY DEF Queue!Init
<1>3. PoolsInv BY <1>2 DEF Queue!Init, PoolsInv, Queue!PoolsAccounted
<1>4. \A c \in Calls : Fare(c) BY <1>2 DEF Fare, Queue!QueueAssumption
<1> QED BY <1>1, <1>3, <1>4 DEF QueueInv

\* A pool is put in the place of nothing, or of one that met another's opening.
LEMMA GetPoolHolds ==
  ASSUME QueueInv, Queue!QueueAssumption, NEW c \in Calls, Queue!GetPool(c) PROVE QueueInv'
<1>t. /\ opened \in Nat /\ pool \in {Nothing} \cup 1..opened
      /\ enqueuing \in [Calls -> CallRecords]
  BY QueueTypes
<1> DEFINE at1 == IF Queue!Found THEN "handing" ELSE "opening"
           pool1 == IF Queue!Found THEN pool ELSE Nothing
<1>1. /\ enqueuing[c].at = "idle"
      /\ enqueuing' = [enqueuing EXCEPT ![c].at = at1, ![c].pool = pool1]
      /\ UNCHANGED <<pool, live, opened, closing, job, stray, cut, ran, ends>>
  BY DEF Queue!GetPool, Queue!OnTheWorker
<1>2. job[c].fate = "none" BY <1>1 DEF QueueInv, Fare
<1>3. at1 \in {"opening", "handing"} /\ pool1 \in {Nothing} \cup 1..opened'
      /\ (at1 = "opening" <=> pool = Nothing) /\ (at1 = "handing" => pool1 # Nothing)
  BY <1>t, <1>1 DEF Queue!Found
<1>4. opened' \in Nat /\ opened' >= opened BY <1>t, <1>1
<1> HIDE DEF at1, pool1
<1>5. /\ enqueuing' \in [Calls -> CallRecords'] /\ job' \in [Calls -> JobRecords]
      /\ \A d \in Calls : Fare(d)'
      /\ \A d \in Calls : enqueuing'[d].at = (IF d = c THEN at1 ELSE enqueuing[d].at)
                          /\ enqueuing'[d].pool = (IF d = c THEN pool1 ELSE enqueuing[d].pool)
  <2>1. at1 \in {"opening", "handing", "accepted", "refused"} BY <1>3
  <2>2. UNCHANGED job /\ (at1 = "accepted" => job[c].fate # "none") BY <1>1, <1>3
  <2>3. UNCHANGED <<cut, ran, ends>> BY <1>1
  <2>4. GoesOn(c, at1, pool1) BY <1>1, <1>2, <1>3, <1>4, <2>1, <2>2, <2>3 DEF GoesOn
  <2> QED BY <2>4, CallGoesOn
<1>6. Queue!TypeOK' BY <1>1, <1>5 DEF QueueInv, Queue!TypeOK, CallRecords, JobRecords
<1>7. PoolsInv' BY <1>1, <1>3, <1>5 DEF QueueInv, PoolsInv, Queue!PoolsAccounted
<1> QED BY <1>5, <1>6, <1>7 DEF QueueInv

LEMMA ConnectedHolds ==
  ASSUME QueueInv, Queue!QueueAssumption, NEW c \in Calls, Queue!Connected(c) PROVE QueueInv'
<1>t. /\ opened \in Nat /\ pool \in {Nothing} \cup 1..opened /\ live \subseteq 1..opened
      /\ stray \subseteq 1..opened /\ enqueuing \in [Calls -> CallRecords] /\ Nothing \notin Nat
  BY QueueTypes
<1> DEFINE new == opened + 1
           met == closing # "no" \/ \E d \in Calls \ {c} : enqueuing[d].at = "opening"
<1>1. /\ enqueuing[c].at = "opening" /\ opened' = new /\ pool' = new /\ live' = live \cup {new}
      /\ stray' = stray \cup (IF met THEN {new} ELSE {})
      /\ enqueuing' = [enqueuing EXCEPT ![c].at = "handing", ![c].pool = new]
      /\ UNCHANGED <<closing, job, cut, ran, ends>>
  BY DEF Queue!Connected, Queue!OnTheWorker
<1>2. job[c].fate = "none" BY <1>1 DEF QueueInv, Fare
<1>3. opened' \in Nat /\ opened' >= opened /\ new \in {Nothing} \cup 1..opened' /\ new # Nothing
  BY <1>t, <1>1
<1>4. /\ enqueuing' \in [Calls -> CallRecords'] /\ job' \in [Calls -> JobRecords]
      /\ \A d \in Calls : Fare(d)'
      /\ \A d \in Calls : enqueuing'[d].at = (IF d = c THEN "handing" ELSE enqueuing[d].at)
                          /\ enqueuing'[d].pool = (IF d = c THEN new ELSE enqueuing[d].pool)
  <2>1. GoesOn(c, "handing", new) BY <1>1, <1>2, <1>3 DEF GoesOn
  <2> HIDE DEF new
  <2> QED BY <2>1, CallGoesOn
<1>5. Queue!TypeOK'
  <2>1. 1..opened \subseteq 1..opened' /\ new \in 1..opened' BY <1>t, <1>1
  <2>2. live' \subseteq 1..opened' /\ stray' \subseteq 1..opened' BY <1>t, <1>1, <2>1
  <2> QED BY <1>1, <1>3, <1>4, <2>1, <2>2 DEF QueueInv, Queue!TypeOK, CallRecords, JobRecords
<1>6. live \subseteq stray
  <2>1. CASE closing # "no" BY <2>1 DEF QueueInv, PoolsInv
  <2>2. CASE closing = "no" /\ pool = Nothing
    BY <1>t, <2>2 DEF QueueInv, PoolsInv, Queue!PoolsAccounted
  <2>3. CASE closing = "no" /\ pool # Nothing
    BY <1>1, <2>3 DEF QueueInv, PoolsInv, Queue!PoolsAccounted
  <2> QED BY <2>1, <2>2, <2>3
<1>7. Queue!PoolsAccounted' BY <1>1, <1>6 DEF Queue!PoolsAccounted
<1>8. ASSUME NEW d \in Calls, enqueuing'[d].at = "opening" PROVE pool' \in stray'
  <2>1. d # c /\ enqueuing[d].at = "opening" BY <1>4, <1>8
  <2>2. met BY <2>1
  <2> QED BY <1>1, <2>2
<1>9. \A d \in Calls : enqueuing'[d].at = "handing" => enqueuing'[d].pool # Nothing
  BY <1>3, <1>4 DEF QueueInv, PoolsInv
<1>10. closing' # "no" => live' \subseteq stray' BY <1>1, <1>6
<1>11. PoolsInv' BY <1>7, <1>8, <1>9, <1>10 DEF PoolsInv
<1> QED BY <1>4, <1>5, <1>11 DEF QueueInv

\* A call ends, with its job in the queue or without.
LEMMA CallEnds ==
  ASSUME QueueInv, Queue!QueueAssumption, NEW c \in Calls, NEW at1 \in {"accepted", "refused"},
         enqueuing[c].at \in {"opening", "handing"},
         enqueuing' = [enqueuing EXCEPT ![c].at = at1],
         UNCHANGED <<pool, opened, closing, cut, ran, ends>>,
         \/ UNCHANGED <<job, live, stray>> /\ at1 = "refused"
         \/ enqueuing[c].at = "handing" /\ Queue!Accept(c) /\ Queue!Reopened(c)
  PROVE  QueueInv'
<1>t. /\ opened \in Nat /\ pool \in {Nothing} \cup 1..opened /\ live \subseteq 1..opened
      /\ stray \subseteq 1..opened /\ enqueuing \in [Calls -> CallRecords] /\ Nothing \notin Nat
  BY QueueTypes
<1> DEFINE p == enqueuing[c].pool
<1>1. enqueuing[c] \in CallRecords /\ p \in {Nothing} \cup 1..opened BY <1>t DEF CallRecords
<1>2. enqueuing' = [enqueuing EXCEPT ![c].at = at1, ![c].pool = p]
  <2> DEFINE one == [enqueuing[c] EXCEPT !.at = at1]
             first == [enqueuing EXCEPT ![c].at = at1]
  <2>1. one = [at |-> at1, name |-> enqueuing[c].name, pool |-> p] BY <1>1 DEF CallRecords
  <2>2. [one EXCEPT !.pool = p] = one BY <2>1
  <2>3. first = [enqueuing EXCEPT ![c] = one] OBVIOUS
  <2> HIDE DEF one
  <2>4. first[c] = one /\ DOMAIN first = Calls BY <1>t, <2>3
  <2>5. [first EXCEPT ![c] = one] = first BY <1>t, <2>3
  <2>6. [first EXCEPT ![c].pool = p] = [first EXCEPT ![c] = [first[c] EXCEPT !.pool = p]] OBVIOUS
  <2>7. [first EXCEPT ![c].pool = p] = first BY <2>2, <2>4, <2>5, <2>6
  <2> QED BY <2>7
<1>3. job[c].fate = "none" BY DEF QueueInv, Fare
<1>4. /\ enqueuing' \in [Calls -> CallRecords'] /\ job' \in [Calls -> JobRecords]
      /\ \A d \in Calls : Fare(d)'
      /\ \A d \in Calls : enqueuing'[d].at = (IF d = c THEN at1 ELSE enqueuing[d].at)
                          /\ enqueuing'[d].pool = (IF d = c THEN p ELSE enqueuing[d].pool)
  <2>1. \/ UNCHANGED job /\ (at1 = "accepted" => job[c].fate # "none")
        \/ job[c].fate = "none" /\ at1 \in {"accepted", "refused"}
             /\ job' = [job EXCEPT ![c].fate = "queued"]
    BY <1>3 DEF Queue!Accept
  <2>2. opened' \in Nat /\ opened' >= opened /\ p \in {Nothing} \cup 1..opened' BY <1>t, <1>1
  <2>3. at1 \in {"opening", "handing", "accepted", "refused"} /\ at1 \notin {"opening", "handing"} OBVIOUS
  <2>4. GoesOn(c, at1, p) BY <1>2, <2>1, <2>2, <2>3 DEF GoesOn
  <2> HIDE DEF p
  <2> QED BY <2>4, CallGoesOn
<1>5. \/ UNCHANGED <<live, stray>>
      \/ p # Nothing /\ live' = live \cup {p} /\ stray' = stray \cup ({p} \ live)
  BY DEF Queue!Reopened, QueueInv, PoolsInv
<1>6. Queue!TypeOK'
  <2>1. live' \subseteq 1..opened' /\ stray' \subseteq 1..opened' BY <1>t, <1>1, <1>5
  <2> QED BY <1>4, <2>1 DEF QueueInv, Queue!TypeOK, CallRecords, JobRecords
<1> HIDE DEF p
<1>7. PoolsInv' BY <1>4, <1>5 DEF QueueInv, PoolsInv, Queue!PoolsAccounted
<1> QED BY <1>4, <1>6, <1>7 DEF QueueInv

\* The worker's steps, and close(), leave the calls alone.
LEMMA JobFares ==
  ASSUME QueueInv, Queue!QueueAssumption, UNCHANGED <<pool, live, opened, closing, enqueuing, stray>>,
         job' \in [Calls -> JobRecords], cut' \in [Calls -> Nat], ran' \in [Calls -> Nat],
         ends' \in 0..MaxEnds, \A c \in Calls : Fare(c)'
  PROVE  QueueInv'
<1>1. Queue!TypeOK' BY DEF QueueInv, Queue!TypeOK, JobRecords
<1>2. PoolsInv' BY DEF QueueInv, PoolsInv, Queue!PoolsAccounted
<1> QED BY <1>1, <1>2 DEF QueueInv

LEMMA QueueInvNext ==
  ASSUME Queue!QueueAssumption PROVE QueueInv /\ [Queue!Next]_Queue!queueVars => QueueInv'
<1> SUFFICES ASSUME QueueInv, [Queue!Next]_Queue!queueVars PROVE QueueInv' OBVIOUS
<1>t. /\ opened \in Nat /\ MaxTries \in Nat /\ MaxEnds \in Nat /\ ends \in 0..MaxEnds
      /\ live \subseteq 1..opened /\ pool \in {Nothing} \cup 1..opened /\ Nothing \notin Nat
      /\ enqueuing \in [Calls -> CallRecords] /\ job \in [Calls -> JobRecords]
      /\ cut \in [Calls -> Nat] /\ ran \in [Calls -> Nat]
      /\ \A c \in Calls : cut[c] \in Nat /\ ran[c] \in Nat /\ job[c].tries \in Nat
      /\ \A c \in Calls : Fare(c)
  BY QueueTypes DEF QueueInv
<1>1. ASSUME NEW c \in Calls, Queue!GetPool(c) PROVE QueueInv' BY <1>1, GetPoolHolds
<1>2. ASSUME NEW c \in Calls, Queue!Connected(c) PROVE QueueInv' BY <1>2, ConnectedHolds
<1>3. ASSUME NEW c \in Calls, Queue!Hand(c) PROVE QueueInv'
  <2>1. "accepted" \in {"accepted", "refused"} OBVIOUS
  <2> QED BY <1>3, <2>1, CallEnds DEF Queue!Hand, Queue!OnTheWorker
<1>4. ASSUME NEW c \in Calls, Queue!Refused(c) PROVE QueueInv'
  <2>1. "refused" \in {"accepted", "refused"} OBVIOUS
  <2> QED BY <1>4, <2>1, CallEnds DEF Queue!Refused, Queue!OnTheWorker
<1>5. CASE Queue!Close \/ Queue!Closed
  <2>1. /\ UNCHANGED <<opened, enqueuing, job, stray, cut, ran, ends>>
        /\ closing' \in {"begun", "ended"} /\ live' \subseteq live /\ pool' \in {pool, Nothing}
        /\ live' \subseteq stray
    <3>1. CASE Queue!Close
      BY <1>t, <3>1 DEF Queue!Close, Queue!OnTheWorker, QueueInv, PoolsInv, Queue!PoolsAccounted
    <3>2. CASE Queue!Closed
      BY <1>t, <3>2 DEF Queue!Closed, Queue!OnTheWorker, QueueInv, PoolsInv, Queue!PoolsAccounted
    <3> QED BY <1>5, <3>1, <3>2
  <2>2. Queue!TypeOK' BY <2>1 DEF QueueInv, Queue!TypeOK
  <2>3. PoolsInv' BY <2>1 DEF QueueInv, PoolsInv, Queue!PoolsAccounted
  <2>4. \A c \in Calls : Fare(c)' BY <2>1 DEF QueueInv, Fare
  <2> QED BY <2>2, <2>3, <2>4 DEF QueueInv
<1>6. ASSUME NEW c \in Calls, Queue!Take(c) PROVE QueueInv'
  <2> DEFINE fate == IF ~Queue!Known(c) THEN "unknown"
                     ELSE IF job[c].tries = MaxTries THEN "spent" ELSE "running"
             new == [fate |-> fate, tries |-> job[c].tries + 1]
  <2>1. /\ job[c].fate = "queued" /\ job' = [job EXCEPT ![c] = new]
        /\ ran' = [ran EXCEPT ![c] = ran[c] + (IF fate = "running" THEN 1 ELSE 0)]
        /\ UNCHANGED <<pool, live, opened, closing, enqueuing, stray, cut, ends>>
    BY <1>6 DEF Queue!Take
  <2>2. new \in JobRecords BY <1>t DEF JobRecords, Queue!Fates
  <2>3. job' \in [Calls -> JobRecords] /\ ran' \in [Calls -> Nat] BY <1>t, <2>1, <2>2
  <2>4. ASSUME NEW d \in Calls PROVE Fare(d)'
    <3>1. CASE d # c BY <1>t, <2>1, <3>1 DEF Fare
    <3>2. CASE d = c
      <4>1. job'[c].fate = fate /\ job'[c].tries = job[c].tries + 1 BY <1>t, <2>1
      <4>2. ran'[c] = ran[c] + (IF fate = "running" THEN 1 ELSE 0) /\ cut'[c] = cut[c]
            /\ enqueuing'[c] = enqueuing[c]
        BY <1>t, <2>1
      <4>3. Fare(c) /\ ran[c] = cut[c] /\ job[c].tries = ran[c] /\ job[c].tries <= MaxTries
        BY <1>t, <2>1 DEF Fare
      <4>7. fate = "running" => job[c].tries # MaxTries OBVIOUS
      <4> HIDE DEF fate
      <4>9. fate = "spent" => job[c].tries = MaxTries BY DEF fate
      <4>10. cut[c] \in Nat /\ ran[c] \in Nat /\ job[c].tries \in Nat /\ MaxTries \in Nat BY <1>t
      <4>11. enqueuing[c].at \notin {"idle", "opening", "handing"} BY <2>1, <4>3 DEF Fare
      <4>4. CASE fate = "running"
        BY <3>2, <4>1, <4>2, <4>3, <4>4, <4>7, <4>10, <4>11 DEF Fare
      <4>5. CASE fate = "spent"
        BY <3>2, <4>1, <4>2, <4>3, <4>5, <4>9, <4>10, <4>11 DEF Fare
      <4>6. CASE fate = "unknown"
        BY <3>2, <4>1, <4>2, <4>3, <4>6, <4>10, <4>11 DEF Fare
      <4>8. fate \in {"running", "spent", "unknown"} BY DEF fate
      <4> QED BY <4>4, <4>5, <4>6, <4>8
    <3> QED BY <3>1, <3>2
  <2> HIDE DEF new, fate
  <2> QED BY <1>t, <2>1, <2>3, <2>4, JobFares
\* The fate of jobs that keep their tries.
<1>7. ASSUME NEW S \in SUBSET Calls, NEW f \in Queue!Fates,
             job' = [c \in Calls |-> job'[c]],
             \A c \in Calls : job'[c] = IF c \in S THEN [job[c] EXCEPT !.fate = f] ELSE job[c]
      PROVE  /\ job' \in [Calls -> JobRecords]
             /\ \A c \in Calls : job'[c].tries = job[c].tries
                                 /\ job'[c].fate = (IF c \in S THEN f ELSE job[c].fate)
  <2>1. ASSUME NEW c \in Calls
        PROVE  /\ [job[c] EXCEPT !.fate = f] \in JobRecords
               /\ [job[c] EXCEPT !.fate = f].tries = job[c].tries
               /\ [job[c] EXCEPT !.fate = f].fate = f
    <3>1. job[c] \in JobRecords BY <1>t
    <3>2. [job[c] EXCEPT !.fate = f] = [fate |-> f, tries |-> job[c].tries] BY <3>1 DEF JobRecords
    <3> QED BY <1>t, <3>2 DEF JobRecords
  <2> QED BY <1>7, <1>t, <2>1
<1>8. ASSUME NEW c \in Calls, NEW f \in Queue!Fates, job' = [job EXCEPT ![c].fate = f]
      PROVE  /\ job' \in [Calls -> JobRecords]
             /\ \A d \in Calls : job'[d].tries = job[d].tries
                                 /\ job'[d].fate = (IF d \in {c} THEN f ELSE job[d].fate)
  <2>1. job' = [d \in Calls |-> job'[d]] BY <1>8, <1>t
  <2>2. \A d \in Calls : job'[d] = IF d \in {c} THEN [job[d] EXCEPT !.fate = f] ELSE job[d]
    BY <1>8, <1>t
  <2>3. {c} \in SUBSET Calls OBVIOUS
  <2> QED BY <1>7, <2>1, <2>2, <2>3
<1>9. ASSUME NEW c \in Calls, Queue!Finish(c) PROVE QueueInv'
  <2>1. PICK f \in {"done", "failed"} : job' = [job EXCEPT ![c].fate = f]
    BY <1>9 DEF Queue!Finish, Queue!AfterError
  <2>2. f \in Queue!Fates BY DEF Queue!Fates
  <2>3. /\ job' \in [Calls -> JobRecords]
        /\ \A d \in Calls : job'[d].tries = job[d].tries
                            /\ job'[d].fate = (IF d \in {c} THEN f ELSE job[d].fate)
    BY <1>8, <2>1, <2>2
  <2>4. /\ job[c].fate = "running"
        /\ UNCHANGED <<pool, live, opened, closing, enqueuing, stray, cut, ran, ends>>
    BY <1>9 DEF Queue!Finish, Queue!OnTheWorker
  <2>5. \A d \in Calls : Fare(d)' BY <1>t, <2>3, <2>4 DEF Fare
  <2> QED BY <1>t, <2>3, <2>4, <2>5, JobFares
<1>10. ASSUME NEW c \in Calls, Queue!MarkLapses(c) PROVE QueueInv'
  <2>1. /\ job[c].fate = "orphaned" /\ job' = [job EXCEPT ![c].fate = "queued"]
        /\ UNCHANGED <<pool, live, opened, closing, enqueuing, stray, cut, ran, ends>>
    BY <1>10 DEF Queue!MarkLapses, Queue!Accept, Queue!OnTheWorker
  <2>2. "queued" \in Queue!Fates BY DEF Queue!Fates
  <2>3. /\ job' \in [Calls -> JobRecords]
        /\ \A d \in Calls : job'[d].tries = job[d].tries
                            /\ job'[d].fate = (IF d \in {c} THEN "queued" ELSE job[d].fate)
    BY <1>8, <2>1, <2>2
  <2>4. \A d \in Calls : Fare(d)' BY <1>t, <2>1, <2>3 DEF Fare
  <2> QED BY <1>t, <2>1, <2>3, <2>4, JobFares
<1>11. CASE Queue!WorkerEnds
  <2>1. PICK f \in {"queued", "orphaned"} :
          job' = [c \in Calls |-> IF c \in Queue!Running THEN [job[c] EXCEPT !.fate = f] ELSE job[c]]
    BY <1>11 DEF Queue!WorkerEnds
  <2>2. f \in Queue!Fates /\ Queue!Running \in SUBSET Calls BY DEF Queue!Fates, Queue!Running
  <2>3. /\ job' \in [Calls -> JobRecords]
        /\ \A d \in Calls : job'[d].tries = job[d].tries
                            /\ job'[d].fate = (IF d \in Queue!Running THEN f ELSE job[d].fate)
    <3>1. job' = [c \in Calls |-> job'[c]] BY <2>1
    <3>2. \A c \in Calls : job'[c] = IF c \in Queue!Running THEN [job[c] EXCEPT !.fate = f]
                                      ELSE job[c]
      BY <2>1
    <3> QED BY <1>7, <2>2, <3>1, <3>2
  <2>4. /\ ends < MaxEnds /\ ends' = ends + 1
        /\ cut' = [c \in Calls |-> cut[c] + (IF c \in Queue!Running THEN 1 ELSE 0)]
        /\ UNCHANGED <<pool, live, opened, closing, enqueuing, stray, ran>>
    BY <1>11 DEF Queue!WorkerEnds
  <2>5. cut' \in [Calls -> Nat] /\ ends' \in 0..MaxEnds BY <1>t, <2>4
  <2>6. ASSUME NEW d \in Calls PROVE Fare(d)'
    <3>1. Fare(d) /\ enqueuing'[d] = enqueuing[d] /\ ran'[d] = ran[d] BY <1>t, <2>4
    <3>2. CASE d \in Queue!Running
      <4>1. job[d].fate = "running" /\ cut'[d] = cut[d] + 1 /\ job'[d].fate = f
        BY <2>3, <2>4, <3>2 DEF Queue!Running
      <4> QED BY <1>t, <2>3, <3>1, <4>1 DEF Fare
    <3>3. CASE d \notin Queue!Running
      <4>1. job'[d].fate = job[d].fate /\ cut'[d] = cut[d] BY <1>t, <2>3, <2>4, <3>3
      <4> QED BY <2>3, <3>1, <4>1 DEF Fare
    <3> QED BY <3>2, <3>3
  <2> QED BY <1>t, <2>3, <2>4, <2>5, <2>6, JobFares
<1>12. CASE UNCHANGED Queue!queueVars
  <2>1. UNCHANGED <<pool, live, opened, closing, enqueuing, stray, job, cut, ran, ends>>
    BY <1>12 DEF Queue!queueVars
  <2>2. \A d \in Calls : Fare(d)' BY <1>t, <2>1 DEF Fare
  <2> QED BY <1>t, <2>1, <2>2, JobFares
<1> QED BY <1>1, <1>2, <1>3, <1>4, <1>5, <1>6, <1>9, <1>10, <1>11, <1>12 DEF Queue!Next

\* With any calls, tries and ends of workers: every open pool is the one calls find,
\* unless its opening met another or close(); a job runs again only for an end of
\* its worker, and is given up only after its tries; a job that was accepted is known.
THEOREM QueueAccounts == ASSUME Queue!QueueAssumption PROVE Queue!Spec => []Queue!QueueHolds
<1>1. QueueInv => Queue!QueueHolds
  BY DEF QueueInv, PoolsInv, Fare, Queue!QueueHolds, Queue!RunsAccounted
<1> QED BY <1>1, QueueInvInit, QueueInvNext, PTL DEF Queue!Spec
-----------------------------------------------------------------------------
(* Lifecycle.                                                              *)
(*                                                                         *)
(* What is open is what the plan has started and not stopped; that is kept *)
(* while the process comes up, serves and goes down, and of a process that *)
(* failed on the way only what the order of the plans leaves true.         *)
CONSTANTS Skins, Handlers, MaxEvents
VARIABLES process, open, poller, busy, buffered, events, late

Life == INSTANCE Lifecycle

Starting == Life!Plans[process.service].starting
Stopping == Life!Plans[process.service].stopping
StartedOf(plan, k) == {plan[i] : i \in 1..k} \ {"schema", "names"}
StoppedFrom(plan, k) == {plan[i] : i \in k..Len(plan)} \ {"queue"}

OpenInv ==
  /\ process.phase = "starting" =>
       /\ process.at \in 1..Len(Starting)
       /\ open = StartedOf(Starting, process.at - 1)
  /\ process.phase \in {"serving", "stopping"} =>
       /\ process.at \in 1..Len(Stopping)
       /\ open = StoppedFrom(Stopping, process.at)
  /\ process.phase = "serving" => process.at = 1
  /\ process.phase = "stopped" => open = {}
  /\ "recorder" \in open => "pg" \in open

\* Events wait for a flush; those that come after the last one wait for ever.
BufferInv ==
  /\ process.phase = "starting" => busy = {} /\ late = 0 /\ buffered = 0
  /\ busy # {} => process.service = "gateway"
  /\ "recorder" \in open => late = 0
  /\ "recorder" \notin open => buffered = late

PollersInv == \A s \in Skins : poller[s] # "none" => "ingest" \in open

LifeInv == Life!TypeOK /\ OpenInv /\ BufferInv /\ PollersInv

\* The plans, of which a later one may start or stop something else: everything
\* stands before what works with it and is stopped after it, and once.
PlanSound(a, b) ==
  /\ Len(a) \in Nat \ {0} /\ Len(b) \in Nat \ {0}
  /\ StartedOf(a, Len(a)) = StoppedFrom(b, 1)
  /\ \A i, j \in 1..Len(b) : b[i] = b[j] => i = j
  /\ \A i \in 1..Len(a) :
       /\ a[i] = "listener" => \E j \in 1..(i - 1) : a[j] = "cache"
       /\ a[i] \in {"names", "ingest"} => \E j \in 1..(i - 1) : a[j] = "bots"
       /\ a[i] = "recorder" => \E j \in 1..(i - 1) : a[j] = "pg"
  /\ \A i \in 1..Len(b) :
       /\ b[i] = "listener" => \E j \in (i + 1)..Len(b) : b[j] = "cache"
       /\ b[i] = "recorder" => \E j \in (i + 1)..Len(b) : b[j] = "pg"
  /\ {"pg", "cache", "storage"} \subseteq StoppedFrom(b, 1)

LEMMA PlansSound ==
  /\ \A s \in Life!Services : PlanSound(Life!Plans[s].starting, Life!Plans[s].stopping)
  /\ Life!Services = {"gateway", "worker", "api"}
  /\ {"llm", "bots", "recorder"} \subseteq StoppedFrom(Life!Plans["gateway"].stopping, 1)
<1>1. Life!Services = {"gateway", "worker", "api"} BY DEF Life!Services, Life!Plans
<1>2. /\ Life!Plans["gateway"] = Life!Gateway /\ Life!Plans["worker"] = Life!Worker
      /\ Life!Plans["api"] = Life!Api
  BY DEF Life!Plans
<1>3. PlanSound(Life!Api.starting, Life!Api.stopping)
  <2> DEFINE a == <<"schema", "pg", "cache", "storage">>
             b == <<"storage", "cache", "pg">>
  <2>1. Life!Api.starting = a /\ Life!Api.stopping = b BY DEF Life!Api
  <2>2. /\ Len(a) = 4 /\ a[1] = "schema" /\ a[2] = "pg" /\ a[3] = "cache" /\ a[4] = "storage"
        /\ Len(b) = 3 /\ b[1] = "storage" /\ b[2] = "cache" /\ b[3] = "pg"
    OBVIOUS
  <2> HIDE DEF a, b
  <2>3. /\ \A i : i \in 1..4 <=> i \in {1, 2, 3, 4}
        /\ \A i : i \in 1..3 <=> i \in {1, 2, 3}
    OBVIOUS
  <2>4. StartedOf(a, 4) = {"pg", "cache", "storage"} BY <2>2, <2>3 DEF StartedOf
  <2>5. StoppedFrom(b, 1) = {"pg", "cache", "storage"} BY <2>2, <2>3 DEF StoppedFrom
  <2>6. \A i, j \in 1..3 : b[i] = b[j] => i = j BY <2>2, <2>3
  <2>7. \A i \in 1..4 : a[i] \notin {"listener", "names", "ingest", "recorder"} BY <2>2, <2>3
  <2>8. \A i \in 1..3 : b[i] \notin {"listener", "recorder"} BY <2>2, <2>3
  <2> QED BY <2>1, <2>2, <2>4, <2>5, <2>6, <2>7, <2>8 DEF PlanSound
<1>4. PlanSound(Life!Worker.starting, Life!Worker.stopping)
  <2> DEFINE a == <<"schema", "pg", "cache", "storage", "llm", "bots">>
             b == <<"bots", "llm", "storage", "cache", "pg">>
  <2>1. Life!Worker.starting = a /\ Life!Worker.stopping = b BY DEF Life!Worker
  <2>2. /\ Len(a) = 6 /\ a[1] = "schema" /\ a[2] = "pg" /\ a[3] = "cache" /\ a[4] = "storage"
        /\ a[5] = "llm" /\ a[6] = "bots"
        /\ Len(b) = 5 /\ b[1] = "bots" /\ b[2] = "llm" /\ b[3] = "storage" /\ b[4] = "cache"
        /\ b[5] = "pg"
    OBVIOUS
  <2> HIDE DEF a, b
  <2>3. /\ \A i : i \in 1..6 <=> i \in {1, 2, 3, 4, 5, 6}
        /\ \A i : i \in 1..5 <=> i \in {1, 2, 3, 4, 5}
    OBVIOUS
  <2>4. StartedOf(a, 6) = {"pg", "cache", "storage", "llm", "bots"} BY <2>2, <2>3 DEF StartedOf
  <2>5. StoppedFrom(b, 1) = {"pg", "cache", "storage", "llm", "bots"}
    BY <2>2, <2>3 DEF StoppedFrom
  <2>6. \A i, j \in 1..5 : b[i] = b[j] => i = j BY <2>2, <2>3
  <2>7. \A i \in 1..6 : a[i] \notin {"listener", "names", "ingest", "recorder"} BY <2>2, <2>3
  <2>8. \A i \in 1..5 : b[i] \notin {"listener", "recorder"} BY <2>2, <2>3
  <2> QED BY <2>1, <2>2, <2>4, <2>5, <2>6, <2>7, <2>8 DEF PlanSound
<1>5. /\ PlanSound(Life!Gateway.starting, Life!Gateway.stopping)
      /\ {"llm", "bots", "recorder"} \subseteq StoppedFrom(Life!Gateway.stopping, 1)
  <2> DEFINE a == <<"schema", "pg", "cache", "storage", "llm", "listener", "recorder", "bots",
                    "names", "ingest">>
             b == <<"ingest", "listener", "recorder", "bots", "llm", "storage", "queue", "cache",
                    "pg">>
             all == {"pg", "cache", "storage", "llm", "listener", "recorder", "bots", "ingest"}
  <2>1. Life!Gateway.starting = a /\ Life!Gateway.stopping = b BY DEF Life!Gateway
  <2>2. /\ Len(a) = 10 /\ a[1] = "schema" /\ a[2] = "pg" /\ a[3] = "cache" /\ a[4] = "storage"
        /\ a[5] = "llm" /\ a[6] = "listener" /\ a[7] = "recorder" /\ a[8] = "bots"
        /\ a[9] = "names" /\ a[10] = "ingest"
    OBVIOUS
  <2>3. /\ Len(b) = 9 /\ b[1] = "ingest" /\ b[2] = "listener" /\ b[3] = "recorder"
        /\ b[4] = "bots" /\ b[5] = "llm" /\ b[6] = "storage" /\ b[7] = "queue"
        /\ b[8] = "cache" /\ b[9] = "pg"
    OBVIOUS
  <2> HIDE DEF a, b
  <2>4. /\ \A i : i \in 1..10 <=> i \in {1, 2, 3, 4, 5, 6, 7, 8, 9, 10}
        /\ \A i : i \in 1..9 <=> i \in {1, 2, 3, 4, 5, 6, 7, 8, 9}
    OBVIOUS
  <2>5. StartedOf(a, 10) = all BY <2>2, <2>4 DEF StartedOf
  <2>6. StoppedFrom(b, 1) = all BY <2>3, <2>4 DEF StoppedFrom
  <2>7. \A i, j \in 1..9 : b[i] = b[j] => i = j BY <2>3, <2>4
  <2>8. \A i \in 1..10 :
          /\ a[i] = "listener" => i = 6 /\ 3 \in 1..(i - 1)
          /\ a[i] \in {"names", "ingest"} => i \in {9, 10} /\ 8 \in 1..(i - 1)
          /\ a[i] = "recorder" => i = 7 /\ 2 \in 1..(i - 1)
    BY <2>2, <2>4
  <2>9. \A i \in 1..9 :
          /\ b[i] = "listener" => 8 \in (i + 1)..9
          /\ b[i] = "recorder" => 9 \in (i + 1)..9
    BY <2>3, <2>4
  <2> QED BY <2>1, <2>2, <2>3, <2>5, <2>6, <2>7, <2>8, <2>9 DEF PlanSound
<1> QED BY <1>1, <1>2, <1>3, <1>4, <1>5

\* A process, as the component's TypeOK has it.
Processes ==
  [service : Life!Services, mode : {"webhook", "polling", "websocket"}, at : Nat,
   phase : {"starting", "serving", "stopping", "stopped", "failed"}]

LEMMA LifePlan ==
  ASSUME LifeInv
  PROVE  /\ PlanSound(Starting, Stopping)
         /\ process.service \in {"gateway", "worker", "api"}
         /\ process.service = "gateway" =>
              {"llm", "bots", "recorder"} \subseteq StoppedFrom(Stopping, 1)
         /\ Life!Plan = (IF process.phase = "starting" THEN Starting ELSE Stopping)
         /\ process \in Processes
<1>1. process \in Processes
  BY DEF LifeInv, Life!TypeOK, Processes
<1>2. process.service \in Life!Services BY <1>1 DEF Processes
<1>3. Life!Plan = (IF process.phase = "starting" THEN Starting ELSE Stopping)
  BY DEF Life!Plan, Starting, Stopping
<1> QED BY <1>1, <1>2, <1>3, PlansSound DEF Starting, Stopping

\* The process goes on with its plan: to the next step, or to what comes after it.
LEMMA GoesOnward ==
  ASSUME LifeInv, NEW phase \in {"serving", "stopped"}, Life!Onward(phase)
  PROVE  /\ process' \in Processes
         /\ process'.service = process.service
         /\ process'.at = (IF process.at < Len(Life!Plan) THEN process.at + 1 ELSE 1)
         /\ process'.phase = (IF process.at < Len(Life!Plan) THEN process.phase ELSE phase)
<1> DEFINE next == [process EXCEPT !.at = @ + 1]
           last == [process EXCEPT !.at = 1, !.phase = phase]
<1>1. /\ process \in Processes
  BY LifePlan
<1>2. process' = IF process.at < Len(Life!Plan) THEN next ELSE last BY DEF Life!Onward
<1>3. /\ next.service = process.service /\ next.mode = process.mode
      /\ next.at = process.at + 1 /\ next.phase = process.phase
  BY <1>1
<1>4. /\ last.service = process.service /\ last.mode = process.mode
      /\ last.at = 1 /\ last.phase = phase
  BY <1>1
<1>5. next \in Processes BY <1>1 DEF Processes
<1>6. last \in Processes BY <1>1 DEF Processes
<1> HIDE DEF next, last
<1> QED BY <1>2, <1>3, <1>4, <1>5, <1>6

LEMMA LifeInvInit == ASSUME Life!LifecycleAssumption PROVE Life!Init => LifeInv
<1> SUFFICES ASSUME Life!Init PROVE LifeInv OBVIOUS
<1>1. Life!TypeOK
  <2>1. process \in Processes
    BY DEF Life!Init, Processes
  <2> QED BY <2>1 DEF Life!Init, Life!TypeOK, Processes, Life!LifecycleAssumption
<1>2. /\ process.phase = "starting" /\ process.at = 1 /\ process.service \in Life!Services
      /\ open = {}
  BY DEF Life!Init
<1>3. Len(Starting) \in Nat \ {0} BY <1>2, PlansSound DEF PlanSound, Starting
<1>4. OpenInv BY <1>2, <1>3 DEF OpenInv, StartedOf
<1> QED BY <1>1, <1>2, <1>4 DEF LifeInv, BufferInv, PollersInv, Life!Init

LEMMA StartKeeps == ASSUME LifeInv, Life!Start PROVE LifeInv'
<1>1. /\ process.phase = "starting" /\ Life!Step = Starting[process.at] /\ Life!Plan = Starting
      /\ process.at \in 1..Len(Starting) /\ open = StartedOf(Starting, process.at - 1)
      /\ PlanSound(Starting, Stopping)
  BY LifePlan DEF Life!Start, Life!Under, Life!Step, LifeInv, OpenInv
<1>2. /\ process'.service = process.service
      /\ process'.at = (IF process.at < Len(Starting) THEN process.at + 1 ELSE 1)
      /\ process'.phase = (IF process.at < Len(Starting) THEN "starting" ELSE "serving")
  BY <1>1, GoesOnward DEF Life!Start
<1>3. Starting' = Starting /\ Stopping' = Stopping BY <1>2 DEF Starting, Stopping
<1>4. open' = StartedOf(Starting, process.at)
  BY <1>1 DEF Life!Start, Life!Handle, StartedOf
<1>5. OpenInv'
  <2>1. "recorder" \in open' => "pg" \in open'
    <3> SUFFICES ASSUME "recorder" \in open' PROVE "pg" \in open' OBVIOUS
    <3>1. PICK i \in 1..process.at : Starting[i] = "recorder" BY <1>4 DEF StartedOf
    <3>2. PICK j \in 1..(i - 1) : Starting[j] = "pg" BY <1>1, <3>1 DEF PlanSound
    <3> QED BY <1>1, <1>4, <3>1, <3>2 DEF StartedOf
  <2>2. CASE process.at < Len(Starting)
    <3>1. process'.at - 1 = process.at /\ process'.at \in 1..Len(Starting) BY <1>1, <1>2, <2>2
    <3> QED BY <1>2, <1>3, <1>4, <2>1, <2>2, <3>1 DEF OpenInv
  <2>3. CASE ~(process.at < Len(Starting))
    <3>1. process.at = Len(Starting) BY <1>1, <2>3
    <3>2. process'.phase = "serving" /\ process'.at = 1 BY <1>2, <2>3
    <3>3. open' = StoppedFrom(Stopping, 1) /\ 1 \in 1..Len(Stopping)
      BY <1>1, <1>4, <3>1 DEF PlanSound
    <3> QED BY <1>3, <2>1, <3>2, <3>3 DEF OpenInv
  <2> QED BY <2>2, <2>3
<1>6. BufferInv'
  <2>1. busy = {} /\ late = 0 /\ buffered = 0 /\ UNCHANGED <<busy, late, buffered>>
    BY <1>1 DEF LifeInv, BufferInv, Life!Start
  <2> QED BY <2>1 DEF BufferInv
<1>7. PollersInv'
  <2>1. open \subseteq open' BY DEF Life!Start
  <2>2. CASE Life!Step = "ingest"
    <3>1. "ingest" \in open' BY <2>2 DEF Life!Start, Life!Handle
    <3> QED BY <3>1 DEF PollersInv
  <2>3. CASE Life!Step # "ingest"
    <3>1. poller' = poller BY <2>3 DEF Life!Start
    <3> QED BY <2>1, <3>1 DEF LifeInv, PollersInv
  <2> QED BY <2>2, <2>3
<1>8. Life!TypeOK'
  <2>1. poller' \in [Skins -> {"none", "waiting", "polling", "dead"}]
    BY DEF Life!Start, LifeInv, Life!TypeOK
  <2> QED BY <1>1, <2>1, GoesOnward DEF Life!Start, LifeInv, Life!TypeOK, Processes
<1> QED BY <1>5, <1>6, <1>7, <1>8 DEF LifeInv

LEMMA StopKeeps == ASSUME LifeInv, Life!Stop PROVE LifeInv'
<1>1. /\ process.phase = "stopping" /\ Life!Step = Stopping[process.at] /\ Life!Plan = Stopping
      /\ process.at \in 1..Len(Stopping) /\ open = StoppedFrom(Stopping, process.at)
      /\ PlanSound(Starting, Stopping)
  BY LifePlan DEF Life!Stop, Life!Under, Life!Step, LifeInv, OpenInv
<1>2. /\ process'.service = process.service
      /\ process'.at = (IF process.at < Len(Stopping) THEN process.at + 1 ELSE 1)
      /\ process'.phase = (IF process.at < Len(Stopping) THEN "stopping" ELSE "stopped")
  BY <1>1, GoesOnward DEF Life!Stop
<1>3. Starting' = Starting /\ Stopping' = Stopping BY <1>2 DEF Starting, Stopping
<1>4. open' = open \ {Stopping[process.at]} BY <1>1 DEF Life!Stop
<1>5. open' = StoppedFrom(Stopping, process.at + 1)
  <2>1. \A i \in (process.at + 1)..Len(Stopping) : Stopping[i] # Stopping[process.at]
    BY <1>1 DEF PlanSound
  <2>2. \A i \in process.at..Len(Stopping) :
          i = process.at \/ i \in (process.at + 1)..Len(Stopping)
    BY <1>1 DEF PlanSound
  <2>3. \A i \in (process.at + 1)..Len(Stopping) : i \in process.at..Len(Stopping)
    BY <1>1 DEF PlanSound
  <2> QED BY <1>1, <1>4, <2>1, <2>2, <2>3 DEF StoppedFrom
<1>6. OpenInv'
  <2>1. "recorder" \in open' => "pg" \in open'
    <3> SUFFICES ASSUME "recorder" \in open' PROVE "pg" \in open' OBVIOUS
    <3>1. PICK i \in (process.at + 1)..Len(Stopping) : Stopping[i] = "recorder"
      BY <1>5 DEF StoppedFrom
    <3>2. PICK j \in (i + 1)..Len(Stopping) : Stopping[j] = "pg"
      BY <1>1, <3>1 DEF PlanSound
    <3> QED BY <1>1, <1>5, <3>1, <3>2 DEF StoppedFrom, PlanSound
  <2>2. CASE process.at < Len(Stopping)
    <3>1. process'.at = process.at + 1 /\ process'.at \in 1..Len(Stopping)
      BY <1>1, <1>2, <2>2 DEF PlanSound
    <3> QED BY <1>2, <1>3, <1>5, <2>1, <2>2, <3>1 DEF OpenInv
  <2>3. CASE ~(process.at < Len(Stopping))
    <3>1. \A i \in (process.at + 1)..Len(Stopping) : FALSE BY <1>1, <2>3 DEF PlanSound
    <3>2. open' = {} BY <1>5, <3>1 DEF StoppedFrom
    <3> QED BY <1>2, <2>3, <3>2 DEF OpenInv
  <2> QED BY <2>2, <2>3
<1>7. BufferInv'
  <2>1. /\ busy # {} => process.service = "gateway"
        /\ "recorder" \in open => late = 0
        /\ "recorder" \notin open => buffered = late
        /\ UNCHANGED <<busy, late>>
    BY DEF LifeInv, BufferInv, Life!Stop
  <2>2. process'.phase # "starting" BY <1>2
  <2>3. CASE Stopping[process.at] = "recorder"
    <3>1. buffered' = 0 /\ "recorder" \notin open' BY <1>1, <1>4, <2>3 DEF Life!Stop
    <3>2. late = 0
      <4>1. Stopping[process.at] \in open BY <1>1, <2>3 DEF StoppedFrom, PlanSound
      <4> QED BY <2>1, <2>3, <4>1
    <3> QED BY <1>2, <2>1, <2>2, <3>1, <3>2 DEF BufferInv
  <2>4. CASE Stopping[process.at] # "recorder"
    <3>1. buffered' = buffered /\ ("recorder" \in open' <=> "recorder" \in open)
      BY <1>1, <1>4, <2>4 DEF Life!Stop
    <3> QED BY <1>2, <2>1, <2>2, <3>1 DEF BufferInv
  <2> QED BY <2>3, <2>4
<1>8. PollersInv'
  <2>1. CASE Stopping[process.at] = "ingest"
    <3>1. poller' = [s \in Skins |-> "none"] BY <1>1, <2>1 DEF Life!Stop
    <3> QED BY <3>1 DEF PollersInv
  <2>2. CASE Stopping[process.at] # "ingest"
    <3>1. poller' = poller /\ ("ingest" \in open' <=> "ingest" \in open)
      BY <1>1, <1>4, <2>2 DEF Life!Stop
    <3> QED BY <3>1 DEF LifeInv, PollersInv
  <2> QED BY <2>1, <2>2
<1>9. Life!TypeOK'
  <2>1. poller' \in [Skins -> {"none", "waiting", "polling", "dead"}] /\ buffered' \in Nat
    BY DEF Life!Stop, LifeInv, Life!TypeOK
  <2> QED BY <1>1, <2>1, GoesOnward DEF Life!Stop, LifeInv, Life!TypeOK, Processes
<1> QED BY <1>6, <1>7, <1>8, <1>9 DEF LifeInv

LEMMA LifeInvNext ==
  ASSUME Life!LifecycleAssumption PROVE LifeInv /\ [Life!Next]_Life!lifecycleVars => LifeInv'
<1> SUFFICES ASSUME LifeInv, [Life!Next]_Life!lifecycleVars PROVE LifeInv' OBVIOUS
<1>1. CASE Life!Start BY <1>1, StartKeeps
<1>2. CASE Life!Stop BY <1>2, StopKeeps
<1>3. ASSUME Life!Fail, UNCHANGED <<open, poller, busy, buffered, events, late>> PROVE LifeInv'
  <2>1. /\ process'.phase = "failed" /\ process'.service = process.service
        /\ process' \in Processes
    BY <1>3, LifePlan DEF Life!Fail, Processes
  <2> QED BY <1>3, <2>1 DEF LifeInv, Life!TypeOK, Processes, OpenInv, BufferInv, PollersInv
<1>4. CASE Life!StartFails \/ Life!StopFails
  BY <1>3, <1>4 DEF Life!StartFails, Life!StopFails
<1>5. CASE Life!Terminate
  <2>1. /\ process.phase = "serving" /\ process'.phase = "stopping"
        /\ process'.service = process.service /\ process'.at = process.at
        /\ process' \in Processes
        /\ UNCHANGED <<open, poller, busy, buffered, events, late>>
    BY <1>5, LifePlan DEF Life!Terminate, Processes
  <2>2. Stopping' = Stopping BY <2>1 DEF Stopping
  <2> QED BY <2>1, <2>2 DEF LifeInv, Life!TypeOK, Processes, OpenInv, BufferInv, PollersInv
<1>6. CASE Life!Flush
  <2>1. /\ "recorder" \in open /\ buffered' = 0 /\ process.phase # "starting"
        /\ UNCHANGED <<process, open, poller, busy, events, late>>
    BY <1>6 DEF Life!Flush
  <2>2. Starting' = Starting /\ Stopping' = Stopping BY <2>1 DEF Starting, Stopping
  <2> QED BY <2>1, <2>2 DEF LifeInv, Life!TypeOK, OpenInv, BufferInv, PollersInv
<1>7. ASSUME NEW s \in Skins, Life!TakeTurn(s) \/ Life!PollerFails(s) PROVE LifeInv'
  <2>1. PICK state \in {"polling", "dead"} : poller' = [poller EXCEPT ![s] = state]
    BY <1>7 DEF Life!TakeTurn, Life!PollerFails
  <2>2. /\ poller[s] # "none" /\ UNCHANGED <<process, open, busy, buffered, events, late>>
    BY <1>7 DEF Life!TakeTurn, Life!PollerFails
  <2>3. Starting' = Starting /\ Stopping' = Stopping BY <2>2 DEF Starting, Stopping
  <2>4. poller' \in [Skins -> {"none", "waiting", "polling", "dead"}]
    BY <2>1 DEF LifeInv, Life!TypeOK
  <2>5. \A t \in Skins : poller'[t] # "none" => poller[t] # "none"
    BY <2>1, <2>2 DEF LifeInv, Life!TypeOK
  <2> QED BY <2>2, <2>3, <2>4, <2>5 DEF LifeInv, Life!TypeOK, OpenInv, BufferInv, PollersInv
<1>8. ASSUME NEW h \in Handlers, Life!Arrive(h) PROVE LifeInv'
  <2>1. /\ process.service = "gateway" /\ process.phase = "serving" /\ busy' = busy \cup {h}
        /\ UNCHANGED <<process, open, poller, buffered, events, late>>
    BY <1>8 DEF Life!Arrive
  <2>2. Starting' = Starting /\ Stopping' = Stopping BY <2>1 DEF Starting, Stopping
  <2> QED BY <2>1, <2>2 DEF LifeInv, Life!TypeOK, OpenInv, BufferInv, PollersInv
<1>9. ASSUME NEW h \in Handlers, Life!Record(h) PROVE LifeInv'
  <2>1. /\ busy # {} /\ events < MaxEvents /\ events' = events + 1 /\ buffered' = buffered + 1
        /\ process.phase \in {"serving", "stopping"}
        /\ late' = (IF "recorder" \in open THEN late ELSE late + 1)
        /\ UNCHANGED <<process, open, poller, busy>>
    BY <1>9 DEF Life!Record, LifeInv, Life!TypeOK
  <2>2. Starting' = Starting /\ Stopping' = Stopping BY <2>1 DEF Starting, Stopping
  <2>3. buffered \in Nat /\ late \in Nat /\ events \in 0..MaxEvents BY DEF LifeInv, Life!TypeOK
  <2>4. events' \in 0..MaxEvents BY <2>1, <2>3 DEF Life!LifecycleAssumption
  <2> QED BY <2>1, <2>2, <2>3, <2>4 DEF LifeInv, Life!TypeOK, OpenInv, BufferInv, PollersInv
<1>10. ASSUME NEW h \in Handlers, Life!Leave(h) PROVE LifeInv'
  <2>1. busy' = busy \ {h} /\ UNCHANGED <<process, open, poller, buffered, events, late>>
    BY <1>10 DEF Life!Leave
  <2>2. Starting' = Starting /\ Stopping' = Stopping BY <2>1 DEF Starting, Stopping
  <2> QED BY <2>1, <2>2 DEF LifeInv, Life!TypeOK, OpenInv, BufferInv, PollersInv
<1>11. CASE UNCHANGED Life!lifecycleVars
  <2>1. UNCHANGED <<process, open, poller, busy, buffered, events, late>>
    BY <1>11 DEF Life!lifecycleVars
  <2>2. Starting' = Starting /\ Stopping' = Stopping BY <2>1 DEF Starting, Stopping
  <2> QED BY <2>1, <2>2 DEF LifeInv, Life!TypeOK, OpenInv, BufferInv, PollersInv
<1> QED BY <1>1, <1>2, <1>4, <1>5, <1>6, <1>7, <1>8, <1>9, <1>10, <1>11 DEF Life!Next

\* With any skins, handlers and number of events, whichever service it is and
\* wherever a step of it raises: nothing is used before it is up or after it is
\* down, updates are handled by a whole process, and one that stopped left nothing
\* open and no event behind but those recorded after the last flush.
THEOREM LivesWhole ==
  ASSUME Life!LifecycleAssumption PROVE Life!Spec => []Life!LifecycleHolds
<1>1. LifeInv => Life!LifecycleHolds
  <2> SUFFICES ASSUME LifeInv PROVE Life!LifecycleHolds OBVIOUS
  <2>1. /\ OpenInv /\ BufferInv /\ PollersInv /\ PlanSound(Starting, Stopping)
    BY LifePlan DEF LifeInv
  <2>2. ASSUME process.phase = "starting" PROVE Life!Needs \subseteq open
    <3>1. /\ process.at \in 1..Len(Starting) /\ Life!Step = Starting[process.at]
          /\ open = StartedOf(Starting, process.at - 1)
      BY <2>1, <2>2, LifePlan DEF OpenInv, Life!Step
    <3>2. Life!Step = "listener" => "cache" \in open BY <2>1, <3>1 DEF PlanSound, StartedOf
    <3>3. Life!Step \in {"names", "ingest"} => "bots" \in open
      BY <2>1, <3>1 DEF PlanSound, StartedOf
    <3> QED BY <2>1, <2>2, <3>2, <3>3 DEF Life!Needs, OpenInv
  <2>3. ASSUME process.phase = "stopping" PROVE Life!Needs \subseteq open
    <3>1. /\ process.at \in 1..Len(Stopping) /\ Life!Step = Stopping[process.at]
          /\ open = StoppedFrom(Stopping, process.at)
      BY <2>1, <2>3, LifePlan DEF OpenInv, Life!Step
    <3>2. Life!Step = "listener" => "cache" \in open
      <4> SUFFICES ASSUME Life!Step = "listener" PROVE "cache" \in open OBVIOUS
      <4>1. PICK j \in (process.at + 1)..Len(Stopping) : Stopping[j] = "cache"
        BY <2>1, <3>1 DEF PlanSound
      <4> QED BY <2>1, <3>1, <4>1 DEF PlanSound, StoppedFrom
    <3> QED BY <2>1, <2>3, <3>2 DEF Life!Needs, OpenInv
  <2>4. Life!NeedsMet BY <2>1, <2>2, <2>3 DEF Life!NeedsMet, Life!Needs, OpenInv
  <2>5. Life!StoppedClean BY <2>1 DEF Life!StoppedClean, OpenInv, BufferInv, PollersInv
  <2>6. Life!ServedWhole
    BY <2>1, LifePlan DEF Life!ServedWhole, OpenInv, BufferInv, PlanSound
  <2> QED BY <2>4, <2>5, <2>6 DEF Life!LifecycleHolds
<1> QED BY <1>1, LifeInvInit, LifeInvNext, PTL DEF Life!Spec

-----------------------------------------------------------------------------
(* Console.                                                                *)
(*                                                                         *)
(* Contents of the rows are only ever added, so what a request has read or *)
(* written, and what was quoted of it, stays where it was found.           *)
CONSTANTS People, Columns, Rules, Values, Default, Requests, MaxWrites
VARIABLES versions, request, trail, lost, silent

Consoles == INSTANCE Console

Changes == Consoles!Patches \cup Consoles!Texts
Asked ==
  [at : {"before", "glance", "write", "after", "record"}, who : People, how : {"patch", "text", "menu"},
   change : Changes, before : Consoles!Settings, mine : Nat, after : Consoles!Settings,
   doubt : SUBSET {"before", "after"}]

ConsoleTyped ==
  /\ versions \in Seq(Consoles!Settings) /\ Len(versions) >= 1
  /\ request \in [Requests -> {Consoles!Idle} \cup Asked]

\* The request q made the content vs[q.mine] of the one before it.
Wrote(q, vs) ==
  /\ q.mine \in 2..Len(vs)
  /\ \A f \in Consoles!Fields :
       vs[q.mine][f] = IF f \in DOMAIN q.change THEN q.change[f] ELSE vs[q.mine - 1][f]

RequestSound(q, vs) ==
  /\ DOMAIN q.change \subseteq (IF q.how = "text" THEN {Rules} ELSE Columns)
  /\ "before" \notin q.doubt => \E i \in 1..Len(vs) : q.before = vs[i]
  /\ q.at \in {"after", "record"} => Wrote(q, vs)
  /\ q.at = "after" => q.how # "text"
  /\ q.how = "text" \/ q.at # "record" => "after" \notin q.doubt
  /\ q.at = "record" /\ q.how # "text" /\ "after" \notin q.doubt =>
       \E i \in q.mine..Len(vs) : q.after = vs[i]

RowSound(r, vs) ==
  /\ r.mine \in Nat \ {0}
  /\ "after" \notin r.doubt =>
       \E i \in r.mine..Len(vs) : r.after = Consoles!On(vs[i], DOMAIN r.after)
  /\ "before" \notin r.doubt =>
       \E i \in 1..Len(vs) : r.before = Consoles!On(vs[i], DOMAIN r.before)

SilentSound(s, vs) ==
  /\ s.mine \in 2..Len(vs)
  /\ s.doubt = {} => \/ vs[s.mine] = vs[s.mine - 1]
                     \/ s.before # vs[s.mine - 1] \/ s.after # vs[s.mine]

ConsoleInv ==
  /\ ConsoleTyped
  /\ \A t \in Requests : request[t] # Consoles!Idle => RequestSound(request[t], versions)
  /\ \A r \in trail : RowSound(r, versions)
  /\ \A s \in silent : SilentSound(s, versions)

\* ws is vs, or goes on where vs ends.
GrownTo(vs, ws) ==
  /\ ws \in Seq(Consoles!Settings) /\ Len(vs) <= Len(ws)
  /\ \A i \in 1..Len(vs) : ws[i] = vs[i]

LEMMA SoundForGood ==
  ASSUME NEW vs \in Seq(Consoles!Settings), NEW ws, GrownTo(vs, ws)
  PROVE  /\ \A q \in Asked : RequestSound(q, vs) => RequestSound(q, ws)
         /\ \A r : RowSound(r, vs) => RowSound(r, ws)
         /\ \A s : SilentSound(s, vs) => SilentSound(s, ws)
<1>1. /\ Len(vs) \in Nat /\ Len(ws) \in Nat /\ Len(vs) <= Len(ws)
      /\ \A i \in 1..Len(vs) : i \in 1..Len(ws) /\ ws[i] = vs[i]
  BY DEF GrownTo
<1>2. ASSUME NEW q \in Asked, RequestSound(q, vs) PROVE RequestSound(q, ws)
  <2>1. q.mine \in Nat BY DEF Asked
  <2>2. Wrote(q, vs) => Wrote(q, ws)
    <3> SUFFICES ASSUME Wrote(q, vs) PROVE Wrote(q, ws) OBVIOUS
    <3>1. q.mine \in 2..Len(vs) /\ q.mine \in 1..Len(vs) /\ q.mine - 1 \in 1..Len(vs)
      BY <1>1, <2>1 DEF Wrote
    <3>2. ws[q.mine] = vs[q.mine] /\ ws[q.mine - 1] = vs[q.mine - 1] BY <1>1, <3>1
    <3>3. q.mine \in 2..Len(ws) BY <1>1, <2>1, <3>1
    <3> QED BY <3>2, <3>3 DEF Wrote
  <2>3. (\E i \in 1..Len(vs) : q.before = vs[i]) => \E i \in 1..Len(ws) : q.before = ws[i]
    BY <1>1
  <2>4. q.at = "record" /\ q.how # "text" /\ "after" \notin q.doubt =>
          \E i \in q.mine..Len(ws) : q.after = ws[i]
    <3> SUFFICES ASSUME q.at = "record", q.how # "text", "after" \notin q.doubt
                 PROVE \E i \in q.mine..Len(ws) : q.after = ws[i]
      OBVIOUS
    <3>1. PICK i \in q.mine..Len(vs) : q.after = vs[i] BY <1>2 DEF RequestSound
    <3>2. q.mine >= 2 BY <1>2 DEF RequestSound, Wrote
    <3>3. i \in 1..Len(vs) /\ i \in q.mine..Len(ws) BY <1>1, <2>1, <3>1, <3>2
    <3> QED BY <1>1, <3>1, <3>3
  <2> QED BY <1>2, <2>2, <2>3, <2>4 DEF RequestSound
<1>3. ASSUME NEW r, RowSound(r, vs) PROVE RowSound(r, ws)
  <2>1. r.mine \in Nat \ {0} BY <1>3 DEF RowSound
  <2>2. ASSUME NEW i \in r.mine..Len(vs) PROVE i \in r.mine..Len(ws) /\ ws[i] = vs[i]
    BY <1>1, <2>1
  <2>3. ASSUME NEW j \in 1..Len(vs) PROVE j \in 1..Len(ws) /\ ws[j] = vs[j] BY <1>1
  <2> QED BY <1>3, <2>1, <2>2, <2>3 DEF RowSound
<1>4. ASSUME NEW s, SilentSound(s, vs) PROVE SilentSound(s, ws)
  <2>1. s.mine \in 2..Len(vs) BY <1>4 DEF SilentSound
  <2>2. s.mine \in 2..Len(ws) /\ ws[s.mine] = vs[s.mine] /\ ws[s.mine - 1] = vs[s.mine - 1]
    BY <1>1, <2>1
  <2> QED BY <1>4, <2>2 DEF SilentSound
<1> QED BY <1>2, <1>3, <1>4

\* One request goes on, perhaps with a new content of the rows, a row in the
\* trail or a silence.
ComesTo(t, q) ==
  /\ request' = [request EXCEPT ![t] = q]
  /\ q \in {Consoles!Idle} \cup Asked
  /\ q # Consoles!Idle => RequestSound(q, versions')
  /\ GrownTo(versions, versions')
  /\ \A r \in trail' : r \in trail \/ RowSound(r, versions')
  /\ \A s \in silent' : s \in silent \/ SilentSound(s, versions')

LEMMA RequestComesTo ==
  ASSUME ConsoleInv, NEW t \in Requests, NEW q, ComesTo(t, q) PROVE ConsoleInv'
<1>1. /\ versions \in Seq(Consoles!Settings) /\ Len(versions) >= 1 /\ Len(versions) \in Nat
      /\ request \in [Requests -> {Consoles!Idle} \cup Asked]
  BY DEF ConsoleInv, ConsoleTyped
<1>2. GrownTo(versions, versions') BY DEF ComesTo
<1>3. versions' \in Seq(Consoles!Settings) /\ Len(versions') >= 1
  BY <1>1, <1>2 DEF GrownTo
<1>4. /\ \A p \in Asked : RequestSound(p, versions) => RequestSound(p, versions')
      /\ \A r : RowSound(r, versions) => RowSound(r, versions')
      /\ \A s : SilentSound(s, versions) => SilentSound(s, versions')
  BY <1>1, <1>2, SoundForGood
<1>5. /\ request' \in [Requests -> {Consoles!Idle} \cup Asked]
      /\ \A u \in Requests : request'[u] = IF u = t THEN q ELSE request[u]
  BY <1>1 DEF ComesTo
<1>6. ASSUME NEW u \in Requests, request'[u] # Consoles!Idle
      PROVE  RequestSound(request'[u], versions')
  <2>1. CASE u = t BY <1>5, <1>6, <2>1 DEF ComesTo
  <2>2. CASE u # t
    <3>1. request'[u] = request[u] /\ request[u] \in Asked BY <1>1, <1>5, <1>6, <2>2
    <3>2. RequestSound(request[u], versions) BY <1>6, <3>1 DEF ConsoleInv
    <3> QED BY <1>4, <3>1, <3>2
  <2> QED BY <2>1, <2>2
<1>7. \A r \in trail' : RowSound(r, versions') BY <1>4 DEF ComesTo, ConsoleInv
<1>8. \A s \in silent' : SilentSound(s, versions') BY <1>4 DEF ComesTo, ConsoleInv
<1> QED BY <1>3, <1>5, <1>6, <1>7, <1>8 DEF ConsoleInv, ConsoleTyped, ComesTo

LEMMA ConsoleInvInit == ASSUME Consoles!ConsoleAssumption PROVE Consoles!Init => ConsoleInv
<1> SUFFICES ASSUME Consoles!Init PROVE ConsoleInv OBVIOUS
<1> DEFINE row == Consoles!Unread
<1>1. row \in Consoles!Settings
  BY DEF Consoles!Settings, Consoles!Unread, Consoles!ConsoleAssumption
<1> HIDE DEF row
<1>2. versions = <<row>> BY DEF Consoles!Init, row
<1>3. versions \in Seq(Consoles!Settings) /\ Len(versions) >= 1 BY <1>1, <1>2
<1> QED BY <1>3 DEF Consoles!Init, ConsoleInv, ConsoleTyped

\* What a request that is served looks like.
LEMMA ServedIsAsked ==
  ASSUME ConsoleInv, NEW t \in Requests, request[t] # Consoles!Idle
  PROVE  /\ request[t] \in Asked /\ RequestSound(request[t], versions)
         /\ \E D : request[t].change \in [D -> Values]
         /\ versions \in Seq(Consoles!Settings) /\ Len(versions) \in Nat \ {0}
         /\ Consoles!Now \in Consoles!Settings
         /\ \A i \in 1..Len(versions) : versions[i] \in Consoles!Settings
         /\ GrownTo(versions, versions)
<1>1. request[t] \in Asked /\ RequestSound(request[t], versions)
  BY DEF ConsoleInv, ConsoleTyped
<1>2. request[t].change \in Changes BY <1>1 DEF Asked
<1>3. \E D : request[t].change \in [D -> Values]
  BY <1>2 DEF Changes, Consoles!Patches, Consoles!Texts
<1>4. versions \in Seq(Consoles!Settings) /\ Len(versions) \in Nat \ {0}
  BY DEF ConsoleInv, ConsoleTyped
<1>5. \A i \in 1..Len(versions) : versions[i] \in Consoles!Settings BY <1>4
<1>6. Consoles!Now \in Consoles!Settings BY <1>4 DEF Consoles!Now
<1> QED BY <1>1, <1>3, <1>4, <1>5, <1>6 DEF GrownTo

LEMMA BeginKeeps ==
  ASSUME ConsoleInv, NEW t \in Requests, NEW who \in People,
         NEW how \in {"patch", "text", "menu"}, NEW change \in Changes,
         DOMAIN change \subseteq (IF how = "text" THEN {Rules} ELSE Columns),
         NEW stage \in {"before", "glance"}, Consoles!Begin(t, who, how, change, stage)
  PROVE  ConsoleInv'
<1> DEFINE q == [at |-> stage, who |-> who, how |-> how, change |-> change,
                 before |-> versions[1], mine |-> 0, after |-> versions[1], doubt |-> {}]
<1>1. versions \in Seq(Consoles!Settings) /\ Len(versions) \in Nat \ {0}
  BY DEF ConsoleInv, ConsoleTyped
<1>2. versions[1] \in Consoles!Settings BY <1>1
<1>3. q \in Asked BY <1>2 DEF Asked
<1>4. RequestSound(q, versions)
  <2>1. 1 \in 1..Len(versions) /\ q.before = versions[1] BY <1>1
  <2> QED BY <2>1 DEF RequestSound
<1>5. request' = [request EXCEPT ![t] = q] BY DEF Consoles!Begin
<1> HIDE DEF q
<1>6. UNCHANGED <<versions, trail, silent>> BY DEF Consoles!Begin
<1>7. GrownTo(versions, versions') BY <1>1, <1>6 DEF GrownTo
<1>8. ComesTo(t, q)
  BY <1>3, <1>4, <1>5, <1>6, <1>7 DEF ComesTo, ConsoleInv, ConsoleTyped
<1> QED BY <1>8, RequestComesTo

LEMMA WriteKeeps ==
  ASSUME ConsoleInv, NEW t \in Requests, Consoles!Write(t) PROVE ConsoleInv'
<1> DEFINE old == request[t]
           row == [f \in Consoles!Fields |->
                     IF f \in DOMAIN old.change THEN old.change[f] ELSE Consoles!Now[f]]
           q == [old EXCEPT !.at = IF old.how = "text" THEN "record" ELSE "after",
                            !.mine = Len(versions) + 1]
<1>1. old # Consoles!Idle /\ old.at = "write" BY DEF Consoles!Write, Consoles!Idle
<1>2. /\ old \in Asked /\ RequestSound(old, versions) /\ versions \in Seq(Consoles!Settings)
      /\ Len(versions) \in Nat \ {0} /\ Consoles!Now \in Consoles!Settings
      /\ \E D : old.change \in [D -> Values]
  BY <1>1, ServedIsAsked
<1>3. row \in Consoles!Settings BY <1>2 DEF Consoles!Settings
<1>4. /\ versions' = Append(versions, row) /\ request' = [request EXCEPT ![t] = q]
      /\ UNCHANGED <<trail, silent>>
  BY DEF Consoles!Write, Consoles!Goes
<1>5. /\ q \in Asked /\ q.at \in {"record", "after"} /\ (q.at = "after" => q.how # "text")
      /\ (q.how # "text" => q.at = "after")
      /\ q.mine = Len(versions) + 1 /\ q.how = old.how /\ q.change = old.change
      /\ q.before = old.before /\ q.doubt = old.doubt
  <2> DEFINE at1 == IF old.how = "text" THEN "record" ELSE "after"
             mine1 == Len(versions) + 1
             p == [old EXCEPT !.at = at1]
  <2>1. mine1 \in Nat /\ at1 \in {"record", "after"} BY <1>2
  <2>2. /\ p \in Asked /\ p.at = at1 /\ p.how = old.how /\ p.change = old.change
        /\ p.before = old.before /\ p.doubt = old.doubt
    BY <1>2, <2>1 DEF Asked
  <2>3. q = [p EXCEPT !.mine = mine1] OBVIOUS
  <2> HIDE DEF p, q, old
  <2>4. /\ q \in Asked /\ q.mine = mine1 /\ q.at = p.at /\ q.how = p.how /\ q.change = p.change
        /\ q.before = p.before /\ q.doubt = p.doubt
    BY <2>1, <2>2, <2>3 DEF Asked
  <2> QED BY <2>1, <2>2, <2>4
<1> HIDE DEF q, old
<1>6. /\ versions' \in Seq(Consoles!Settings) /\ Len(versions') = Len(versions) + 1
      /\ \A i \in 1..Len(versions) : versions'[i] = versions[i]
      /\ versions'[Len(versions) + 1] = row
  <2> HIDE DEF row
  <2> QED BY <1>2, <1>3, <1>4
<1>7. GrownTo(versions, versions') BY <1>2, <1>6 DEF GrownTo
<1>8. Wrote(q, versions')
  <2>1. q.mine \in 2..Len(versions') /\ q.mine - 1 = Len(versions) BY <1>2, <1>5, <1>6
  <2>2. versions'[q.mine] = row /\ versions'[q.mine - 1] = Consoles!Now
    <3> HIDE DEF row
    <3> QED BY <1>2, <1>5, <1>6, <2>1 DEF Consoles!Now
  <2> QED BY <1>5, <2>1, <2>2 DEF Wrote
<1>9. RequestSound(q, versions')
  <2>1. "before" \notin q.doubt => \E i \in 1..Len(versions') : q.before = versions'[i]
    <3> SUFFICES ASSUME "before" \notin q.doubt
                 PROVE  \E i \in 1..Len(versions') : q.before = versions'[i]
      OBVIOUS
    <3>1. PICK i \in 1..Len(versions) : old.before = versions[i]
      BY <1>2, <1>5 DEF RequestSound
    <3>2. i \in 1..Len(versions') BY <1>2, <1>6, <3>1
    <3> QED BY <1>5, <1>6, <3>1, <3>2
  <2> QED BY <1>1, <1>2, <1>5, <1>8, <2>1 DEF RequestSound
<1>10. ComesTo(t, q)
  BY <1>4, <1>5, <1>7, <1>9 DEF ComesTo, ConsoleInv, ConsoleTyped
<1> QED BY <1>10, RequestComesTo

LEMMA RecordKeeps ==
  ASSUME ConsoleInv, Consoles!ConsoleAssumption, NEW t \in Requests, Consoles!Record(t)
  PROVE  ConsoleInv'
<1> DEFINE q == request[t]
<1>1. q # Consoles!Idle /\ q.at = "record" BY DEF Consoles!Record, Consoles!Idle
<1>2. /\ q \in Asked /\ RequestSound(q, versions) /\ versions \in Seq(Consoles!Settings)
      /\ Len(versions) \in Nat \ {0} /\ GrownTo(versions, versions)
      /\ \A i \in 1..Len(versions) : versions[i] \in Consoles!Settings
      /\ \E D : q.change \in [D -> Values]
  BY <1>1, ServedIsAsked
<1> HIDE DEF q
<1>3. /\ Wrote(q, versions) /\ q.mine \in 2..Len(versions)
      /\ q.mine \in 1..Len(versions) /\ q.mine - 1 \in 1..Len(versions)
      /\ q.how \in {"patch", "text", "menu"}
  BY <1>1, <1>2 DEF RequestSound, Wrote, Asked
<1>4. UNCHANGED versions /\ request' = [request EXCEPT ![t] = Consoles!Idle]
  BY DEF Consoles!Record, Consoles!Goes
<1>5. RowSound(Consoles!RowOf(q), versions)
  <2> DEFINE r == Consoles!RowOf(q)
             S == Consoles!Changed(q)
  <2>1. /\ r.mine = q.mine /\ r.doubt = q.doubt /\ r.before = Consoles!On(q.before, S)
        /\ r.after = (IF q.how = "text" THEN q.change ELSE Consoles!On(q.after, S))
    BY DEF Consoles!RowOf
  <2> SUFFICES RowSound(r, versions) OBVIOUS
  <2> HIDE DEF r, S
  <2>2. \A row : DOMAIN Consoles!On(row, S) = S BY DEF Consoles!On, Consoles!Restrict
  <2>3. ASSUME "before" \notin q.doubt
        PROVE  \E i \in 1..Len(versions) : r.before = Consoles!On(versions[i], DOMAIN r.before)
    <3>1. PICK i \in 1..Len(versions) : q.before = versions[i] BY <1>2, <2>3 DEF RequestSound
    <3>2. r.before = Consoles!On(versions[i], DOMAIN r.before) BY <2>1, <2>2, <3>1
    <3> QED BY <3>2
  <2> SUFFICES ASSUME "after" \notin q.doubt
               PROVE  \E i \in q.mine..Len(versions) :
                        r.after = Consoles!On(versions[i], DOMAIN r.after)
    BY <1>3, <2>1, <2>3 DEF RowSound
  <2>5. CASE q.how = "text"
    <3>1. q.change = Consoles!On(versions[q.mine], DOMAIN q.change)
      <4>1. DOMAIN q.change \subseteq Consoles!Fields
        BY <1>2, <2>5 DEF RequestSound, Consoles!Fields
      <4>2. \A f \in DOMAIN q.change : versions[q.mine][f] = q.change[f]
        BY <1>3, <4>1 DEF Wrote
      <4>3. q.change = [f \in DOMAIN q.change |-> q.change[f]] BY <1>2
      <4> QED BY <4>2, <4>3 DEF Consoles!On, Consoles!Restrict
    <3>2. q.mine \in q.mine..Len(versions) BY <1>2, <1>3
    <3> QED BY <2>1, <2>5, <3>1, <3>2
  <2>6. CASE q.how # "text"
    <3>1. PICK j \in q.mine..Len(versions) : q.after = versions[j]
      BY <1>1, <1>2, <2>6 DEF RequestSound
    <3> QED BY <2>1, <2>2, <2>6, <3>1
  <2> QED BY <2>5, <2>6
<1>6. ASSUME Consoles!Changed(q) = {},
             NEW s, s = [mine |-> q.mine, change |-> q.change, before |-> q.before,
                         after |-> q.after, doubt |-> q.doubt]
      PROVE  SilentSound(s, versions)
  <2>1. s.mine = q.mine /\ s.before = q.before /\ s.after = q.after BY <1>6
  <2> SUFFICES ASSUME q.before = versions[q.mine - 1], q.after = versions[q.mine]
               PROVE  versions[q.mine] = versions[q.mine - 1]
    BY <1>3, <2>1 DEF SilentSound
  <2>2. q.how # "text" BY <1>6 DEF Consoles!Changed
  <2>3. \A f \in DOMAIN q.change : f \in Columns /\ q.before[f] = q.after[f]
    <3>1. DOMAIN q.change \subseteq Columns BY <1>2, <2>2 DEF RequestSound
    <3>2. CASE q.how = "menu" BY <1>6, <3>1, <3>2 DEF Consoles!Changed
    <3>3. CASE q.how = "patch" BY <1>6, <3>1, <3>3 DEF Consoles!Changed
    <3> QED BY <1>3, <2>2, <3>2, <3>3
  <2>4. \A f \in Consoles!Fields : versions[q.mine][f] = versions[q.mine - 1][f]
    BY <1>3, <2>3 DEF Wrote
  <2>5. /\ versions[q.mine] \in [Consoles!Fields -> Values]
        /\ versions[q.mine - 1] \in [Consoles!Fields -> Values]
    BY <1>2, <1>3 DEF Consoles!Settings
  <2> QED BY <2>4, <2>5
<1>7. \A r \in trail' : r \in trail \/ RowSound(r, versions)
  BY <1>5 DEF Consoles!Record, q
<1>8. \A s \in silent' : s \in silent \/ SilentSound(s, versions)
  BY <1>6 DEF Consoles!Record, q
<1>9. ComesTo(t, Consoles!Idle)
  BY <1>2, <1>4, <1>7, <1>8 DEF ComesTo, ConsoleInv, ConsoleTyped
<1> QED BY <1>9, RequestComesTo

\* A request that has read: its record is another, and nothing else changes.
LEMMA ReadKeeps ==
  ASSUME ConsoleInv, NEW t \in Requests, request[t] # Consoles!Idle, NEW q \in Asked,
         request' = [request EXCEPT ![t] = q], RequestSound(q, versions),
         UNCHANGED <<versions, trail, lost, silent>>
  PROVE  ConsoleInv'
<1>1. ComesTo(t, q) BY ServedIsAsked DEF ComesTo, ConsoleInv, ConsoleTyped
<1> QED BY <1>1, RequestComesTo

LEMMA CachedRows ==
  ASSUME ConsoleInv, Consoles!ConsoleAssumption, NEW read \in Consoles!CachedReads
  PROVE  /\ read.row \in Consoles!Settings /\ read.misread \in BOOLEAN
         /\ ~read.misread => \E i \in 1..Len(versions) : read.row = versions[i]
<1>1. versions \in Seq(Consoles!Settings) BY DEF ConsoleInv, ConsoleTyped
<1>2. /\ DOMAIN versions = 1..Len(versions)
      /\ \A i \in 1..Len(versions) : versions[i] \in Consoles!Settings
  BY <1>1
<1> DEFINE default == Consoles!Unread
<1>3. default \in Consoles!Settings
  BY DEF Consoles!Settings, Consoles!Unread, Consoles!ConsoleAssumption
<1>4. read \in {[row |-> versions[i], misread |-> FALSE] : i \in 1..Len(versions)}
                 \cup {[row |-> default, misread |-> TRUE]}
  BY <1>2 DEF Consoles!CachedReads
<1> HIDE DEF default
<1>5. CASE read \in {[row |-> versions[i], misread |-> FALSE] : i \in 1..Len(versions)}
  <2>1. PICK i \in 1..Len(versions) : read = [row |-> versions[i], misread |-> FALSE] BY <1>5
  <2>2. read.row = versions[i] /\ read.misread = FALSE BY <2>1
  <2> QED BY <1>2, <2>2
<1>6. CASE read = [row |-> default, misread |-> TRUE] BY <1>3, <1>6
<1> QED BY <1>4, <1>5, <1>6

LEMMA ReadBeforeKeeps ==
  ASSUME ConsoleInv, Consoles!ConsoleAssumption, NEW t \in Requests, Consoles!ReadBefore(t)
  PROVE  ConsoleInv'
<1> DEFINE old == request[t]
           one == [old EXCEPT !.at = "write"]
<1>1. old.at = "before" /\ UNCHANGED <<versions, trail, lost, silent>>
  BY DEF Consoles!ReadBefore
<1>2. old # Consoles!Idle BY <1>1 DEF Consoles!Idle
<1>3. /\ old \in Asked /\ RequestSound(old, versions) /\ Consoles!Now \in Consoles!Settings
      /\ Len(versions) \in Nat \ {0}
  BY <1>2, ServedIsAsked
<1>4. /\ one \in Asked /\ one.at = "write" /\ one.how = old.how /\ one.change = old.change
      /\ one.doubt = old.doubt
  BY <1>3 DEF Asked
<1>5. CASE old.how = "text"
  <2> DEFINE q == [one EXCEPT !.before = Consoles!Now]
  <2>1. Consoles!Goes(t, [request[t] EXCEPT !.at = "write", !.before = Consoles!Now])
    BY <1>5 DEF Consoles!ReadBefore
  <2>2. request' = [request EXCEPT ![t] = q] BY <2>1 DEF Consoles!Goes
  <2>3. /\ q \in Asked /\ q.at = "write" /\ q.how = old.how /\ q.change = old.change
        /\ q.before = Consoles!Now /\ q.doubt = old.doubt
    <3> HIDE DEF one
    <3> QED BY <1>3, <1>4 DEF Asked
  <2> HIDE DEF q
  <2>4. Len(versions) \in 1..Len(versions) /\ Consoles!Now = versions[Len(versions)]
    BY <1>3 DEF Consoles!Now
  <2>5. RequestSound(q, versions)
    <3> HIDE DEF old
    <3> QED BY <1>1, <1>3, <2>3, <2>4 DEF RequestSound
  <2> QED BY <1>1, <1>2, <2>2, <2>3, <2>5, ReadKeeps
<1>6. CASE old.how # "text"
  <2>1. PICK read \in Consoles!CachedReads :
          Consoles!Goes(t, [request[t] EXCEPT !.at = "write", !.before = read.row,
                                              !.doubt = IF read.misread THEN {"before"} ELSE {}])
    BY <1>6 DEF Consoles!ReadBefore
  <2> DEFINE two == [one EXCEPT !.before = read.row]
             q == [two EXCEPT !.doubt = IF read.misread THEN {"before"} ELSE {}]
  <2>2. request' = [request EXCEPT ![t] = q] BY <2>1 DEF Consoles!Goes
  <2>3. /\ read.row \in Consoles!Settings /\ read.misread \in BOOLEAN
        /\ ~read.misread => \E i \in 1..Len(versions) : read.row = versions[i]
    BY CachedRows
  <2>4. /\ two \in Asked /\ two.at = "write" /\ two.how = old.how /\ two.change = old.change
        /\ two.before = read.row
    <3> HIDE DEF one
    <3> QED BY <1>4, <2>3 DEF Asked
  <2>5. /\ q \in Asked /\ q.at = "write" /\ q.how = old.how /\ q.change = old.change
        /\ q.before = read.row /\ q.doubt = IF read.misread THEN {"before"} ELSE {}
    <3> HIDE DEF two
    <3> QED BY <2>3, <2>4 DEF Asked
  <2> HIDE DEF q
  <2>6. RequestSound(q, versions)
    <3> HIDE DEF old
    <3> QED BY <1>3, <2>3, <2>5 DEF RequestSound
  <2> QED BY <1>1, <1>2, <2>2, <2>5, <2>6, ReadKeeps
<1> QED BY <1>5, <1>6

\* A text that the chat's handler could not read is quoted as none.
LEMMA GlanceKeeps ==
  ASSUME ConsoleInv, Consoles!ConsoleAssumption, NEW t \in Requests, Consoles!ReadBestEffort(t)
  PROVE  ConsoleInv'
<1> DEFINE old == request[t]
           one == [old EXCEPT !.at = "write"]
<1>1. old.at = "glance" /\ UNCHANGED <<versions, trail, lost, silent>>
  BY DEF Consoles!ReadBestEffort
<1>2. old # Consoles!Idle BY <1>1 DEF Consoles!Idle
<1>3. /\ old \in Asked /\ RequestSound(old, versions) /\ Consoles!Now \in Consoles!Settings
      /\ Len(versions) \in Nat \ {0}
  BY <1>2, ServedIsAsked
<1>4. Consoles!Unread \in Consoles!Settings
  BY DEF Consoles!Settings, Consoles!Unread, Consoles!ConsoleAssumption
<1>5. PICK row \in Consoles!Settings, d \in SUBSET {"before", "after"} :
        /\ request' = [request EXCEPT ![t] = [[one EXCEPT !.before = row] EXCEPT !.doubt = d]]
        /\ "after" \notin d
        /\ "before" \notin d => row = Consoles!Now
  <2>1. old.doubt \in SUBSET {"before", "after"} /\ "after" \notin old.doubt
    BY <1>1, <1>3 DEF Asked, RequestSound
  <2>2. CASE Consoles!Goes(t, [request[t] EXCEPT !.at = "write", !.before = Consoles!Now])
    <3>1. [[one EXCEPT !.before = Consoles!Now] EXCEPT !.doubt = old.doubt]
            = [one EXCEPT !.before = Consoles!Now]
      BY <1>3 DEF Asked
    <3> QED BY <1>3, <2>1, <2>2, <3>1 DEF Consoles!Goes
  <2>3. CASE Consoles!Goes(t, [request[t] EXCEPT !.at = "write", !.before = Consoles!Unread,
                                                 !.doubt = {"before"}])
    <3>1. {"before"} \in SUBSET {"before", "after"} /\ "after" \notin {"before"} OBVIOUS
    <3> QED BY <1>4, <2>3, <3>1 DEF Consoles!Goes
  <2> QED BY <2>2, <2>3 DEF Consoles!ReadBestEffort
<1> DEFINE two == [one EXCEPT !.before = row]
           q == [two EXCEPT !.doubt = d]
<1>6. /\ one \in Asked /\ one.at = "write" /\ one.how = old.how /\ one.change = old.change
  BY <1>3 DEF Asked
<1>7. /\ two \in Asked /\ two.at = "write" /\ two.how = old.how /\ two.change = old.change
      /\ two.before = row
  <2> HIDE DEF one
  <2> QED BY <1>6 DEF Asked
<1>8. /\ q \in Asked /\ q.at = "write" /\ q.how = old.how /\ q.change = old.change
      /\ q.before = row /\ q.doubt = d
  <2> HIDE DEF two
  <2> QED BY <1>7 DEF Asked
<1>9. request' = [request EXCEPT ![t] = q] BY <1>5
<1> HIDE DEF q, old
<1>10. Len(versions) \in 1..Len(versions) /\ Consoles!Now = versions[Len(versions)]
  BY <1>3 DEF Consoles!Now
<1>11. RequestSound(q, versions) BY <1>3, <1>5, <1>8, <1>10 DEF RequestSound
<1> QED BY <1>1, <1>2, <1>8, <1>9, <1>11, ReadKeeps DEF old

LEMMA ReadBackKeeps ==
  ASSUME ConsoleInv, Consoles!ConsoleAssumption, NEW t \in Requests, Consoles!ReadBack(t)
  PROVE  ConsoleInv'
<1> DEFINE old == request[t]
           one == [old EXCEPT !.at = "record"]
<1>1. old.at = "after" /\ UNCHANGED <<versions, trail, lost, silent>>
  BY DEF Consoles!ReadBack
<1>2. old # Consoles!Idle BY <1>1 DEF Consoles!Idle
<1>3. /\ old \in Asked /\ RequestSound(old, versions)
      /\ Len(versions) \in Nat \ {0}
      /\ \A i \in 1..Len(versions) : versions[i] \in Consoles!Settings
  BY <1>2, ServedIsAsked
<1>4. Wrote(old, versions) /\ old.mine \in 2..Len(versions)
  BY <1>1, <1>3 DEF RequestSound, Wrote
<1>5. /\ one \in Asked /\ one.at = "record" /\ one.how = old.how /\ one.change = old.change
      /\ one.before = old.before /\ one.mine = old.mine /\ one.doubt = old.doubt
  BY <1>3 DEF Asked
<1>6. ASSUME NEW i \in old.mine..Len(versions),
             Consoles!Goes(t, [request[t] EXCEPT !.at = "record", !.after = versions[i]])
      PROVE  ConsoleInv'
  <2> DEFINE q == [one EXCEPT !.after = versions[i]]
  <2>1. request' = [request EXCEPT ![t] = q] BY <1>6 DEF Consoles!Goes
  <2>2. versions[i] \in Consoles!Settings
    <3>1. i \in 1..Len(versions) BY <1>3, <1>4
    <3> QED BY <1>3, <3>1
  <2>3. /\ q \in Asked /\ q.at = "record" /\ q.how = old.how /\ q.change = old.change
        /\ q.before = old.before /\ q.mine = old.mine /\ q.after = versions[i]
        /\ q.doubt = old.doubt
    <3> HIDE DEF one
    <3> QED BY <1>5, <2>2 DEF Asked
  <2> HIDE DEF q
  <2>4. RequestSound(q, versions)
    <3> HIDE DEF old
    <3>1. Wrote(q, versions) BY <1>4, <2>3 DEF Wrote
    <3> QED BY <1>3, <1>6, <2>3, <3>1 DEF RequestSound
  <2> QED BY <1>1, <1>2, <2>1, <2>3, <2>4, ReadKeeps
<1>7. ASSUME NEW read \in Consoles!CachedReads,
             Consoles!Goes(t, [request[t] EXCEPT !.at = "record", !.after = read.row,
                                                 !.doubt = @ \cup {"after"}])
      PROVE  ConsoleInv'
  <2> DEFINE two == [one EXCEPT !.after = read.row]
             q == [two EXCEPT !.doubt = old.doubt \cup {"after"}]
  <2>1. request' = [request EXCEPT ![t] = q] BY <1>7 DEF Consoles!Goes
  <2>2. read.row \in Consoles!Settings BY CachedRows
  <2>3. /\ two \in Asked /\ two.at = "record" /\ two.how = old.how /\ two.change = old.change
        /\ two.mine = old.mine /\ two.before = old.before /\ two.doubt = old.doubt
    <3> HIDE DEF one
    <3> QED BY <1>5, <2>2 DEF Asked
  <2>4. /\ q \in Asked /\ q.at = "record" /\ q.how = old.how /\ q.change = old.change
        /\ q.mine = old.mine /\ q.before = old.before /\ q.doubt = old.doubt \cup {"after"}
    <3> HIDE DEF two
    <3> QED BY <2>3 DEF Asked
  <2> HIDE DEF q
  <2>5. RequestSound(q, versions)
    <3> HIDE DEF old
    <3>1. Wrote(q, versions) BY <1>4, <2>4 DEF Wrote
    <3> QED BY <1>1, <1>3, <2>4, <3>1 DEF RequestSound
  <2> QED BY <1>1, <1>2, <2>1, <2>4, <2>5, ReadKeeps
<1> QED BY <1>6, <1>7 DEF Consoles!ReadBack

LEMMA ConsoleInvNext ==
  ASSUME Consoles!ConsoleAssumption
  PROVE  ConsoleInv /\ [Consoles!Next]_Consoles!vars => ConsoleInv'
<1> SUFFICES ASSUME ConsoleInv, [Consoles!Next]_Consoles!vars PROVE ConsoleInv' OBVIOUS
<1>t. /\ versions \in Seq(Consoles!Settings) /\ Len(versions) \in Nat \ {0}
      /\ request \in [Requests -> {Consoles!Idle} \cup Asked]
      /\ Consoles!Now \in Consoles!Settings
  <2>1. versions \in Seq(Consoles!Settings) /\ Len(versions) \in Nat \ {0}
    BY DEF ConsoleInv, ConsoleTyped
  <2>2. Consoles!Now \in Consoles!Settings BY <2>1 DEF Consoles!Now
  <2> QED BY <2>1, <2>2 DEF ConsoleInv, ConsoleTyped
<1>1. ASSUME NEW t \in Requests, NEW who \in People, Consoles!UpdateConfig(t, who)
      PROVE  ConsoleInv'
  <2>1. PICK change \in Consoles!Patches : Consoles!Begin(t, who, "patch", change, "before")
    BY <1>1 DEF Consoles!UpdateConfig
  <2>2. change \in Changes /\ DOMAIN change \subseteq Columns
    BY DEF Changes, Consoles!Patches
  <2> QED BY <1>1, <2>1, <2>2, BeginKeeps DEF Consoles!UpdateConfig
<1>2. ASSUME NEW t \in Requests, NEW who \in People,
             Consoles!WriteRules(t, who) \/ Consoles!CaptureNewRules(t, who)
      PROVE  ConsoleInv'
  <2>1. PICK change \in Consoles!Texts, stage \in {"before", "glance"} :
          Consoles!Begin(t, who, "text", change, stage)
    BY <1>2 DEF Consoles!WriteRules, Consoles!CaptureNewRules
  <2>2. change \in Changes /\ DOMAIN change \subseteq {Rules}
    BY DEF Changes, Consoles!Texts
  <2> QED BY <2>1, <2>2, BeginKeeps
<1>3. ASSUME NEW t \in Requests, NEW who \in People, NEW c \in Columns,
             Consoles!ApplyReply(t, who, c)
      PROVE  ConsoleInv'
  <2>1. PICK change \in [{c} -> Values] : Consoles!Begin(t, who, "menu", change, "before")
    BY <1>3 DEF Consoles!ApplyReply
  <2>2. {c} \in (SUBSET Columns) \ {{}} OBVIOUS
  <2>3. change \in Changes /\ DOMAIN change \subseteq Columns
    BY <2>2 DEF Changes, Consoles!Patches
  <2> QED BY <1>3, <2>1, <2>3, BeginKeeps DEF Consoles!ApplyReply
\* The language a group is given is no request's.
<1>4. ASSUME UNCHANGED <<request, trail, silent>>, GrownTo(versions, versions')
      PROVE  ConsoleInv'
  <2>1. /\ \A p \in Asked : RequestSound(p, versions) => RequestSound(p, versions')
        /\ \A r : RowSound(r, versions) => RowSound(r, versions')
        /\ \A s : SilentSound(s, versions) => SilentSound(s, versions')
    BY <1>t, <1>4, SoundForGood
  <2>2. versions' \in Seq(Consoles!Settings) /\ Len(versions') >= 1
    BY <1>t, <1>4 DEF GrownTo
  <2>3. \A t \in Requests : request[t] # Consoles!Idle =>
          request[t] \in Asked /\ RequestSound(request[t], versions)
    BY <1>t DEF ConsoleInv
  <2>4. \A t \in Requests : request'[t] # Consoles!Idle => RequestSound(request'[t], versions')
    BY <1>4, <2>1, <2>3
  <2>5. /\ \A r \in trail' : RowSound(r, versions')
        /\ \A s \in silent' : SilentSound(s, versions')
    BY <1>4, <2>1 DEF ConsoleInv
  <2> QED BY <1>t, <1>4, <2>2, <2>4, <2>5 DEF ConsoleInv, ConsoleTyped
<1>5. GrownTo(versions, versions) BY <1>t DEF GrownTo
<1>6. ASSUME NEW t \in Requests, Consoles!ReadBestEffort(t) PROVE ConsoleInv'
  BY <1>6, GlanceKeeps
<1>8. CASE Consoles!JoinLanguage
  <2>1. PICK c \in Columns, v \in Values :
          versions' = Append(versions, [Consoles!Now EXCEPT ![c] = v])
    BY <1>8 DEF Consoles!JoinLanguage
  <2> DEFINE row == [Consoles!Now EXCEPT ![c] = v]
  <2>2. row \in Consoles!Settings BY <1>t DEF Consoles!Settings
  <2>3. versions' = Append(versions, row) BY <2>1
  <2> HIDE DEF row
  <2>4. /\ versions' \in Seq(Consoles!Settings) /\ Len(versions') = Len(versions) + 1
        /\ \A i \in 1..Len(versions) : versions'[i] = versions[i]
    BY <1>t, <2>2, <2>3
  <2>5. GrownTo(versions, versions') BY <1>t, <2>4 DEF GrownTo
  <2> QED BY <1>t, <1>4, <1>8, <2>5 DEF Consoles!JoinLanguage
<1>9. ASSUME NEW t \in Requests, Consoles!WriteFails(t) \/ Consoles!Die(t) PROVE ConsoleInv'
  <2>1. ComesTo(t, Consoles!Idle)
    BY <1>t, <1>5, <1>9 DEF Consoles!WriteFails, Consoles!Die, Consoles!Goes, ComesTo
  <2> QED BY <2>1, RequestComesTo
<1>10. ASSUME NEW t \in Requests, Consoles!Write(t) PROVE ConsoleInv'
  BY <1>10, WriteKeeps
<1>11. ASSUME NEW t \in Requests, Consoles!Record(t) PROVE ConsoleInv'
  BY <1>11, RecordKeeps
<1>12. ASSUME NEW t \in Requests, Consoles!ReadBefore(t) PROVE ConsoleInv'
  BY <1>12, ReadBeforeKeeps
<1>13. ASSUME NEW t \in Requests, Consoles!ReadBack(t) PROVE ConsoleInv'
  BY <1>13, ReadBackKeeps
<1>14. CASE UNCHANGED Consoles!vars
  BY <1>t, <1>4, <1>5, <1>14 DEF Consoles!vars
<1> QED BY <1>1, <1>2, <1>3, <1>6, <1>8, <1>9, <1>10, <1>11, <1>12, <1>13, <1>14
     DEF Consoles!Next

\* With any people, settings, requests and writes: a row of the trail quotes what the
\* group really had, before and after, each unless the read of just that one failed;
\* and a change without a row, where no read failed, was made by a request that had
\* read an older row or read back a newer one.
THEOREM TrailQuotesTruth ==
  ASSUME Consoles!ConsoleAssumption PROVE Consoles!Spec => []Consoles!TrailIsEvidence
<1>1. ConsoleInv => Consoles!TrailIsEvidence
  BY DEF ConsoleInv, RowSound, SilentSound, Consoles!TrailIsEvidence
<1> QED BY <1>1, ConsoleInvInit, ConsoleInvNext, PTL DEF Consoles!Spec

-----------------------------------------------------------------------------
(* Cutover.                                                                *)
(*                                                                         *)
(* What the exit code says is about the end; what a step left behind was   *)
(* seen when it was recorded.  So the invariant speaks of every step that  *)
(* has reported, and nothing that was moved is taken back.                 *)
CONSTANTS Settings, Selections, MaxRuns
VARIABLES moved, run, runs

Moves == INSTANCE Cutover

Results == Moves!Statuses \cup {"none"}
Reports ==
  [at : {"step", "done"}, dry : BOOLEAN, env : Settings, selected : Selections,
   todo : SUBSET Moves!Steps, results : UNION {[sel -> Results] : sel \in Selections},
   unlisted : BOOLEAN, raised : SUBSET Moves!Steps]

\* What a step that did not fail has left in m, if the run r was a real one.
Left(step, r, m) ==
  /\ step = "schema" => "schema" \in m \/ ~r.env.autoMigrate
  /\ step = "mongo" => "mongo" \in m \/ r.env.mongo = "none"
  /\ step = "memes" => "memes" \in m
  /\ step = "bucket" => "bucket" \in m \/ r.env.dest \in {"none", "memory"} \/ r.unlisted

ReportSound(r, m) ==
  /\ r \in Reports /\ r.results \in [r.selected -> Results]
  /\ r.todo \subseteq r.selected /\ r.raised \subseteq r.selected
  /\ r.at = "done" => r.todo = {}
  /\ \A s \in r.selected : r.results[s] = "none" <=> s \in r.todo
  /\ ~r.dry => \A s \in r.selected : r.results[s] \in {"ok", "skipped"} => Left(s, r, m)

CutoverInv ==
  /\ moved \subseteq Moves!Parts /\ runs \in 0..MaxRuns
  /\ run # Moves!None => ReportSound(run, moved)

LEMMA CutoverInvInit == ASSUME Moves!CutoverAssumption PROVE Moves!Init => CutoverInv
BY DEF Moves!CutoverAssumption, Moves!Init, CutoverInv, Moves!Parts

\* One step of the run reports, with or without an exception.
Reported(step, status, unlisted, raised) ==
  run' = [at |-> run.at, dry |-> run.dry, env |-> run.env, selected |-> run.selected,
          todo |-> run.todo \ {step}, results |-> [run.results EXCEPT ![step] = status],
          unlisted |-> unlisted, raised |-> raised]

LEMMA RecordReports ==
  ASSUME NEW step, NEW status, run \in Reports, Moves!Record(step, status)
  PROVE  Reported(step, status, run.unlisted, run.raised)
BY DEF Moves!Record, Reports, Reported

LEMMA ReportKeeps ==
  ASSUME CutoverInv, Moves!CutoverAssumption, NEW step, Moves!Turn(step),
         NEW status \in Moves!Statuses, NEW unlisted \in BOOLEAN,
         NEW raised \in SUBSET run.selected,
         Reported(step, status, unlisted, raised),
         unlisted = run.unlisted \/ step = "bucket",
         moved \subseteq moved', moved' \subseteq Moves!Parts, UNCHANGED runs,
         ~run.dry /\ status \in {"ok", "skipped"} => Left(step, run', moved')
  PROVE  CutoverInv'
<1>1. run # Moves!None BY DEF Moves!Turn, Moves!None
<1>2. /\ run \in Reports /\ run.results \in [run.selected -> Results]
      /\ run.todo \subseteq run.selected /\ run.at = "step" /\ step \in run.selected
      /\ run.selected \in Selections /\ run.selected \subseteq Moves!Steps
      /\ \A s \in run.selected : run.results[s] = "none" <=> s \in run.todo
      /\ ~run.dry => \A s \in run.selected :
           run.results[s] \in {"ok", "skipped"} => Left(s, run, moved)
  BY <1>1 DEF CutoverInv, ReportSound, Moves!Turn, Reports, Moves!CutoverAssumption
<1>3. status \in Results /\ status # "none" BY DEF Results, Moves!Statuses
<1> DEFINE results == [run.results EXCEPT ![step] = status]
<1>4. /\ results \in [run.selected -> Results]
      /\ \A s \in run.selected : results[s] = IF s = step THEN status ELSE run.results[s]
  BY <1>2, <1>3
<1>5. /\ run'.at = run.at /\ run'.dry = run.dry /\ run'.env = run.env
      /\ run'.selected = run.selected /\ run'.todo = run.todo \ {step}
      /\ run'.results = results /\ run'.unlisted = unlisted /\ run'.raised = raised
  BY DEF Reported
<1> HIDE DEF results
<1>6. results \in UNION {[sel -> Results] : sel \in Selections} BY <1>2, <1>4
<1>7. run' = [at |-> run.at, dry |-> run.dry, env |-> run.env, selected |-> run.selected,
              todo |-> run.todo \ {step}, results |-> results,
              unlisted |-> unlisted, raised |-> raised]
  BY DEF Reported, results
<1>8. run' \in Reports BY <1>2, <1>6, <1>7 DEF Reports
<1>9. \A s \in run.selected : run'.results[s] = "none" <=> s \in run'.todo
  BY <1>2, <1>3, <1>4, <1>5
<1>10. ASSUME ~run.dry, NEW s \in run.selected, run'.results[s] \in {"ok", "skipped"}
       PROVE  Left(s, run', moved')
  <2>1. CASE s = step BY <1>4, <1>5, <1>10, <2>1
  <2>2. CASE s # step
    <3>1. Left(s, run, moved) BY <1>2, <1>4, <1>5, <1>10, <2>2
    <3> QED BY <1>5, <2>2, <3>1 DEF Left
  <2> QED BY <2>1, <2>2
<1>11. ReportSound(run', moved')
  BY <1>2, <1>4, <1>5, <1>8, <1>9, <1>10 DEF ReportSound
<1> QED BY <1>11 DEF CutoverInv

LEMMA CutoverInvNext ==
  ASSUME Moves!CutoverAssumption PROVE CutoverInv /\ [Moves!Next]_Moves!vars => CutoverInv'
<1> SUFFICES ASSUME CutoverInv, [Moves!Next]_Moves!vars PROVE CutoverInv' OBVIOUS
<1>1. ASSUME NEW step, Moves!Turn(step)
      PROVE  /\ run \in Reports /\ run.unlisted \in BOOLEAN /\ step \in run.selected
             /\ run.raised \in SUBSET run.selected
             /\ moved \subseteq Moves!Parts
  <2>1. run # Moves!None BY <1>1 DEF Moves!Turn, Moves!None
  <2> QED BY <1>1, <2>1 DEF CutoverInv, ReportSound, Reports, Moves!Turn
\* A step that reports without an exception, and what it moved.
<1>2. ASSUME NEW step, Moves!Turn(step), NEW status \in Moves!Statuses,
             Moves!Record(step, status), moved \subseteq moved', moved' \subseteq Moves!Parts,
             UNCHANGED runs,
             ~run.dry /\ status \in {"ok", "skipped"} => Left(step, run, moved')
      PROVE  CutoverInv'
  <2>1. Reported(step, status, run.unlisted, run.raised) BY <1>1, <1>2, RecordReports
  <2>2. run'.env = run.env /\ run'.unlisted = run.unlisted BY <2>1 DEF Reported
  <2>3. ~run.dry /\ status \in {"ok", "skipped"} => Left(step, run', moved')
    BY <1>2, <2>2 DEF Left
  <2> QED BY <1>1, <1>2, <2>1, <2>3, ReportKeeps
<1>3. ASSUME NEW step, Moves!Turn(step), NEW status \in Moves!Statuses,
             Moves!Record(step, status), moved' = moved, UNCHANGED runs,
             ~run.dry /\ status \in {"ok", "skipped"} => Left(step, run, moved)
      PROVE  CutoverInv'
  <2>1. moved \subseteq moved' /\ moved' \subseteq Moves!Parts BY <1>1, <1>3
  <2> QED BY <1>2, <1>3, <2>1
<1>4. ASSUME NEW env \in Settings, NEW selected \in Selections, NEW only \in BOOLEAN,
             NEW dry \in BOOLEAN, Moves!Start(env, selected, only, dry)
      PROVE  CutoverInv'
  <2> DEFINE none == [s \in selected |-> "none"]
  <2>1. /\ run' = [at |-> "step", dry |-> dry, env |-> env, selected |-> selected,
                   todo |-> selected, results |-> none, unlisted |-> FALSE, raised |-> {}]
        /\ runs' = runs + 1 /\ runs < MaxRuns /\ UNCHANGED moved
    BY <1>4 DEF Moves!Start
  <2>2. none \in [selected -> Results] /\ \A s \in selected : none[s] = "none"
    BY DEF Results
  <2> HIDE DEF none
  <2>3. selected \subseteq Moves!Steps /\ MaxRuns \in Nat BY DEF Moves!CutoverAssumption
  <2>4. none \in UNION {[sel -> Results] : sel \in Selections} BY <2>2
  <2>5. run' \in Reports BY <2>1, <2>3, <2>4 DEF Reports
  <2>6. ReportSound(run', moved') BY <2>1, <2>2, <2>5 DEF ReportSound
  <2> QED BY <2>1, <2>3, <2>6 DEF CutoverInv
<1>5. ASSUME NEW step, Moves!Blocked(step) PROVE CutoverInv'
  <2>1. "failed" \in Moves!Statuses BY DEF Moves!Statuses
  <2> QED BY <1>3, <1>5, <2>1 DEF Moves!Blocked
<1>6. ASSUME NEW step, Moves!Raises(step) PROVE CutoverInv'
  <2>1. Moves!Turn(step) /\ moved' = moved /\ UNCHANGED runs BY <1>6 DEF Moves!Raises
  <2>2. "failed" \in Moves!Statuses BY DEF Moves!Statuses
  <2>3. Reported(step, "failed", run.unlisted, run.raised \cup {step})
    BY <1>1, <1>6, <2>1 DEF Moves!Raises, Reports, Reported
  <2>4. run.raised \cup {step} \in SUBSET run.selected BY <1>1, <2>1
  <2>5. moved' \subseteq Moves!Parts BY <1>1, <2>1
  <2> QED BY <1>1, <2>1, <2>2, <2>3, <2>4, <2>5, ReportKeeps
<1>7. CASE Moves!Preflight
  <2>1. Moves!Turn("preflight") /\ moved' = moved /\ UNCHANGED runs
    BY <1>7 DEF Moves!Preflight, Moves!Does
  <2>2. PICK status \in {"ok", "failed"} : Moves!Record("preflight", status)
    BY <1>7 DEF Moves!Preflight
  <2>3. status \in Moves!Statuses BY DEF Moves!Statuses
  <2>4. Left("preflight", run, moved) BY DEF Left
  <2> QED BY <1>3, <2>1, <2>2, <2>3, <2>4
<1>8. CASE Moves!Schema
  <2>1. Moves!Turn("schema") /\ UNCHANGED runs BY <1>8 DEF Moves!Schema, Moves!Does
  <2>2. PICK status \in {"ok", "skipped"} :
          /\ Moves!Record("schema", status)
          /\ \/ moved' = moved /\ (run.dry \/ ~run.env.autoMigrate)
             \/ moved' = moved \cup {"schema"}
    BY <1>8 DEF Moves!Schema
  <2>3. status \in Moves!Statuses BY DEF Moves!Statuses
  <2>4. "schema" \in Moves!Parts BY DEF Moves!Parts
  <2>5. CASE moved' = moved /\ (run.dry \/ ~run.env.autoMigrate)
    BY <1>3, <2>1, <2>2, <2>3, <2>5 DEF Left
  <2>6. CASE moved' = moved \cup {"schema"}
    <3>1. Left("schema", run, moved') BY <2>6 DEF Left
    <3>2. moved \subseteq moved' /\ moved' \subseteq Moves!Parts BY <1>1, <2>1, <2>4, <2>6
    <3> QED BY <1>2, <2>1, <2>2, <2>3, <3>1, <3>2
  <2> QED BY <2>2, <2>5, <2>6
<1>9. CASE Moves!Mongo
  <2>1. Moves!Turn("mongo") /\ UNCHANGED runs BY <1>9 DEF Moves!Mongo, Moves!Does
  <2>2. PICK status \in Moves!Statuses :
          /\ Moves!Record("mongo", status)
          /\ \/ moved' = moved /\ (run.dry \/ run.env.mongo = "none" \/ status = "failed")
             \/ moved' = moved \cup {"mongo"}
    <3>1. run.env.mongo \in {"none", "one", "both"}
      <4>1. run.env \in Moves!Environment
        BY <1>1, <2>1 DEF Reports, Moves!CutoverAssumption
      <4> QED BY <4>1 DEF Moves!Environment
    <3> QED BY <1>9, <3>1 DEF Moves!Mongo, Moves!Statuses
  <2>3. "mongo" \in Moves!Parts BY DEF Moves!Parts
  <2>4. CASE moved' = moved /\ (run.dry \/ run.env.mongo = "none" \/ status = "failed")
    BY <1>3, <2>1, <2>2, <2>4 DEF Left
  <2>5. CASE moved' = moved \cup {"mongo"}
    <3>1. Left("mongo", run, moved') BY <2>5 DEF Left
    <3>2. moved \subseteq moved' /\ moved' \subseteq Moves!Parts BY <1>1, <2>1, <2>3, <2>5
    <3> QED BY <1>2, <2>1, <2>2, <2>3, <3>1, <3>2
  <2> QED BY <2>2, <2>4, <2>5
<1>10. CASE Moves!Random
  <2>1. Moves!Turn("random") /\ UNCHANGED runs BY <1>10 DEF Moves!Random, Moves!Does
  <2>2. run.env.mongo \in {"none", "one", "both"}
    <3>1. run.env \in Moves!Environment
      BY <1>1, <2>1 DEF Reports, Moves!CutoverAssumption
    <3> QED BY <3>1 DEF Moves!Environment
  <2>3. PICK status \in Moves!Statuses : Moves!Record("random", status)
    BY <1>10, <2>2 DEF Moves!Random, Moves!Statuses
  <2>4. moved' \in {moved, moved \cup {"pool"}, moved \cup {"pool", "poolBytes"}}
    BY <1>10, <2>2 DEF Moves!Random
  <2>5. moved \subseteq moved' /\ moved' \subseteq Moves!Parts BY <1>1, <2>1, <2>4 DEF Moves!Parts
  <2>6. Left("random", run, moved') BY DEF Left
  <2> QED BY <1>2, <2>1, <2>3, <2>5, <2>6
<1>11. CASE Moves!Bucket
  <2>1. Moves!Turn("bucket") /\ UNCHANGED runs BY <1>11 DEF Moves!Bucket, Moves!Does
  <2>2. "bucket" \in Moves!Parts /\ {"ok", "skipped", "failed"} \subseteq Moves!Statuses
    BY DEF Moves!Parts, Moves!Statuses
  <2>3. CASE \E status \in {"skipped", "failed"} :
               /\ Moves!Record("bucket", status) /\ moved' = moved
               /\ run.env.dest = "none" \/ status = "failed"
    BY <1>3, <2>1, <2>2, <2>3 DEF Left
  <2>4. ASSUME NEW unlisted \in BOOLEAN,
               moved' = (IF run.dry \/ unlisted \/ run.env.dest = "memory" THEN moved
                         ELSE moved \cup {"bucket"}),
               run' = [run EXCEPT !.todo = @ \ {"bucket"}, !.results["bucket"] = "ok",
                                  !.unlisted = unlisted]
        PROVE  CutoverInv'
    <3>1. Reported("bucket", "ok", unlisted, run.raised)
      BY <1>1, <2>1, <2>4 DEF Reports, Reported
    <3>2. run'.env = run.env /\ run'.unlisted = unlisted BY <3>1 DEF Reported
    <3>3. ~run.dry => Left("bucket", run', moved') BY <2>4, <3>2 DEF Left
    <3>4. moved \subseteq moved' /\ moved' \subseteq Moves!Parts BY <1>1, <2>1, <2>2, <2>4
    <3>5. run.raised \in SUBSET run.selected BY <1>1, <2>1
    <3> QED BY <2>1, <2>2, <3>1, <3>3, <3>4, <3>5, ReportKeeps
  <2> QED BY <1>11, <2>3, <2>4 DEF Moves!Bucket
<1>12. CASE Moves!Memes
  <2>1. Moves!Turn("memes") /\ UNCHANGED runs BY <1>12 DEF Moves!Memes, Moves!Does
  <2>2. "memes" \in Moves!Parts /\ {"ok", "failed"} \subseteq Moves!Statuses
    BY DEF Moves!Parts, Moves!Statuses
  <2>3. \/ moved' = moved /\ Moves!Record("memes", "failed")
        \/ moved' = moved /\ run.dry /\ Moves!Record("memes", "ok")
        \/ moved' = moved \cup {"memes"} /\ Moves!Record("memes", "ok")
    BY <1>12 DEF Moves!Memes
  <2>4. CASE moved' = moved /\ Moves!Record("memes", "failed") BY <1>3, <2>1, <2>2, <2>4
  <2>5. CASE moved' = moved /\ run.dry /\ Moves!Record("memes", "ok")
    BY <1>3, <2>1, <2>2, <2>5
  <2>6. CASE moved' = moved \cup {"memes"} /\ Moves!Record("memes", "ok")
    <3>1. Left("memes", run, moved') BY <2>6 DEF Left
    <3>2. moved \subseteq moved' /\ moved' \subseteq Moves!Parts BY <1>1, <2>1, <2>2, <2>6
    <3> QED BY <1>2, <2>1, <2>2, <2>6, <3>1, <3>2
  <2> QED BY <2>3, <2>4, <2>5, <2>6
<1>13. CASE Moves!Verify
  <2>1. /\ Moves!Turn("verify") /\ moved' = moved /\ UNCHANGED runs
        /\ Moves!Record("verify", "ok")
    BY <1>13 DEF Moves!Verify, Moves!Does
  <2>2. "ok" \in Moves!Statuses BY DEF Moves!Statuses
  <2>3. Left("verify", run, moved) BY DEF Left
  <2> QED BY <1>3, <2>1, <2>2, <2>3
<1>14. CASE Moves!Finish
  <2>1. run # Moves!None BY <1>14 DEF Moves!Finish, Moves!None
  <2>2. ReportSound(run, moved) /\ run \in Reports /\ run.todo = {}
    BY <1>14, <2>1 DEF CutoverInv, ReportSound, Moves!Finish
  <2>3. run' = [run EXCEPT !.at = "done"] /\ moved' = moved /\ runs' = runs
    BY <1>14 DEF Moves!Finish
  <2>4. run' \in Reports BY <2>2, <2>3 DEF Reports
  <2>5. /\ run'.at = "done" /\ run'.dry = run.dry /\ run'.env = run.env
        /\ run'.selected = run.selected /\ run'.todo = run.todo /\ run'.results = run.results
        /\ run'.unlisted = run.unlisted /\ run'.raised = run.raised
    BY <2>2, <2>3 DEF Reports
  <2>6. ReportSound(run', moved') BY <2>2, <2>3, <2>4, <2>5 DEF ReportSound, Left
  <2> QED BY <2>3, <2>6 DEF CutoverInv
<1>15. CASE UNCHANGED Moves!vars BY <1>15 DEF Moves!vars, CutoverInv, ReportSound, Left
<1> QED BY <1>4, <1>5, <1>6, <1>7, <1>8, <1>9, <1>10, <1>11, <1>12, <1>13, <1>14, <1>15
     DEF Moves!Next

\* In any environments, with any selections of steps, as often as it is run: a real
\* cutover that exits 0 has left in v2 what each of its steps is for.
THEOREM SuccessMeansMoved ==
  ASSUME Moves!CutoverAssumption PROVE Moves!Spec => []Moves!ExitZeroMeansMoved
<1>1. CutoverInv => Moves!ExitZeroMeansMoved
  <2> SUFFICES ASSUME CutoverInv, run.at = "done", Moves!ExitCode = 0, ~run.dry
               PROVE  Moves!ExitZeroMeansMoved
    BY DEF Moves!ExitZeroMeansMoved
  <2>1. run # Moves!None BY DEF Moves!None
  <2>2. ReportSound(run, moved) BY <2>1 DEF CutoverInv
  <2>3. \A s \in run.selected : run.results[s] \in {"ok", "skipped"}
    <3>1. \A s \in run.selected : run.results[s] # "failed" BY DEF Moves!ExitCode
    <3>2. \A s \in run.selected : run.results[s] \in Results BY <2>2 DEF ReportSound
    <3>3. \A s \in run.selected : run.results[s] # "none" BY <2>2 DEF ReportSound
    <3> QED BY <3>1, <3>2, <3>3 DEF Results, Moves!Statuses
  <2>4. \A s \in run.selected : Left(s, run, moved) BY <2>2, <2>3 DEF ReportSound
  <2> QED BY <2>4 DEF Left, Moves!ExitZeroMeansMoved
<1> QED BY <1>1, CutoverInvInit, CutoverInvNext, PTL DEF Moves!Spec

-----------------------------------------------------------------------------
(* ExportAccount.                                                          *)
(*                                                                         *)
(* A policy that is written is the one that was read, because an etag      *)
(* stands for one policy.  An account is never provisioned and revoked at  *)
(* once, so what one command has seen of it no other command undoes.       *)
CONSTANTS Operators, Accounts, Teams, GrantTries, VerifyTries, MaxEdits, NoAccount
VARIABLES accounts, known, granted, effective, policy, cmd, stamps, foreign, ready,
          revoked, elsewhere

Reader == INSTANCE ExportAccount WITH seen <- known

Commands ==
  [at : Reader!Provisioning \cup Reader!Revoking, acct : Accounts, tries : Nat,
   read : Reader!Policies, key : BOOLEAN]

\* What the operator o who is at c may go by.
CommandSound(o, c) ==
  /\ c.acct \in stamps
  /\ c.read.etag <= policy.etag
  /\ c.read.etag = policy.etag => c.read = policy
  /\ c.at \in {"grant", "verify", "key"} => c.acct \in policy.readers
  /\ c.at = "key" => <<c.acct, o>> \in effective
  /\ c.at = "delete" => c.acct \notin policy.readers
  /\ c.at \in Reader!Revoking => \A r \in ready : r[1] # c.acct

Running(o) == cmd[o] # Reader!Idle
CommandsSound == \A o \in Operators : Running(o) => CommandSound(o, cmd[o])
Exclusive ==
  \A o, p \in Operators :
    Running(o) /\ Running(p) /\ cmd[o].acct = cmd[p].acct
      => ~(cmd[o].at \in Reader!Provisioning /\ cmd[p].at \in Reader!Revoking)
ReadySound == \A r \in ready : r \in effective /\ r[1] \in policy.readers
RevokedSound ==
  \A a \in revoked :
    /\ a \in stamps /\ a \notin accounts \ elsewhere /\ a \notin policy.readers
    /\ \A o \in Operators : Running(o) /\ cmd[o].acct = a
                              => cmd[o].at \notin Reader!Provisioning

AccountInv ==
  /\ Reader!TypeOK
  /\ CommandsSound /\ Exclusive /\ ReadySound /\ RevokedSound
  /\ Reader!NothingDropped

LEMMA AccountInvInit == Reader!Init => AccountInv
BY DEF Reader!Init, AccountInv, Reader!TypeOK, Reader!Policies, CommandsSound, Running, Exclusive,
       ReadySound, RevokedSound, Reader!NothingDropped

LEMMA StageNames ==
  /\ Reader!Provisioning \cap Reader!Revoking = {}
  /\ {"create", "read", "write", "grant", "verify", "key"} \subseteq Reader!Provisioning
  /\ {"look", "unbind", "delete"} \subseteq Reader!Revoking
BY DEF Reader!Provisioning, Reader!Revoking

LEMMA AccountTypes ==
  ASSUME AccountInv
  PROVE  /\ accounts \subseteq Accounts /\ known \subseteq Accounts /\ accounts \subseteq stamps
         /\ effective \subseteq granted /\ granted \subseteq accounts \X Operators
         /\ policy \in Reader!Policies /\ policy.etag \in Nat
         /\ policy.readers \subseteq Accounts /\ policy.teams = foreign
         /\ cmd \in [Operators -> {Reader!Idle} \cup Commands]
         /\ stamps \subseteq Accounts /\ foreign \subseteq Teams
         /\ ready \subseteq Accounts \X Operators /\ revoked \subseteq Accounts
         /\ elsewhere \subseteq accounts
BY DEF AccountInv, Reader!TypeOK, Reader!Policies, Commands, Reader!NothingDropped

\* A command at a stage of it.
LEMMA AtStage ==
  ASSUME AccountInv, NEW o \in Operators, cmd[o].at # "idle"
  PROVE  /\ Running(o) /\ cmd[o] \in Commands /\ CommandSound(o, cmd[o])
         /\ cmd[o].acct \in Accounts
<1>1. Running(o) BY DEF Running, Reader!Idle
<1>2. cmd[o] \in Commands BY <1>1, AccountTypes DEF Running
<1>3. cmd[o].acct \in Accounts BY <1>2 DEF Commands
<1> QED BY <1>1, <1>2, <1>3 DEF AccountInv, CommandsSound

\* A command ends, or goes on with the same account on the same side.
Advances(o, next) ==
  /\ cmd' = [cmd EXCEPT ![o] = next]
  /\ next # Reader!Idle =>
       /\ next \in Commands /\ next.acct = cmd[o].acct
       /\ next.at \in Reader!Provisioning <=> cmd[o].at \in Reader!Provisioning
       /\ next.at \in Reader!Revoking <=> cmd[o].at \in Reader!Revoking

LEMMA AdvancesKeeps ==
  ASSUME AccountInv, NEW o \in Operators, Running(o), NEW next, Advances(o, next)
  PROVE  /\ cmd' \in [Operators -> {Reader!Idle} \cup Commands]
         /\ \A p \in Operators : cmd'[p] = IF p = o THEN next ELSE cmd[p]
         /\ Exclusive'
         /\ \A a : (\A p \in Operators : Running(p) /\ cmd[p].acct = a
                                           => cmd[p].at \notin Reader!Provisioning)
               => (\A p \in Operators : Running(p)' /\ cmd'[p].acct = a
                                           => cmd'[p].at \notin Reader!Provisioning)
<1>1. cmd \in [Operators -> {Reader!Idle} \cup Commands] BY AccountTypes
<1>2. next \in {Reader!Idle} \cup Commands BY DEF Advances
<1>3. /\ cmd' \in [Operators -> {Reader!Idle} \cup Commands]
      /\ \A p \in Operators : cmd'[p] = IF p = o THEN next ELSE cmd[p]
  BY <1>1, <1>2 DEF Advances
<1>4. Exclusive
  BY DEF AccountInv
<1>5. \A p \in Operators : Running(p)' => Running(p) /\ cmd'[p].acct = cmd[p].acct
        /\ (cmd'[p].at \in Reader!Provisioning <=> cmd[p].at \in Reader!Provisioning)
        /\ (cmd'[p].at \in Reader!Revoking <=> cmd[p].at \in Reader!Revoking)
  BY <1>3 DEF Advances, Running
<1>6. Exclusive' BY <1>4, <1>5 DEF Exclusive
<1> QED BY <1>3, <1>5, <1>6

\* A step of which only the command itself remains.
LEMMA OnlyAdvances ==
  ASSUME AccountInv, NEW o \in Operators, Running(o), NEW next, Advances(o, next),
         next # Reader!Idle => CommandSound(o, next),
         UNCHANGED <<accounts, known, granted, effective, policy, stamps, foreign, ready,
                     revoked, elsewhere>>
  PROVE  AccountInv'
<1>1. /\ cmd' \in [Operators -> {Reader!Idle} \cup Commands]
      /\ \A p \in Operators : cmd'[p] = IF p = o THEN next ELSE cmd[p]
      /\ Exclusive'
  BY AdvancesKeeps
<1>2. \A p \in Operators : cmd'[p] # Reader!Idle => CommandSound(p, cmd'[p])
  BY <1>1 DEF AccountInv, CommandsSound, Running
<1>3. CommandsSound' BY <1>2 DEF CommandsSound, CommandSound, Running
<1>4. ReadySound' BY DEF AccountInv, ReadySound
<1>5. RevokedSound'
  <2> SUFFICES ASSUME NEW a \in revoked
               PROVE  \A p \in Operators : Running(p)' /\ cmd'[p].acct = a
                                             => cmd'[p].at \notin Reader!Provisioning
    BY DEF AccountInv, RevokedSound
  <2>1. \A p \in Operators : Running(p) /\ cmd[p].acct = a => cmd[p].at \notin Reader!Provisioning
    BY DEF AccountInv, RevokedSound
  <2> QED BY <2>1, AdvancesKeeps
<1>6. Reader!TypeOK' /\ Reader!NothingDropped'
  BY <1>1 DEF AccountInv, Reader!TypeOK, Reader!NothingDropped, Commands
<1> QED BY <1>1, <1>3, <1>4, <1>5, <1>6 DEF AccountInv

LEMMA Ends == ASSUME NEW o \in Operators, Reader!Exit(o) PROVE Advances(o, Reader!Idle)
BY DEF Reader!Exit, Advances

\* The stage of a command, of which nothing else changes.
LEMMA Comes ==
  ASSUME AccountInv, NEW o \in Operators, cmd[o] \in Commands, NEW step, Reader!Goto(o, step),
         \/ step \in Reader!Provisioning /\ cmd[o].at \in Reader!Provisioning
         \/ step \in Reader!Revoking /\ cmd[o].at \in Reader!Revoking
  PROVE  \E next \in Commands :
           /\ Advances(o, next) /\ next # Reader!Idle
           /\ next.at = step /\ next.acct = cmd[o].acct /\ next.read = cmd[o].read
<1> DEFINE next == [at |-> step, acct |-> cmd[o].acct, tries |-> cmd[o].tries,
                    read |-> cmd[o].read, key |-> cmd[o].key]
<1>1. next \in Commands BY DEF Commands
<1>2. next = [cmd[o] EXCEPT !.at = step] BY DEF Commands
<1>3. next.at = step /\ next.acct = cmd[o].acct /\ next.read = cmd[o].read OBVIOUS
<1> HIDE DEF next
<1>4. cmd' = [cmd EXCEPT ![o] = next] BY <1>2 DEF Reader!Goto
<1>5. next # Reader!Idle BY <1>3, StageNames DEF Reader!Idle, Reader!Provisioning, Reader!Revoking
<1>6. Advances(o, next) BY <1>1, <1>3, <1>4, StageNames DEF Advances
<1> QED BY <1>1, <1>3, <1>5, <1>6

\* A step of Google's side or of a person at the console.
LEMMA OutsideKeeps ==
  ASSUME AccountInv,
         \/ \E a \in Accounts : Reader!Propagate(a) \/ Reader!DeleteByHand(a)
         \/ \E grant \in granted : Reader!TakeEffect(grant)
         \/ \E teams \in SUBSET Teams : Reader!EditPolicy(teams)
  PROVE  AccountInv'
<1>t. /\ accounts \subseteq Accounts /\ known \subseteq Accounts /\ accounts \subseteq stamps
      /\ effective \subseteq granted /\ granted \subseteq accounts \X Operators
      /\ policy \in Reader!Policies /\ policy.etag \in Nat
      /\ policy.readers \subseteq Accounts /\ policy.teams = foreign
      /\ cmd \in [Operators -> {Reader!Idle} \cup Commands]
      /\ ready \subseteq Accounts \X Operators
  BY AccountTypes
<1>1. ASSUME NEW a \in Accounts, Reader!Propagate(a) PROVE AccountInv'
  <2>1. /\ UNCHANGED <<accounts, granted, effective, policy, cmd, stamps, foreign, ready,
                       revoked, elsewhere>>
        /\ known' \subseteq Accounts
    BY <1>t, <1>1 DEF Reader!Propagate
  <2> QED BY <2>1 DEF AccountInv, Reader!TypeOK, CommandsSound, CommandSound, Running, Exclusive,
                      ReadySound, RevokedSound, Reader!NothingDropped
<1>2. ASSUME NEW grant \in granted, Reader!TakeEffect(grant) PROVE AccountInv'
  <2>1. /\ UNCHANGED <<accounts, known, granted, policy, cmd, stamps, foreign, ready,
                       revoked, elsewhere>>
        /\ effective' = effective \cup {grant}
    BY <1>2 DEF Reader!TakeEffect
  <2> QED BY <1>t, <2>1
       DEF AccountInv, Reader!TypeOK, CommandsSound, CommandSound, Running, Exclusive,
           ReadySound, RevokedSound, Reader!NothingDropped
<1>3. ASSUME NEW teams \in SUBSET Teams, Reader!EditPolicy(teams) PROVE AccountInv'
  <2>1. /\ UNCHANGED <<accounts, known, granted, effective, cmd, stamps, ready,
                       revoked, elsewhere>>
        /\ foreign' = teams
        /\ policy' = [etag |-> policy.etag + 1, readers |-> policy.readers, teams |-> teams]
    BY <1>t, <1>3 DEF Reader!EditPolicy, Reader!SetIamPolicy, Reader!Policies
  <2>2. /\ policy' \in Reader!Policies /\ policy'.etag = policy.etag + 1
        /\ policy'.readers = policy.readers /\ policy'.teams = teams
    BY <1>t, <2>1 DEF Reader!Policies
  <2>3. CommandsSound'
    <3> SUFFICES ASSUME NEW o \in Operators, cmd[o] # Reader!Idle PROVE CommandSound(o, cmd[o])'
      BY <2>1 DEF CommandsSound, Running
    <3>1. CommandSound(o, cmd[o]) BY DEF AccountInv, CommandsSound, Running
    <3>2. cmd[o].read.etag \in Nat BY <1>t DEF Commands, Reader!Policies
    <3> QED BY <1>t, <2>1, <2>2, <3>1, <3>2 DEF CommandSound
  <2>4. ReadySound' /\ RevokedSound' /\ Exclusive'
    BY <2>1, <2>2 DEF AccountInv, ReadySound, RevokedSound, Exclusive, Running
  <2> QED BY <2>1, <2>2, <2>3, <2>4 DEF AccountInv, Reader!TypeOK, Reader!NothingDropped
<1>4. ASSUME NEW a \in Accounts, Reader!DeleteByHand(a) PROVE AccountInv'
  <2>1. /\ UNCHANGED <<known, policy, cmd, stamps, foreign, revoked>>
        /\ accounts' = accounts \ {a} /\ elsewhere' = elsewhere \ {a}
        /\ granted' = {g \in granted : g[1] # a} /\ effective' = {g \in effective : g[1] # a}
        /\ ready' = {r \in ready : r[1] # a}
        /\ \A o \in Operators : Running(o) => cmd[o].acct # a
    BY <1>4 DEF Reader!DeleteByHand, Reader!InUse, Reader!Acct, Running
  <2>2. CommandsSound'
    <3> SUFFICES ASSUME NEW o \in Operators, Running(o) PROVE CommandSound(o, cmd[o])'
      BY <2>1 DEF CommandsSound, Running
    <3>1. CommandSound(o, cmd[o]) BY DEF AccountInv, CommandsSound
    <3>2. <<cmd[o].acct, o>>[1] = cmd[o].acct OBVIOUS
    <3> QED BY <2>1, <3>1, <3>2 DEF CommandSound
  <2>3. ReadySound' /\ RevokedSound' /\ Exclusive'
    BY <2>1 DEF AccountInv, ReadySound, RevokedSound, Exclusive, Running
  <2>4. granted' \subseteq accounts' \X Operators
    <3> SUFFICES ASSUME NEW g \in granted, g[1] # a PROVE g \in accounts' \X Operators BY <2>1
    <3>1. g \in accounts \X Operators BY <1>t
    <3> QED BY <2>1, <3>1
  <2>5. Reader!TypeOK' BY <1>t, <2>1, <2>4 DEF AccountInv, Reader!TypeOK
  <2> QED BY <2>1, <2>2, <2>3, <2>5 DEF AccountInv, Reader!NothingDropped
<1> QED BY <1>1, <1>2, <1>3, <1>4

\* A command starts: of a new account, of one another command is about to make,
\* or to remove one that none provisions.
LEMMA CommandStarts ==
  ASSUME AccountInv, NEW o \in Operators, NEW a \in Accounts,
         Reader!Provision(o, a) \/ Reader!Revoke(o, a)
  PROVE  AccountInv'
<1>t. /\ accounts \subseteq stamps /\ stamps \subseteq Accounts
      /\ policy \in Reader!Policies /\ policy.etag \in Nat
      /\ cmd \in [Operators -> {Reader!Idle} \cup Commands]
      /\ \A p \in Operators : Running(p) => cmd[p].acct \in stamps
      /\ \A b \in revoked : b \in stamps
  BY AccountTypes DEF AccountInv, CommandsSound, CommandSound, RevokedSound
<1>1. CASE Reader!Provision(o, a)
  <2>1. PICK key \in BOOLEAN :
          cmd' = [cmd EXCEPT ![o] = [at |-> "create", acct |-> a, tries |-> 1,
                                     read |-> policy, key |-> key]]
    BY <1>1 DEF Reader!Provision, Reader!Flags
  <2>2. /\ cmd[o] = Reader!Idle /\ stamps' = stamps \cup {a}
        /\ a \in stamps => \E p \in Operators : cmd[p].at = "create" /\ cmd[p].acct = a
        /\ UNCHANGED <<accounts, known, granted, effective, policy, foreign, ready,
                       revoked, elsewhere>>
    BY <1>1 DEF Reader!Provision, Reader!At, Reader!Acct
  <2> DEFINE next == [at |-> "create", acct |-> a, tries |-> 1, read |-> policy, key |-> key]
  <2>3. next \in Commands BY <1>t, StageNames DEF Commands
  <2>4. next.at = "create" /\ next.acct = a /\ next.read = policy OBVIOUS
  <2>5. cmd' = [cmd EXCEPT ![o] = next] BY <2>1
  <2> HIDE DEF next
  <2>6. \A p \in Operators : cmd'[p] = IF p = o THEN next ELSE cmd[p] BY <1>t, <2>5
  <2>7. cmd' \in [Operators -> {Reader!Idle} \cup Commands] BY <1>t, <2>3, <2>5
  <2>8. \A p \in Operators : Running(p) /\ cmd[p].acct = a => cmd[p].at \notin Reader!Revoking
    <3> SUFFICES ASSUME NEW p \in Operators, Running(p), cmd[p].acct = a
                 PROVE  cmd[p].at \notin Reader!Revoking
      OBVIOUS
    <3>1. a \in stamps BY <1>t
    <3>2. PICK q \in Operators : cmd[q].at = "create" /\ cmd[q].acct = a BY <2>2, <3>1
    <3>3. Running(q) BY <3>2 DEF Running, Reader!Idle
    <3> QED BY <3>2, <3>3, StageNames DEF AccountInv, Exclusive
  <2>9. Exclusive' BY <2>4, <2>6, <2>8, StageNames DEF AccountInv, Exclusive, Running
  <2>10. next.at \notin Reader!Revoking
    BY <2>4, StageNames
  <2>11. CommandsSound'
    <3>1. CommandSound(o, cmd[o])'
      <4>1. cmd'[o] = next BY <2>6
      <4> QED BY <1>t, <2>2, <2>4, <2>6, <2>10, <4>1 DEF CommandSound
    <3>2. \A p \in Operators : Running(p) => CommandSound(p, cmd[p])
      BY DEF AccountInv, CommandsSound
    <3>3. ASSUME NEW p \in Operators, Running(p)', p # o PROVE CommandSound(p, cmd[p])'
      <4>1. CommandSound(p, cmd[p]) BY <2>6, <3>2, <3>3 DEF Running
      <4>2. cmd'[p] = cmd[p] BY <2>6, <3>3
      <4> QED BY <2>2, <4>1, <4>2 DEF CommandSound
    <3> QED BY <3>1, <3>3 DEF CommandsSound
  <2>12. a \notin revoked
    <3> SUFFICES ASSUME a \in revoked PROVE FALSE OBVIOUS
    <3>1. PICK q \in Operators : cmd[q].at = "create" /\ cmd[q].acct = a BY <1>t, <2>2
    <3>2. Running(q) BY <3>1 DEF Running, Reader!Idle
    <3> QED BY <3>1, <3>2, StageNames DEF AccountInv, RevokedSound
  <2>13. RevokedSound' BY <2>2, <2>4, <2>6, <2>12 DEF AccountInv, RevokedSound, Running
  <2>14. ReadySound' BY <2>2 DEF AccountInv, ReadySound
  <2>15. Reader!TypeOK' BY <1>t, <2>2, <2>7 DEF AccountInv, Reader!TypeOK, Commands
  <2> QED BY <2>2, <2>9, <2>11, <2>13, <2>14, <2>15 DEF AccountInv, Reader!NothingDropped
<1>2. CASE Reader!Revoke(o, a)
  <2> DEFINE next == [at |-> "look", acct |-> a, tries |-> 1, read |-> policy, key |-> FALSE]
  <2>1. /\ cmd[o] = Reader!Idle /\ a \in stamps /\ ready' = {r \in ready : r[1] # a}
        /\ \A p \in Operators : Running(p) /\ cmd[p].acct = a
                                  => cmd[p].at \notin Reader!Provisioning
        /\ UNCHANGED <<accounts, known, granted, effective, policy, stamps, foreign,
                       revoked, elsewhere>>
        /\ cmd' = [cmd EXCEPT ![o] = next]
    BY <1>2 DEF Reader!Revoke, Reader!Acct, Running
  <2>2. next \in Commands BY <1>t, StageNames DEF Commands
  <2>3. next.at = "look" /\ next.acct = a /\ next.read = policy OBVIOUS
  <2> HIDE DEF next
  <2>4. \A p \in Operators : cmd'[p] = IF p = o THEN next ELSE cmd[p] BY <1>t, <2>1
  <2>5. cmd' \in [Operators -> {Reader!Idle} \cup Commands] BY <1>t, <2>1, <2>2
  <2>6. next.at \in Reader!Revoking /\ next.at \notin Reader!Provisioning BY <2>3, StageNames
  <2>7. Exclusive' BY <2>1, <2>3, <2>4, <2>6 DEF AccountInv, Exclusive, Running
  <2>8. CommandsSound'
    <3>1. CommandSound(o, cmd[o])'
      <4>1. cmd'[o] = next BY <2>4
      <4> QED BY <1>t, <2>1, <2>3, <2>4, <2>6, <4>1 DEF CommandSound
    <3>2. \A p \in Operators : Running(p) => CommandSound(p, cmd[p])
      BY DEF AccountInv, CommandsSound
    <3>3. ASSUME NEW p \in Operators, Running(p)', p # o PROVE CommandSound(p, cmd[p])'
      <4>1. CommandSound(p, cmd[p]) BY <2>4, <3>2, <3>3 DEF Running
      <4>2. cmd'[p] = cmd[p] BY <2>4, <3>3
      <4> QED BY <2>1, <4>1, <4>2 DEF CommandSound
    <3> QED BY <3>1, <3>3 DEF CommandsSound
  <2>9. RevokedSound' BY <2>1, <2>4, <2>6 DEF AccountInv, RevokedSound, Running
  <2>10. ReadySound' BY <2>1 DEF AccountInv, ReadySound
  <2>11. Reader!TypeOK' BY <2>1, <2>5 DEF AccountInv, Reader!TypeOK, Commands
  <2> QED BY <2>1, <2>7, <2>8, <2>9, <2>10, <2>11 DEF AccountInv, Reader!NothingDropped
<1> QED BY <1>1, <1>2

\* A step of a running command that changes the command alone.
LEMMA QuietStepKeeps ==
  ASSUME AccountInv, NEW o \in Operators,
         \/ Reader!Fail(o) \/ Reader!ReadPolicy(o) \/ Reader!LookForBinding(o)
  PROVE  AccountInv'
<1>1. /\ Running(o)
      /\ UNCHANGED <<accounts, known, granted, effective, policy, stamps, foreign, ready,
                     revoked, elsewhere>>
  BY DEF Reader!Fail, Reader!ReadPolicy, Reader!LookForBinding, Reader!At, Running, Reader!Idle
<1>2. cmd[o] \in Commands /\ CommandSound(o, cmd[o])
  BY <1>1, AccountTypes DEF Running, AccountInv, CommandsSound
<1>t. policy \in Reader!Policies /\ policy.etag \in Nat BY AccountTypes
<1>3. CASE Reader!Fail(o)
  BY <1>1, <1>3, Ends, OnlyAdvances DEF Reader!Fail
<1>4. ASSUME NEW step,
             \/ step = "write" /\ cmd[o].at = "read"
             \/ step = "unbind" /\ cmd[o].at = "look"
             \/ step = "delete" /\ cmd[o].at = "look" /\ cmd[o].acct \notin policy.readers,
             cmd' = [cmd EXCEPT ![o] = [@ EXCEPT !.at = step, !.read = policy]]
      PROVE  AccountInv'
  <2> DEFINE one == [cmd[o] EXCEPT !.at = step]
             next == [one EXCEPT !.read = policy]
  <2>1. next = [cmd[o] EXCEPT !.at = step, !.read = policy] OBVIOUS
  <2>2. one \in Commands /\ one.at = step /\ one.acct = cmd[o].acct
    BY <1>2, <1>4, StageNames DEF Commands
  <2>3. /\ next \in Commands
        /\ next.at = step /\ next.acct = cmd[o].acct /\ next.read = policy
    <3> HIDE DEF one
    <3> QED BY <1>t, <2>2 DEF Commands
  <2> HIDE DEF next
  <2>4. cmd' = [cmd EXCEPT ![o] = next] BY <1>4, <2>1
  <2>5. Advances(o, next) BY <1>4, <2>3, <2>4, StageNames DEF Advances
  <2>6. next.at \in Reader!Revoking <=> cmd[o].at \in Reader!Revoking
    BY <1>4, <2>3, StageNames
  <2>7. CommandSound(o, next)
    BY <1>2, <1>4, <1>t, <2>3, <2>6 DEF CommandSound
  <2> QED BY <1>1, <2>5, <2>7, OnlyAdvances
<1>5. CASE Reader!ReadPolicy(o)
  <2>1. cmd[o].at = "read" /\ cmd' = [cmd EXCEPT ![o] = [@ EXCEPT !.at = "write", !.read = policy]]
    BY <1>5 DEF Reader!ReadPolicy, Reader!At
  <2> QED BY <1>4, <2>1
<1>6. CASE Reader!LookForBinding(o)
  <2>1. /\ cmd[o].at = "look"
        /\ \/ /\ cmd[o].acct \in policy.readers
              /\ cmd' = [cmd EXCEPT ![o] = [@ EXCEPT !.at = "unbind", !.read = policy]]
           \/ /\ cmd[o].acct \notin policy.readers
              /\ cmd' = [cmd EXCEPT ![o] = [@ EXCEPT !.at = "delete", !.read = policy]]
    <3>1. CASE cmd[o].acct \in policy.readers
      <4>1. cmd' = [cmd EXCEPT ![o] = [@ EXCEPT !.read = policy, !.at = "unbind"]]
        BY <1>6, <3>1 DEF Reader!LookForBinding, Reader!Acct
      <4>2. [cmd[o] EXCEPT !.read = policy, !.at = "unbind"]
              = [cmd[o] EXCEPT !.at = "unbind", !.read = policy]
        BY <1>2 DEF Commands
      <4> QED BY <1>6, <3>1, <4>1, <4>2 DEF Reader!LookForBinding, Reader!At
    <3>2. CASE cmd[o].acct \notin policy.readers
      <4>1. cmd' = [cmd EXCEPT ![o] = [@ EXCEPT !.read = policy, !.at = "delete"]]
        BY <1>6, <3>2 DEF Reader!LookForBinding, Reader!Acct
      <4>2. [cmd[o] EXCEPT !.read = policy, !.at = "delete"]
              = [cmd[o] EXCEPT !.at = "delete", !.read = policy]
        BY <1>2 DEF Commands
      <4> QED BY <1>6, <3>2, <4>1, <4>2 DEF Reader!LookForBinding, Reader!At
    <3> QED BY <3>1, <3>2
  <2> QED BY <1>4, <2>1
<1> QED BY <1>3, <1>5, <1>6

\* What a step must show when it changes more than the command: what the other
\* commands go by, and what is ready and what is revoked.
LEMMA StepKeeps ==
  ASSUME AccountInv, NEW o \in Operators, Running(o), NEW next, Advances(o, next),
         Reader!TypeOK', Reader!NothingDropped', ReadySound',
         next # Reader!Idle => CommandSound(o, cmd[o])',
         \A p \in Operators :
           p # o /\ Running(p) /\ CommandSound(p, cmd[p]) /\ cmd'[p] = cmd[p]
             => CommandSound(p, cmd[p])',
         \A a \in revoked' :
           /\ a \in stamps' /\ a \notin accounts' \ elsewhere' /\ a \notin policy'.readers
           /\ \A p \in Operators : Running(p) /\ cmd[p].acct = a
                                     => cmd[p].at \notin Reader!Provisioning
  PROVE  AccountInv'
<1>1. /\ \A p \in Operators : cmd'[p] = IF p = o THEN next ELSE cmd[p]
      /\ Exclusive'
  BY AdvancesKeeps
<1>2. \A p \in Operators : Running(p) => CommandSound(p, cmd[p])
  BY DEF AccountInv, CommandsSound
<1>3. CommandsSound'
  <2> SUFFICES ASSUME NEW p \in Operators, cmd'[p] # Reader!Idle PROVE CommandSound(p, cmd[p])'
    BY DEF CommandsSound, Running
  <2>1. CASE p = o BY <1>1, <2>1
  <2>2. CASE p # o
    <3>1. cmd'[p] = cmd[p] /\ Running(p) BY <1>1, <2>2 DEF Running
    <3> QED BY <1>2, <2>2, <3>1
  <2> QED BY <2>1, <2>2
<1>4. RevokedSound'
  <2> SUFFICES ASSUME NEW a \in revoked'
               PROVE  \A p \in Operators : Running(p)' /\ cmd'[p].acct = a
                                             => cmd'[p].at \notin Reader!Provisioning
    BY DEF RevokedSound
  <2>1. \A p \in Operators : Running(p) /\ cmd[p].acct = a => cmd[p].at \notin Reader!Provisioning
    OBVIOUS
  <2> QED BY <2>1, AdvancesKeeps
<1> QED BY <1>1, <1>3, <1>4 DEF AccountInv

LEMMA CreateKeeps == ASSUME AccountInv, NEW o \in Operators, Reader!Create(o) PROVE AccountInv'
<1>t. /\ accounts \subseteq stamps /\ granted \subseteq accounts \X Operators
      /\ stamps \subseteq Accounts
      /\ cmd \in [Operators -> {Reader!Idle} \cup Commands]
  BY AccountTypes
<1>1. /\ cmd[o].at = "create"
      /\ UNCHANGED <<known, granted, effective, policy, stamps, foreign, ready,
                     revoked, elsewhere>>
  BY DEF Reader!Create, Reader!At
<1>2. Running(o) /\ cmd[o] \in Commands /\ CommandSound(o, cmd[o]) BY <1>1, AtStage
<1>3. \A a \in revoked :
        /\ a \in stamps /\ a \notin accounts \ elsewhere /\ a \notin policy.readers
        /\ \A p \in Operators : Running(p) /\ cmd[p].acct = a
                                  => cmd[p].at \notin Reader!Provisioning
  BY DEF AccountInv, RevokedSound
<1>4. cmd[o].acct \notin revoked BY <1>1, <1>2, <1>3, StageNames
<1>5. PICK next :
        /\ Advances(o, next)
        /\ next # Reader!Idle => /\ next.at = "read" /\ next.acct = cmd[o].acct
                                 /\ next.read = cmd[o].read
  <2>1. CASE Reader!Exit(o) BY <2>1, Ends
  <2>2. CASE Reader!Goto(o, "read")
    <3>1. "read" \in Reader!Provisioning /\ cmd[o].at \in Reader!Provisioning
      BY <1>1, StageNames
    <3> QED BY <1>2, <2>2, <3>1, Comes
  <2> QED BY <2>1, <2>2 DEF Reader!Create
<1>6. cmd' \in [Operators -> {Reader!Idle} \cup Commands] /\ cmd'[o] = next
  BY <1>2, <1>5, AdvancesKeeps
<1>7. accounts' = accounts \/ accounts' = accounts \cup {cmd[o].acct}
  BY DEF Reader!Create, Reader!Acct
<1>8. accounts' \subseteq stamps /\ accounts \subseteq accounts'
  BY <1>t, <1>2, <1>7 DEF CommandSound
<1>9. Reader!TypeOK'
  BY <1>t, <1>1, <1>6, <1>8 DEF AccountInv, Reader!TypeOK, Commands
<1>10. next # Reader!Idle => CommandSound(o, cmd[o])'
  BY <1>1, <1>2, <1>5, <1>6 DEF CommandSound, Reader!Revoking
<1>11. \A p \in Operators : CommandSound(p, cmd[p]) /\ cmd'[p] = cmd[p] => CommandSound(p, cmd[p])'
  BY <1>1 DEF CommandSound
<1>12. ReadySound' /\ Reader!NothingDropped'
  BY <1>1 DEF AccountInv, ReadySound, Reader!NothingDropped
<1>13. \A a \in revoked' : a \in stamps' /\ a \notin accounts' \ elsewhere' /\ a \notin policy'.readers
  BY <1>1, <1>3, <1>4, <1>7
<1> QED BY <1>1, <1>2, <1>3, <1>5, <1>9, <1>10, <1>11, <1>12, <1>13, StepKeeps

\* The policy that is written is the one that stands, but for one reader.
Rewritten(readers) ==
  policy' = [etag |-> policy.etag + 1, readers |-> readers, teams |-> policy.teams]

LEMMA RewrittenPolicy ==
  ASSUME AccountInv, NEW readers \in SUBSET Accounts, Rewritten(readers)
  PROVE  /\ policy' \in Reader!Policies /\ policy'.etag = policy.etag + 1
         /\ policy'.readers = readers /\ policy'.teams = policy.teams
         /\ \A o \in Operators, c \in Commands :
              c.read.etag <= policy.etag
                => c.read.etag <= policy'.etag /\ c.read.etag # policy'.etag
<1>1. policy \in Reader!Policies /\ policy.etag \in Nat BY AccountTypes
<1>2. /\ policy' \in Reader!Policies /\ policy'.etag = policy.etag + 1
      /\ policy'.readers = readers /\ policy'.teams = policy.teams
  BY <1>1 DEF Rewritten, Reader!Policies
<1>3. \A c \in Commands : c.read.etag \in Nat BY DEF Commands, Reader!Policies
<1> QED BY <1>1, <1>2, <1>3

LEMMA WritePolicyKeeps ==
  ASSUME AccountInv, NEW o \in Operators, Reader!WritePolicy(o) PROVE AccountInv'
<1> DEFINE a == cmd[o].acct
<1>t. /\ policy \in Reader!Policies /\ policy.etag \in Nat /\ policy.readers \subseteq Accounts
      /\ policy.teams = foreign
  BY AccountTypes
<1>1. /\ cmd[o].at = "write"
      /\ UNCHANGED <<accounts, known, granted, effective, stamps, foreign, ready,
                     revoked, elsewhere>>
  BY DEF Reader!WritePolicy, Reader!At
<1>2. Running(o) /\ cmd[o] \in Commands /\ CommandSound(o, cmd[o]) /\ a \in Accounts
  BY <1>1, AtStage
<1>3. CASE /\ cmd' = [cmd EXCEPT ![o] = [cmd[o] EXCEPT !.at = "read", !.tries = cmd[o].tries + 1]]
           /\ policy' = policy
  <2> DEFINE one == [cmd[o] EXCEPT !.at = "read"]
             next == [one EXCEPT !.tries = cmd[o].tries + 1]
  <2>1. one \in Commands /\ one.at = "read" /\ one.acct = a /\ one.read = cmd[o].read
    BY <1>2, StageNames DEF Commands
  <2>2. cmd[o].tries + 1 \in Nat BY <1>2 DEF Commands
  <2>3. next \in Commands /\ next.at = "read" /\ next.acct = a /\ next.read = cmd[o].read
    <3> HIDE DEF one
    <3> QED BY <2>1, <2>2 DEF Commands
  <2>4. cmd' = [cmd EXCEPT ![o] = next] BY <1>3
  <2> HIDE DEF next
  <2>5. Advances(o, next) BY <1>1, <2>3, <2>4, StageNames DEF Advances
  <2>6. CommandSound(o, next) BY <1>2, <2>3 DEF CommandSound, Reader!Revoking
  <2> QED BY <1>1, <1>2, <1>3, <2>5, <2>6, OnlyAdvances
<1>4. CASE /\ Reader!SetIamPolicy(cmd[o].read, Reader!AddBucketBinding(cmd[o].read, a))
           /\ Reader!Goto(o, "grant") \/ Reader!Exit(o)
  <2>1. cmd[o].read = policy BY <1>2, <1>4 DEF CommandSound, Reader!SetIamPolicy
  <2> DEFINE readers == policy.readers \cup {a}
  <2>2. Rewritten(readers)
    <3>1. policy' = [[policy EXCEPT !.readers = @ \cup {a}] EXCEPT !.etag = policy.etag + 1]
      BY <1>4, <2>1 DEF Reader!SetIamPolicy, Reader!AddBucketBinding
    <3> QED BY <1>t, <3>1 DEF Rewritten, Reader!Policies
  <2>3. /\ policy' \in Reader!Policies /\ policy'.readers = readers /\ policy'.teams = policy.teams
        /\ \A c \in Commands : c.read.etag <= policy.etag
                                 => c.read.etag <= policy'.etag /\ c.read.etag # policy'.etag
    <3>1. readers \in SUBSET Accounts BY <1>t, <1>2
    <3> QED BY <2>2, <3>1, RewrittenPolicy
  <2>4. PICK next :
          /\ Advances(o, next)
          /\ next # Reader!Idle => /\ next.at = "grant" /\ next.acct = a
                                   /\ next.read = cmd[o].read /\ next \in Commands
    <3>1. CASE Reader!Exit(o) BY <3>1, Ends
    <3>2. CASE Reader!Goto(o, "grant")
      <4>1. "grant" \in Reader!Provisioning /\ cmd[o].at \in Reader!Provisioning
        BY <1>1, StageNames
      <4> QED BY <1>2, <3>2, <4>1, Comes
    <3> QED BY <1>4, <3>1, <3>2
  <2>5. cmd' \in [Operators -> {Reader!Idle} \cup Commands] /\ cmd'[o] = next
    BY <1>2, <2>4, AdvancesKeeps
  <2>6. Reader!TypeOK' BY <1>1, <2>3, <2>5 DEF AccountInv, Reader!TypeOK, Commands
  <2>7. next # Reader!Idle => CommandSound(o, cmd[o])'
    <3> SUFFICES ASSUME next # Reader!Idle PROVE CommandSound(o, cmd[o])' OBVIOUS
    <3>1. next.read.etag <= policy'.etag /\ next.read.etag # policy'.etag
      BY <1>2, <2>3, <2>4 DEF CommandSound
    <3>2. next.at = "grant" /\ next.at \notin Reader!Revoking BY <2>4, StageNames
    <3> QED BY <1>1, <1>2, <2>3, <2>4, <2>5, <3>1, <3>2 DEF CommandSound
  <2>8. ASSUME NEW p \in Operators, p # o, Running(p), CommandSound(p, cmd[p]), cmd'[p] = cmd[p]
        PROVE  CommandSound(p, cmd[p])'
    <3>1. cmd[p] \in Commands BY <2>8, AccountTypes DEF Running
    <3>2. cmd[p].read.etag <= policy'.etag /\ cmd[p].read.etag # policy'.etag
      BY <2>3, <2>8, <3>1 DEF CommandSound
    <3>3. cmd[p].at = "delete" => cmd[p].acct # a
      BY <1>1, <1>2, <2>8, StageNames DEF AccountInv, Exclusive
    <3> QED BY <1>1, <2>3, <2>8, <3>2, <3>3 DEF CommandSound
  <2>9. ReadySound' BY <1>1, <2>3 DEF AccountInv, ReadySound
  <2>10. Reader!NothingDropped' BY <1>1, <1>t, <2>3 DEF Reader!NothingDropped
  <2>11. \A b \in revoked :
           /\ b \in stamps /\ b \notin accounts \ elsewhere /\ b \notin policy.readers
           /\ \A p \in Operators : Running(p) /\ cmd[p].acct = b
                                     => cmd[p].at \notin Reader!Provisioning
    BY DEF AccountInv, RevokedSound
  <2>12. a \notin revoked BY <1>1, <1>2, <2>11, StageNames
  <2>13. \A b \in revoked' : b \in stamps' /\ b \notin accounts' \ elsewhere' /\ b \notin policy'.readers
    BY <1>1, <2>3, <2>11, <2>12
  <2> HIDE DEF a
  <2> QED BY <1>1, <1>2, <2>4, <2>6, <2>7, <2>8, <2>9, <2>10, <2>11, <2>13, StepKeeps
<1> QED BY <1>3, <1>4 DEF Reader!WritePolicy, Reader!Acct

LEMMA GrantKeeps ==
  ASSUME AccountInv, NEW o \in Operators, Reader!GrantTokenCreator(o) PROVE AccountInv'
<1>1. /\ cmd[o].at = "grant" /\ cmd[o].acct \in accounts
      /\ granted' = granted \cup {<<cmd[o].acct, o>>}
      /\ UNCHANGED <<accounts, known, effective, policy, stamps, foreign, ready,
                     revoked, elsewhere>>
  BY DEF Reader!GrantTokenCreator, Reader!At, Reader!Acct
<1>2. Running(o) /\ cmd[o] \in Commands /\ CommandSound(o, cmd[o]) BY <1>1, AtStage
<1>3. PICK next :
        /\ Advances(o, next)
        /\ next # Reader!Idle => /\ next.at = "verify" /\ next.acct = cmd[o].acct
                                 /\ next.read = cmd[o].read
  <2>1. CASE Reader!Exit(o) BY <2>1, Ends
  <2>2. CASE cmd' = [cmd EXCEPT ![o] = [@ EXCEPT !.at = "verify", !.tries = 1]]
    <3> DEFINE one == [cmd[o] EXCEPT !.at = "verify"]
               next == [one EXCEPT !.tries = 1]
    <3>1. /\ one \in Commands /\ one.at = "verify" /\ one.acct = cmd[o].acct
          /\ one.read = cmd[o].read
      BY <1>2, StageNames DEF Commands
    <3>2. /\ next \in Commands /\ next.at = "verify" /\ next.acct = cmd[o].acct
          /\ next.read = cmd[o].read
      <4> HIDE DEF one
      <4> QED BY <3>1 DEF Commands
    <3>3. cmd' = [cmd EXCEPT ![o] = next] BY <2>2
    <3> HIDE DEF next
    <3>4. Advances(o, next) BY <1>1, <3>2, <3>3, StageNames DEF Advances
    <3> QED BY <3>2, <3>4
  <2> QED BY <2>1, <2>2 DEF Reader!GrantTokenCreator
<1>4. cmd' \in [Operators -> {Reader!Idle} \cup Commands] /\ cmd'[o] = next
  BY <1>2, <1>3, AdvancesKeeps
<1>5. Reader!TypeOK' BY <1>1, <1>4, AccountTypes DEF AccountInv, Reader!TypeOK, Commands
<1>6. next # Reader!Idle => CommandSound(o, cmd[o])'
  BY <1>1, <1>2, <1>3, <1>4 DEF CommandSound, Reader!Revoking
<1>7. \A p \in Operators : CommandSound(p, cmd[p]) /\ cmd'[p] = cmd[p] => CommandSound(p, cmd[p])'
  BY <1>1 DEF CommandSound
<1>8. ReadySound' /\ Reader!NothingDropped'
  BY <1>1 DEF AccountInv, ReadySound, Reader!NothingDropped
<1>9. \A a \in revoked' :
        /\ a \in stamps' /\ a \notin accounts' \ elsewhere' /\ a \notin policy'.readers
        /\ \A p \in Operators : Running(p) /\ cmd[p].acct = a
                                  => cmd[p].at \notin Reader!Provisioning
  BY <1>1 DEF AccountInv, RevokedSound
<1> QED BY <1>2, <1>3, <1>5, <1>6, <1>7, <1>8, <1>9, StepKeeps

\* The last steps of a provision, of which only the end is more than a stage.
LEMMA ProbeKeeps ==
  ASSUME AccountInv, NEW o \in Operators, Reader!Probe(o) \/ Reader!CreateKey(o)
  PROVE  AccountInv'
<1> DEFINE a == cmd[o].acct
<1>1. /\ cmd[o].at \in {"verify", "key"}
      /\ UNCHANGED <<accounts, known, granted, effective, policy, stamps, foreign,
                     revoked, elsewhere>>
  BY DEF Reader!Probe, Reader!CreateKey, Reader!At
<1>2. Running(o) /\ cmd[o] \in Commands /\ CommandSound(o, cmd[o]) /\ a \in Accounts
  BY <1>1, AtStage
<1>3. cmd[o].at \in Reader!Provisioning BY <1>1, StageNames
<1>4. CASE Reader!Exit(o) /\ ready' = ready
  BY <1>1, <1>2, <1>4, Ends, OnlyAdvances
<1>5. CASE cmd[o].at = "verify" /\ <<a, o>> \in effective /\ Reader!Goto(o, "key") /\ ready' = ready
  <2>1. PICK next \in Commands :
          /\ Advances(o, next) /\ next.at = "key" /\ next.acct = a /\ next.read = cmd[o].read
    BY <1>2, <1>3, <1>5, StageNames, Comes
  <2>2. CommandSound(o, next) BY <1>2, <1>5, <2>1 DEF CommandSound, Reader!Revoking
  <2> QED BY <1>1, <1>2, <1>5, <2>1, <2>2, OnlyAdvances
<1>6. CASE /\ cmd' = [cmd EXCEPT ![o] = [cmd[o] EXCEPT !.tries = cmd[o].tries + 1]]
           /\ ready' = ready /\ cmd[o].at = "verify"
  <2> DEFINE next == [cmd[o] EXCEPT !.tries = cmd[o].tries + 1]
  <2>1. /\ next \in Commands /\ next.at = "verify" /\ next.acct = a /\ next.read = cmd[o].read
    BY <1>2, <1>6 DEF Commands
  <2>2. cmd' = [cmd EXCEPT ![o] = next] BY <1>6
  <2> HIDE DEF next
  <2>3. Advances(o, next) BY <1>3, <2>1, <2>2, StageNames DEF Advances
  <2>4. CommandSound(o, next) BY <1>2, <1>6, <2>1 DEF CommandSound, Reader!Revoking
  <2> QED BY <1>1, <1>2, <1>6, <2>3, <2>4, OnlyAdvances
<1>7. CASE <<a, o>> \in effective /\ Reader!Exit(o) /\ ready' = ready \cup {<<a, o>>}
  <2>1. Advances(o, Reader!Idle) BY <1>7, Ends
  <2>2. cmd' \in [Operators -> {Reader!Idle} \cup Commands] BY <1>2, <2>1, AdvancesKeeps
  <2>3. a \in policy.readers BY <1>1, <1>2 DEF CommandSound
  <2>4. <<a, o>>[1] = a OBVIOUS
  <2>5. ReadySound' BY <1>1, <1>7, <2>3, <2>4 DEF AccountInv, ReadySound
  <2>6. Reader!TypeOK' BY <1>1, <1>2, <1>7, <2>2 DEF AccountInv, Reader!TypeOK, Commands
  <2>7. ASSUME NEW p \in Operators, p # o, Running(p), CommandSound(p, cmd[p]), cmd'[p] = cmd[p]
        PROVE  CommandSound(p, cmd[p])'
    <3>1. cmd[p].at \in Reader!Revoking => cmd[p].acct # a
      BY <1>2, <1>3, <2>7 DEF AccountInv, Exclusive
    <3> QED BY <1>1, <1>7, <2>4, <2>7, <3>1 DEF CommandSound
  <2>8. \A b \in revoked' :
          /\ b \in stamps' /\ b \notin accounts' \ elsewhere' /\ b \notin policy'.readers
          /\ \A p \in Operators : Running(p) /\ cmd[p].acct = b
                                    => cmd[p].at \notin Reader!Provisioning
    BY <1>1 DEF AccountInv, RevokedSound
  <2>9. Reader!NothingDropped' BY <1>1 DEF AccountInv, Reader!NothingDropped
  <2> QED BY <1>2, <2>1, <2>5, <2>6, <2>7, <2>8, <2>9, StepKeeps
<1>8. Reader!CreateKey(o) => <<a, o>> \in effective
  BY <1>2 DEF Reader!CreateKey, Reader!At, CommandSound
<1> QED BY <1>4, <1>5, <1>6, <1>7, <1>8
     DEF Reader!Probe, Reader!CreateKey, Reader!At, Reader!Acct

LEMMA UnbindKeeps == ASSUME AccountInv, NEW o \in Operators, Reader!Unbind(o) PROVE AccountInv'
<1> DEFINE a == cmd[o].acct
           readers == policy.readers \ {a}
<1>t. /\ policy \in Reader!Policies /\ policy.etag \in Nat /\ policy.readers \subseteq Accounts
      /\ policy.teams = foreign
  BY AccountTypes
<1>1. /\ cmd[o].at = "unbind"
      /\ UNCHANGED <<accounts, known, granted, effective, stamps, foreign, ready,
                     revoked, elsewhere>>
      /\ Reader!SetIamPolicy(cmd[o].read, [cmd[o].read EXCEPT !.readers = @ \ {a}])
  BY DEF Reader!Unbind, Reader!At, Reader!Acct
<1>2. Running(o) /\ cmd[o] \in Commands /\ CommandSound(o, cmd[o]) /\ a \in Accounts
  BY <1>1, AtStage
<1>3. cmd[o].read = policy BY <1>1, <1>2 DEF CommandSound, Reader!SetIamPolicy
<1>4. Rewritten(readers)
  <2>1. policy' = [[policy EXCEPT !.readers = @ \ {a}] EXCEPT !.etag = policy.etag + 1]
    BY <1>1, <1>3 DEF Reader!SetIamPolicy
  <2> QED BY <1>t, <2>1 DEF Rewritten, Reader!Policies
<1>5. /\ policy' \in Reader!Policies /\ policy'.readers = readers /\ policy'.teams = policy.teams
      /\ \A c \in Commands : c.read.etag <= policy.etag
                               => c.read.etag <= policy'.etag /\ c.read.etag # policy'.etag
  <2>1. readers \in SUBSET Accounts BY <1>t
  <2> QED BY <1>2, <1>4, <2>1, RewrittenPolicy
<1>6. PICK next :
        /\ Advances(o, next)
        /\ next # Reader!Idle => /\ next.at = "delete" /\ next.acct = a
                                 /\ next.read = cmd[o].read /\ next \in Commands
  <2>1. CASE Reader!Exit(o) BY <2>1, Ends
  <2>2. CASE Reader!Goto(o, "delete")
    <3>1. "delete" \in Reader!Revoking /\ cmd[o].at \in Reader!Revoking BY <1>1, StageNames
    <3> QED BY <1>2, <2>2, <3>1, Comes
  <2> QED BY <2>1, <2>2 DEF Reader!Unbind
<1>7. cmd' \in [Operators -> {Reader!Idle} \cup Commands] /\ cmd'[o] = next
  BY <1>2, <1>6, AdvancesKeeps
<1>8. Reader!TypeOK' BY <1>1, <1>5, <1>7 DEF AccountInv, Reader!TypeOK, Commands
<1>9. \A r \in ready : r[1] # a BY <1>1, <1>2, StageNames DEF CommandSound
<1>10. next # Reader!Idle => CommandSound(o, cmd[o])'
  <2> SUFFICES ASSUME next # Reader!Idle PROVE CommandSound(o, cmd[o])' OBVIOUS
  <2>1. next.read.etag <= policy'.etag /\ next.read.etag # policy'.etag
    BY <1>2, <1>5, <1>6 DEF CommandSound
  <2> QED BY <1>1, <1>2, <1>5, <1>6, <1>7, <1>9, <2>1 DEF CommandSound
<1>11. ASSUME NEW p \in Operators, p # o, Running(p), CommandSound(p, cmd[p]), cmd'[p] = cmd[p]
       PROVE  CommandSound(p, cmd[p])'
  <2>1. cmd[p] \in Commands BY <1>11, AccountTypes DEF Running
  <2>2. cmd[p].read.etag <= policy'.etag /\ cmd[p].read.etag # policy'.etag
    BY <1>5, <1>11, <2>1 DEF CommandSound
  <2>3. cmd[p].at \in {"grant", "verify", "key"} => cmd[p].acct # a
    BY <1>1, <1>2, <1>11, StageNames DEF AccountInv, Exclusive
  <2> QED BY <1>1, <1>5, <1>11, <2>2, <2>3 DEF CommandSound
<1>12. ReadySound' BY <1>1, <1>5, <1>9 DEF AccountInv, ReadySound
<1>13. Reader!NothingDropped' BY <1>1, <1>t, <1>5 DEF Reader!NothingDropped
<1>14. \A b \in revoked' :
         /\ b \in stamps' /\ b \notin accounts' \ elsewhere' /\ b \notin policy'.readers
         /\ \A p \in Operators : Running(p) /\ cmd[p].acct = b
                                   => cmd[p].at \notin Reader!Provisioning
  BY <1>1, <1>5 DEF AccountInv, RevokedSound
<1> HIDE DEF a, readers
<1> QED BY <1>2, <1>6, <1>8, <1>10, <1>11, <1>12, <1>13, <1>14, StepKeeps

LEMMA DeleteAccountKeeps ==
  ASSUME AccountInv, NEW o \in Operators, Reader!DeleteAccount(o) PROVE AccountInv'
<1> DEFINE a == cmd[o].acct
<1>t. /\ accounts \subseteq Accounts /\ accounts \subseteq stamps
      /\ effective \subseteq granted /\ granted \subseteq accounts \X Operators
      /\ stamps \subseteq Accounts /\ revoked \subseteq Accounts /\ elsewhere \subseteq accounts
  BY AccountTypes
<1>1. /\ cmd[o].at = "delete" /\ Reader!Exit(o)
      /\ revoked' = revoked \cup {a} \/ UNCHANGED revoked
      /\ UNCHANGED <<known, policy, stamps, foreign, ready>>
  BY DEF Reader!DeleteAccount, Reader!At, Reader!Acct
<1>2. Running(o) /\ cmd[o] \in Commands /\ CommandSound(o, cmd[o]) /\ a \in Accounts
  BY <1>1, AtStage
<1>3. /\ a \in stamps /\ a \notin policy.readers /\ \A r \in ready : r[1] # a
  BY <1>1, <1>2, StageNames DEF CommandSound
<1>4. \A p \in Operators : Running(p) /\ cmd[p].acct = a => cmd[p].at \notin Reader!Provisioning
  BY <1>1, <1>2, StageNames DEF AccountInv, Exclusive
<1>5. Advances(o, Reader!Idle) BY <1>1, Ends
<1>6. cmd' \in [Operators -> {Reader!Idle} \cup Commands] BY <1>2, <1>5, AdvancesKeeps
\* In its own project the account goes, in another it stays and is noted.
<1>7. \/ /\ accounts' = accounts \ {a} /\ elsewhere' = elsewhere \ {a}
         /\ granted' = {g \in granted : g[1] # a} /\ effective' = {g \in effective : g[1] # a}
      \/ /\ elsewhere' = elsewhere \cup ({a} \cap accounts)
         /\ UNCHANGED <<accounts, granted, effective>>
  BY DEF Reader!DeleteAccount, Reader!Acct
<1>8. /\ accounts' \subseteq accounts /\ elsewhere' \subseteq accounts' /\ effective' \subseteq granted'
      /\ a \notin accounts' \ elsewhere'
      /\ \A b : b \notin accounts \ elsewhere => b \notin accounts' \ elsewhere'
      /\ \A g : g[1] # a => (g \in effective => g \in effective')
  BY <1>t, <1>7
<1>9. granted' \subseteq accounts' \X Operators
  <2> SUFFICES ASSUME NEW g \in granted, g \in granted' PROVE g \in accounts' \X Operators BY <1>7
  <2>1. g \in accounts \X Operators BY <1>t
  <2> QED BY <1>7, <2>1
<1>10. Reader!TypeOK'
  BY <1>t, <1>1, <1>2, <1>6, <1>8, <1>9 DEF AccountInv, Reader!TypeOK, Commands
<1>11. ReadySound' /\ Reader!NothingDropped'
  BY <1>1, <1>3, <1>8 DEF AccountInv, ReadySound, Reader!NothingDropped
<1>12. ASSUME NEW p \in Operators, p # o, Running(p), CommandSound(p, cmd[p]), cmd'[p] = cmd[p]
       PROVE  CommandSound(p, cmd[p])'
  <2>1. cmd[p].at = "key" => cmd[p].acct # a BY <1>4, <1>12, StageNames
  <2>2. <<cmd[p].acct, p>>[1] = cmd[p].acct OBVIOUS
  <2>3. cmd[p].at = "key" => <<cmd[p].acct, p>> \in effective'
    BY <1>8, <1>12, <2>1, <2>2 DEF CommandSound
  <2> QED BY <1>1, <1>12, <2>3 DEF CommandSound
<1>13. \A b \in revoked' :
         /\ b \in stamps' /\ b \notin accounts' \ elsewhere' /\ b \notin policy'.readers
         /\ \A p \in Operators : Running(p) /\ cmd[p].acct = b
                                   => cmd[p].at \notin Reader!Provisioning
  BY <1>1, <1>3, <1>4, <1>8 DEF AccountInv, RevokedSound
<1> HIDE DEF a
<1> QED BY <1>2, <1>5, <1>10, <1>11, <1>12, <1>13, StepKeeps

LEMMA AccountInvNext == AccountInv /\ [Reader!Next]_Reader!vars => AccountInv'
<1> SUFFICES ASSUME AccountInv, [Reader!Next]_Reader!vars PROVE AccountInv' OBVIOUS
<1>1. CASE UNCHANGED Reader!vars
  BY <1>1 DEF Reader!vars, AccountInv, Reader!TypeOK, CommandsSound, CommandSound, Running,
              Exclusive, ReadySound, RevokedSound, Reader!NothingDropped
<1>2. ASSUME NEW o \in Operators,
             \/ Reader!Create(o) \/ Reader!ReadPolicy(o) \/ Reader!WritePolicy(o)
             \/ Reader!GrantTokenCreator(o) \/ Reader!Probe(o) \/ Reader!CreateKey(o)
             \/ Reader!LookForBinding(o) \/ Reader!Unbind(o) \/ Reader!DeleteAccount(o)
             \/ Reader!Fail(o)
      PROVE  AccountInv'
  BY <1>2, CreateKeeps, QuietStepKeeps, WritePolicyKeeps, GrantKeeps, ProbeKeeps, UnbindKeeps,
     DeleteAccountKeeps
<1> QED BY <1>1, <1>2, OutsideKeeps, CommandStarts DEF Reader!Next

\* With any operators, accounts and other teams: no binding of another team is dropped,
\* an account that provision reported ready can be used until somebody sets out to remove
\* it, and one that revoke reported removed has lost the bucket for good and is gone for
\* good itself, unless the report is of a run under another project than its own.
THEOREM AccountsAreSafe ==
  Reader!Spec => [](Reader!NothingDropped /\ Reader!ReadyIsUsable /\ Reader!RevokedIsGone)
<1>1. AccountInv => Reader!NothingDropped /\ Reader!ReadyIsUsable /\ Reader!RevokedIsGone
  <2> SUFFICES ASSUME AccountInv
               PROVE  Reader!NothingDropped /\ Reader!ReadyIsUsable /\ Reader!RevokedIsGone
    OBVIOUS
  <2>1. ASSUME NEW r \in ready PROVE r[1] \in accounts
    <3>1. r \in accounts \X Operators BY <2>1, AccountTypes DEF AccountInv, ReadySound
    <3> QED BY <3>1
  <2> QED BY <2>1 DEF AccountInv, ReadySound, RevokedSound, Reader!ReadyIsUsable,
                      Reader!RevokedIsGone
<1> QED BY <1>1, AccountInvInit, AccountInvNext, PTL DEF Reader!Spec

-----------------------------------------------------------------------------
(* BucketExport.                                                           *)
(*                                                                         *)
(* A line of the manifest is about an object that is there.  A run that    *)
(* has copied a listed blob of a prefix has left its line, and the blobs   *)
(* it has not come to yet are still on its list, at the size v1 has unless *)
(* v1 wrote them meanwhile.                                                *)
CONSTANTS Names, Prefixes, PrefixOf, ExtOf, Placeholders, Contents, SizeOf, FirstBucket, MaxPuts
VARIABLES bucket, store, manifest, torn, export, catalog, puts, vouched, unseen

Bucket == INSTANCE BucketExport WITH MaxEdits <- MaxPuts, run <- export, edits <- puts

Exports ==
  [at : {"list", "examine", "land", "append"}, dry : BOOLEAN, asked : SUBSET Prefixes,
   todo : SUBSET Prefixes, blobs : SUBSET Bucket!Blobs, blob : Bucket!Blobs \cup {Nothing},
   data : Contents \cup {Nothing}, entry : Bucket!Entries \cup {Nothing},
   failed : BOOLEAN, unlisted : SUBSET Prefixes, stale : SUBSET Names]

\* The line about to be written.
EntrySound(r) ==
  /\ r.entry \in Bucket!Entries
  /\ Bucket!Landed(r.entry) =>
       /\ SizeOf[r.entry.content] = r.entry.size
       /\ ~r.dry => Bucket!Key(r.entry.content, r.blob.name) \in store
       /\ r.blob.name \notin r.stale => r.entry.size = SizeOf[bucket[r.blob.name]]
  /\ ~Bucket!Landed(r.entry) =>
       ~(Bucket!Landed(manifest[r.blob.name]) /\ manifest[r.blob.name].size = r.blob.size)

\* What a run that exits 0 would vouch for.
Covered(r) ==
  {n \in Names \ r.stale : PrefixOf[n] \in r.asked \ (r.todo \cup r.unlisted)
                              /\ bucket[n] # Nothing}

ExportSound(r) ==
  /\ r \in Exports
  /\ r.stale \cap vouched = {}
  /\ r.at = "list" => r.blobs = {}
  /\ \A b \in r.blobs : b.name \notin r.stale =>
       bucket[b.name] # Nothing /\ b.size = SizeOf[bucket[b.name]]
  /\ r.at \in {"land", "append"} => r.blob \in r.blobs
  /\ r.at = "land" => r.data \in Contents
                      /\ (r.blob.name \notin r.stale => r.data = bucket[r.blob.name])
  /\ r.at = "append" => EntrySound(r)
  /\ ~r.dry /\ ~r.failed => \A n \in Covered(r) :
       Bucket!Exported(n) \/ \E b \in r.blobs : b.name = n

LineSound(n) ==
  Bucket!Landed(manifest[n]) =>
    /\ Bucket!Key(manifest[n].content, n) \in store
    /\ SizeOf[manifest[n].content] = manifest[n].size

BucketTyped ==
  /\ bucket \in [Names -> Contents \cup {Nothing}]
  /\ store \subseteq Bucket!Keys
  /\ manifest \in [Names -> Bucket!Entries \cup {Nothing}]
  /\ puts \in 0..MaxPuts
  /\ catalog \in [Prefixes -> SUBSET (Names \X Bucket!Keys)]
  /\ unseen \subseteq vouched /\ vouched \subseteq Names

ExportInv ==
  /\ BucketTyped
  /\ \A n \in Names : LineSound(n)
  /\ \A p \in Prefixes : \A row \in catalog[p] : row[2] \in store
  /\ \A n \in vouched : bucket[n] # Nothing
  /\ Bucket!ExitZeroIsExported
  /\ export # Bucket!Idle => ExportSound(export)

LEMMA BucketTypes ==
  ASSUME ExportInv, Bucket!BucketAssumption
  PROVE  /\ \A n \in Names : PrefixOf[n] \in Prefixes /\ bucket[n] \in Contents \cup {Nothing}
                             /\ manifest[n] \in Bucket!Entries \cup {Nothing}
         /\ \A c \in Contents : SizeOf[c] \in Nat
         /\ \A c \in Contents, n \in Names : Bucket!Key(c, n) \in Bucket!Keys
         /\ Nothing \notin Contents \cup Bucket!Entries \cup Bucket!Blobs
         /\ \A e \in Bucket!Entries \cup {Nothing} :
              /\ Bucket!Landed(e) => /\ e \in Bucket!Entries /\ e.outcome = "landed"
                                     /\ e.size \in Nat /\ e.content \in Contents
              /\ e # Nothing /\ ~Bucket!Landed(e) => e.outcome = "failed"
BY DEF ExportInv, BucketTyped, Bucket!BucketAssumption, Bucket!Entries, Bucket!Landed,
       Bucket!Key, Bucket!Keys

LEMMA ExportInvInit ==
  ASSUME Bucket!BucketAssumption PROVE Bucket!Init => ExportInv
BY DEF Bucket!BucketAssumption, Bucket!Init, ExportInv, BucketTyped, LineSound, Bucket!Landed,
       Bucket!ExitZeroIsExported, Bucket!Entries

\* A step that leaves the bucket, the objects and their lines alone.
LEMMA RunMoves ==
  ASSUME ExportInv, UNCHANGED <<bucket, store, manifest, puts, vouched, unseen>>,
         catalog' \in [Prefixes -> SUBSET (Names \X Bucket!Keys)],
         \A p \in Prefixes : \A row \in catalog'[p] : row[2] \in store,
         export' # Bucket!Idle => ExportSound(export')
  PROVE  ExportInv'
<1>1. \A r : ExportSound(r) => ExportSound(r)'
  BY DEF ExportSound, EntrySound, Covered, Bucket!Exported
<1>2. export' # Bucket!Idle => ExportSound(export)'
  BY DEF ExportSound, EntrySound, Covered, Bucket!Exported
<1> QED BY <1>2 DEF ExportInv, BucketTyped, LineSound, Bucket!ExitZeroIsExported, Bucket!Exported

\* What becomes of the fields of a run.
Becomes(at_, todo, blobs, blob, data, entry, failed, unlisted, stale) ==
  export' = [at |-> at_, dry |-> export.dry, asked |-> export.asked, todo |-> todo,
             blobs |-> blobs, blob |-> blob, data |-> data, entry |-> entry,
             failed |-> failed, unlisted |-> unlisted, stale |-> stale]

LEMMA ListingKeeps ==
  ASSUME ExportInv, Bucket!BucketAssumption, export # Bucket!Idle, NEW p \in Prefixes,
         Bucket!List(p) \/ Bucket!ListFails(p)
  PROVE  ExportInv'
<1>1. ExportSound(export) /\ export \in Exports /\ export.at = "list" /\ export.blobs = {}
      /\ p \in export.todo
  BY DEF ExportInv, ExportSound, Bucket!List, Bucket!ListFails
<1>2. UNCHANGED <<bucket, store, manifest, catalog, puts, vouched, unseen>>
  BY DEF Bucket!List, Bucket!ListFails
<1>3. CASE Bucket!ListFails(p)
  <2>1. Becomes("list", export.todo \ {p}, {}, export.blob, export.data, export.entry,
                export.failed, export.unlisted \cup {p}, export.stale)
    BY <1>1, <1>3 DEF Bucket!ListFails, Exports, Becomes
  <2>2. export' \in Exports BY <1>1, <2>1 DEF Becomes, Exports
  <2>3. Covered(export') \subseteq Covered(export) BY <2>1 DEF Becomes, Covered
  <2>4. ExportSound(export')
    <3>1. /\ export'.at = "list" /\ export'.blobs = {} /\ export'.stale = export.stale
          /\ export'.dry = export.dry /\ export'.failed = export.failed
      BY <2>1 DEF Becomes
    <3> QED BY <1>1, <2>2, <2>3, <3>1 DEF ExportSound
  <2> QED BY <1>2, <2>4, RunMoves DEF ExportInv, BucketTyped
<1>4. CASE Bucket!List(p)
  <2> DEFINE listed == {[name |-> n, size |-> SizeOf[bucket[n]]] :
                          n \in {m \in Names : PrefixOf[m] = p /\ bucket[m] # Nothing}}
  <2>1. Becomes("examine", export.todo \ {p}, listed, export.blob, export.data, export.entry,
                export.failed, export.unlisted, export.stale)
    BY <1>1, <1>4 DEF Bucket!List, Exports, Becomes
  <2>2. /\ listed \subseteq Bucket!Blobs
        /\ \A b \in listed : bucket[b.name] # Nothing /\ b.size = SizeOf[bucket[b.name]]
        /\ \A n \in Names : PrefixOf[n] = p /\ bucket[n] # Nothing => \E b \in listed : b.name = n
    <3>1. \A n \in Names : bucket[n] # Nothing => SizeOf[bucket[n]] \in Nat BY BucketTypes
    <3>2. \A n \in Names : PrefixOf[n] = p /\ bucket[n] # Nothing
                           => [name |-> n, size |-> SizeOf[bucket[n]]] \in listed
      OBVIOUS
    <3>3. ASSUME NEW b \in listed
          PROVE  b \in Bucket!Blobs /\ bucket[b.name] # Nothing /\ b.size = SizeOf[bucket[b.name]]
      <4>1. PICK n \in Names :
              bucket[n] # Nothing /\ b = [name |-> n, size |-> SizeOf[bucket[n]]]
        BY <3>3
      <4>2. b.name = n /\ b.size = SizeOf[bucket[n]] BY <4>1
      <4> QED BY <3>1, <4>1, <4>2 DEF Bucket!Blobs
    <3>4. ASSUME NEW n \in Names, PrefixOf[n] = p, bucket[n] # Nothing
          PROVE  \E b \in listed : b.name = n
      <4> DEFINE b == [name |-> n, size |-> SizeOf[bucket[n]]]
      <4>1. b \in listed /\ b.name = n BY <3>2, <3>4
      <4> QED BY <4>1
    <3> HIDE DEF listed
    <3> QED BY <3>3, <3>4
  <2> HIDE DEF listed
  <2>3. export' \in Exports BY <1>1, <2>1, <2>2 DEF Becomes, Exports
  <2>4. /\ export'.at = "examine" /\ export'.blobs = listed /\ export'.stale = export.stale
        /\ export'.dry = export.dry /\ export'.failed = export.failed
    BY <2>1 DEF Becomes
  <2>5. \A n \in Covered(export') : n \in Covered(export) \/ (PrefixOf[n] = p /\ bucket[n] # Nothing)
    BY <2>1 DEF Becomes, Covered
  <2>6. \A n \in Covered(export') : n \in Names BY DEF Covered
  <2>7. ExportSound(export')
    BY <1>1, <2>2, <2>3, <2>4, <2>5, <2>6 DEF ExportSound
  <2> QED BY <1>2, <2>7, RunMoves DEF ExportInv, BucketTyped
<1> QED BY <1>3, <1>4

\* A blob of the list is looked at, and perhaps read.
LEMMA ExamineKeeps ==
  ASSUME ExportInv, Bucket!BucketAssumption, export # Bucket!Idle, NEW b \in export.blobs,
         Bucket!Resume(b) \/ Bucket!Download(b)
  PROVE  ExportInv'
<1>1. ExportSound(export) /\ export \in Exports /\ b \in Bucket!Blobs /\ b.name \in Names
      /\ b.size \in Nat
  BY DEF ExportInv, ExportSound, Exports, Bucket!Blobs
<1>2. UNCHANGED <<bucket, store, manifest, catalog, puts, vouched, unseen>>
  BY DEF Bucket!Resume, Bucket!Download
<1>t. /\ bucket[b.name] \in Contents \cup {Nothing}
      /\ manifest[b.name] \in Bucket!Entries \cup {Nothing}
  BY <1>1, BucketTypes
<1>3. ASSUME NEW step \in {"land", "append"}, NEW data \in Contents \cup {Nothing},
             NEW entry \in Bucket!Entries \cup {Nothing},
             Becomes(step, export.todo, export.blobs, b, data, entry, export.failed,
                     export.unlisted, export.stale),
             step = "land" => data \in Contents /\ data = bucket[b.name],
             step = "append" => EntrySound(export')
      PROVE  ExportInv'
  <2>1. export' \in Exports BY <1>1, <1>3 DEF Becomes, Exports
  <2>2. /\ export'.at = step /\ export'.blobs = export.blobs /\ export'.stale = export.stale
        /\ export'.dry = export.dry /\ export'.failed = export.failed /\ export'.blob = b
        /\ export'.data = data
    BY <1>3 DEF Becomes
  <2>3. Covered(export') = Covered(export) BY <1>3 DEF Becomes, Covered
  <2>4. ExportSound(export') BY <1>1, <1>3, <2>1, <2>2, <2>3 DEF ExportSound
  <2> QED BY <1>2, <2>4, RunMoves DEF ExportInv, BucketTyped
<1>4. CASE Bucket!Resume(b)
  <2>1. Becomes("append", export.todo, export.blobs, b, export.data, manifest[b.name],
                export.failed, export.unlisted, export.stale)
    BY <1>1, <1>4 DEF Bucket!Resume, Exports, Becomes
  <2>2. /\ Bucket!Landed(manifest[b.name]) /\ manifest[b.name].size = b.size
        /\ Bucket!Key(manifest[b.name].content, b.name) \in store
    BY <1>4 DEF Bucket!Resume, Bucket!AlreadyExported
  <2>3. /\ export'.entry = manifest[b.name] /\ export'.blob = b /\ export'.stale = export.stale
        /\ export'.dry = export.dry
    BY <2>1 DEF Becomes
  <2>4. manifest[b.name] \in Bucket!Entries BY <1>t, <2>2 DEF Bucket!Landed
  <2>5. SizeOf[manifest[b.name].content] = manifest[b.name].size
    BY <1>1, <2>2 DEF ExportInv, LineSound
  <2>6. b.name \notin export.stale => b.size = SizeOf[bucket[b.name]]
    BY <1>1 DEF ExportSound
  <2>7. EntrySound(export') BY <2>2, <2>3, <2>4, <2>5, <2>6 DEF EntrySound
  <2>8. export.data \in Contents \cup {Nothing} BY <1>1 DEF Exports
  <2> QED BY <1>3, <1>t, <2>1, <2>7, <2>8
<1>5. CASE bucket[b.name] # Nothing /\
           export' = [export EXCEPT !.at = "land", !.blob = b, !.data = bucket[b.name]]
  <2>1. Becomes("land", export.todo, export.blobs, b, bucket[b.name], export.entry,
                export.failed, export.unlisted, export.stale)
    BY <1>1, <1>5 DEF Exports, Becomes
  <2>2. export.entry \in Bucket!Entries \cup {Nothing} BY <1>1 DEF Exports
  <2> QED BY <1>3, <1>5, <1>t, <2>1, <2>2
<1>6. CASE /\ ~Bucket!AlreadyExported(b)
           /\ export' = [export EXCEPT !.at = "append", !.blob = b,
                           !.entry = [outcome |-> "failed", size |-> b.size]]
  <2> DEFINE entry == [outcome |-> "failed", size |-> b.size]
  <2>1. Becomes("append", export.todo, export.blobs, b, export.data, entry,
                export.failed, export.unlisted, export.stale)
    BY <1>1, <1>6 DEF Exports, Becomes
  <2>2. entry \in Bucket!Entries /\ ~Bucket!Landed(entry)
    BY <1>1 DEF Bucket!Entries, Bucket!Landed
  <2> HIDE DEF entry
  <2>3. export'.entry = entry /\ export'.blob = b BY <2>1 DEF Becomes
  <2>4. ~(Bucket!Landed(manifest[b.name]) /\ manifest[b.name].size = b.size)
    BY <1>1, <1>6 DEF Bucket!AlreadyExported, ExportInv, LineSound
  <2>5. EntrySound(export') BY <2>2, <2>3, <2>4 DEF EntrySound
  <2>6. export.data \in Contents \cup {Nothing} BY <1>1 DEF Exports
  <2> QED BY <1>3, <2>1, <2>2, <2>5, <2>6
<1> QED BY <1>4, <1>5, <1>6 DEF Bucket!Download

\* The object is written before its line.
LEMMA LandKeeps ==
  ASSUME ExportInv, Bucket!BucketAssumption, export # Bucket!Idle, Bucket!Land PROVE ExportInv'
<1> DEFINE n == export.blob.name
           key == Bucket!Key(export.data, n)
           entry == [outcome |-> "landed", size |-> SizeOf[export.data], content |-> export.data]
<1>1. /\ ExportSound(export) /\ export \in Exports /\ export.at = "land"
      /\ export.blob \in export.blobs /\ export.data \in Contents
      /\ n \notin export.stale => export.data = bucket[n]
  BY DEF ExportInv, ExportSound, Bucket!Land
<1>2. UNCHANGED <<bucket, manifest, catalog, puts, vouched, unseen>>
      /\ store' = IF export.dry THEN store ELSE store \cup {key}
  BY DEF Bucket!Land
<1>3. n \in Names BY <1>1 DEF Exports, Bucket!Blobs
<1>4. SizeOf[export.data] \in Nat /\ key \in Bucket!Keys BY <1>1, <1>3, BucketTypes
<1>5. Becomes("append", export.todo, export.blobs, export.blob, Nothing, entry,
              export.failed, export.unlisted, export.stale)
  BY <1>1 DEF Bucket!Land, Exports, Becomes
<1>6. entry \in Bucket!Entries /\ entry.outcome = "landed" /\ entry.content = export.data
      /\ entry.size = SizeOf[export.data] /\ Bucket!Landed(entry)
  <2>1. entry \in Bucket!Entries BY <1>1, <1>4 DEF Bucket!Entries
  <2>2. entry # Nothing BY <2>1, BucketTypes
  <2> QED BY <2>1, <2>2 DEF Bucket!Landed
<1> HIDE DEF entry
<1>7. export' \in Exports BY <1>1, <1>5, <1>6 DEF Becomes, Exports
<1>8. /\ export'.at = "append" /\ export'.blobs = export.blobs /\ export'.stale = export.stale
      /\ export'.dry = export.dry /\ export'.failed = export.failed
      /\ export'.blob = export.blob /\ export'.entry = entry
      /\ export'.asked = export.asked /\ export'.todo = export.todo
      /\ export'.unlisted = export.unlisted
  BY <1>5 DEF Becomes
<1>9. store \subseteq store' /\ (~export.dry => key \in store') BY <1>2
<1>10. EntrySound(export)'
  BY <1>1, <1>2, <1>6, <1>8, <1>9 DEF EntrySound
<1>11. Covered(export)' = Covered(export) BY <1>2, <1>8 DEF Covered
<1>12. ExportSound(export)'
  BY <1>1, <1>2, <1>7, <1>8, <1>10, <1>11 DEF ExportSound, Bucket!Exported
<1>13. BucketTyped' BY <1>2, <1>4 DEF ExportInv, BucketTyped
<1> QED BY <1>2, <1>9, <1>12, <1>13 DEF ExportInv, LineSound, Bucket!ExitZeroIsExported,
                                       Bucket!Exported

\* A line that is appended says no less than the one before it.
LEMMA AppendKeeps ==
  ASSUME ExportInv, Bucket!BucketAssumption, export # Bucket!Idle, Bucket!Append
  PROVE  ExportInv'
<1> DEFINE n == export.blob.name
           entry == export.entry
           failed == export.failed \/ entry.outcome = "failed"
<1>1. /\ ExportSound(export) /\ export \in Exports /\ export.at = "append"
      /\ export.blob \in export.blobs /\ EntrySound(export)
      /\ entry \in Bucket!Entries
  BY DEF ExportInv, ExportSound, EntrySound, Bucket!Append
<1>2. /\ UNCHANGED <<bucket, store, catalog, puts, vouched, unseen>>
      /\ manifest' = IF export.dry THEN manifest ELSE [manifest EXCEPT ![n] = entry]
  BY DEF Bucket!Append
<1>3. n \in Names BY <1>1 DEF Exports, Bucket!Blobs
<1>4. /\ Bucket!Landed(entry) => entry.size \in Nat /\ entry.content \in Contents
      /\ ~Bucket!Landed(entry) => entry.outcome = "failed"
  <2>1. entry # Nothing BY <1>1, BucketTypes
  <2> QED BY <1>1, <2>1, BucketTypes
<1>5. manifest \in [Names -> Bucket!Entries \cup {Nothing}] BY DEF ExportInv, BucketTyped
<1>6. /\ manifest' \in [Names -> Bucket!Entries \cup {Nothing}]
      /\ \A m \in Names : manifest'[m] = IF m = n /\ ~export.dry THEN entry ELSE manifest[m]
  BY <1>1, <1>2, <1>3, <1>5
<1>7. Becomes("examine", export.todo, export.blobs \ {export.blob}, Nothing, export.data, Nothing,
              failed, export.unlisted, export.stale)
  BY <1>1 DEF Bucket!Append, Exports, Becomes
<1>8. /\ \A c : Bucket!Exported(c) <=>
               Bucket!Landed(manifest[c]) /\ manifest[c].size = SizeOf[bucket[c]]
      /\ \A c : Bucket!Exported(c)' <=>
               Bucket!Landed(manifest'[c]) /\ manifest'[c].size = SizeOf[bucket[c]]
  BY <1>2 DEF Bucket!Exported, Bucket!Landed
\* A blob that v1 has not written, and whose line a real run writes.
<1>9. ASSUME NEW m \in Names, m = n, ~export.dry, n \notin export.stale, Bucket!Landed(entry)
      PROVE  Bucket!Exported(m)'
  BY <1>1, <1>3, <1>6, <1>8, <1>9 DEF EntrySound
<1>10. ASSUME ~export.dry, n \notin export.stale, Bucket!Exported(n) PROVE Bucket!Landed(entry)
  <2>1. export.blob.size = SizeOf[bucket[n]] BY <1>1, <1>10 DEF ExportSound
  <2> QED BY <1>1, <1>8, <1>10, <2>1 DEF EntrySound
<1>11. \A m \in Names : m \notin export.stale /\ Bucket!Exported(m) => Bucket!Exported(m)'
  BY <1>3, <1>6, <1>8, <1>9, <1>10
<1>12. /\ export'.at = "examine" /\ export'.blobs = export.blobs \ {export.blob}
       /\ export'.stale = export.stale /\ export'.dry = export.dry
       /\ export'.failed = failed
       /\ export'.asked = export.asked /\ export'.todo = export.todo
       /\ export'.unlisted = export.unlisted
  BY <1>7 DEF Becomes
<1>13. failed \in BOOLEAN BY <1>1 DEF Exports
<1>14. export' \in Exports
  <2> HIDE DEF failed
  <2> QED BY <1>1, <1>7, <1>13 DEF Becomes, Exports
<1>15. Covered(export)' = Covered(export) BY <1>2, <1>12 DEF Covered
<1>16. ASSUME ~export.dry, ~failed, NEW m \in Covered(export)
       PROVE  Bucket!Exported(m)' \/ \E b \in export.blobs \ {export.blob} : b.name = m
  <2>1. m \in Names /\ m \notin export.stale BY DEF Covered
  <2>2. Bucket!Landed(entry) BY <1>4, <1>16
  <2>3. Bucket!Exported(m) \/ \E b \in export.blobs : b.name = m
    BY <1>1, <1>16 DEF ExportSound
  <2>4. CASE m = n BY <1>9, <1>16, <2>1, <2>2, <2>4
  <2>5. CASE m # n BY <1>11, <2>1, <2>3, <2>5
  <2> QED BY <2>4, <2>5
<1>17. ExportSound(export)'
  <2> HIDE DEF failed
  <2> QED BY <1>1, <1>2, <1>12, <1>14, <1>15, <1>16 DEF ExportSound
<1>18. \A m \in Names : LineSound(m)'
  <2> SUFFICES ASSUME NEW m \in Names PROVE LineSound(m)' OBVIOUS
  <2>1. LineSound(m) BY DEF ExportInv
  <2>2. CASE m = n /\ ~export.dry
    BY <1>1, <1>2, <1>6, <2>2 DEF LineSound, EntrySound, Bucket!Landed
  <2>3. CASE ~(m = n /\ ~export.dry)
    <3>1. manifest'[m] = manifest[m] BY <1>6, <2>3
    <3> QED BY <1>2, <2>1, <3>1 DEF LineSound, Bucket!Landed
  <2> QED BY <2>2, <2>3
<1>19. Bucket!ExitZeroIsExported'
  <2> SUFFICES ASSUME NEW m \in vouched \ unseen PROVE Bucket!Exported(m)'
    BY <1>2 DEF Bucket!ExitZeroIsExported
  <2>1. Bucket!Exported(m) /\ m \in Names /\ m \notin export.stale
    BY <1>1 DEF ExportInv, Bucket!ExitZeroIsExported, ExportSound, BucketTyped
  <2> QED BY <1>11, <2>1
<1>20. BucketTyped' BY <1>2, <1>6 DEF ExportInv, BucketTyped
<1> QED BY <1>2, <1>17, <1>18, <1>19, <1>20 DEF ExportInv

\* v1 writes a blob that the run may have listed, read or copied.
LEMMA V1Keeps ==
  ASSUME ExportInv, Bucket!BucketAssumption, NEW n \in Names, NEW c \in Contents \cup {Nothing},
         Bucket!V1Writes(n, c)
  PROVE  ExportInv'
<1>1. /\ bucket' = [bucket EXCEPT ![n] = c] /\ puts' = puts + 1 /\ puts < MaxPuts
      /\ vouched' = vouched \ {n} /\ unseen' = unseen \ {n}
      /\ UNCHANGED <<store, manifest, catalog>>
  BY DEF Bucket!V1Writes
<1>2. bucket \in [Names -> Contents \cup {Nothing}] BY DEF ExportInv, BucketTyped
<1>3. /\ bucket' \in [Names -> Contents \cup {Nothing}]
      /\ \A m \in Names : m # n => bucket'[m] = bucket[m]
  BY <1>1, <1>2
<1>4. MaxPuts \in Nat BY DEF Bucket!BucketAssumption
<1>5. BucketTyped' BY <1>1, <1>3, <1>4 DEF ExportInv, BucketTyped
<1>6. \A m \in vouched' : m \in vouched /\ m \in Names /\ m # n
  BY <1>1 DEF ExportInv, BucketTyped
<1>7. Bucket!ExitZeroIsExported'
  BY <1>1, <1>3, <1>6 DEF ExportInv, Bucket!ExitZeroIsExported, Bucket!Exported, Bucket!Landed
<1>8. \A m \in vouched' : bucket'[m] # Nothing BY <1>3, <1>6 DEF ExportInv
<1>9. ASSUME export' # Bucket!Idle PROVE ExportSound(export)'
  <2>1. export # Bucket!Idle /\ export' = [export EXCEPT !.stale = export.stale \cup {n}]
    BY <1>9 DEF Bucket!V1Writes
  <2>2. ExportSound(export) /\ export \in Exports BY <2>1 DEF ExportInv, ExportSound
  <2>3. /\ export' \in Exports
        /\ export'.at = export.at /\ export'.dry = export.dry /\ export'.asked = export.asked
        /\ export'.todo = export.todo /\ export'.blobs = export.blobs
        /\ export'.blob = export.blob /\ export'.data = export.data
        /\ export'.entry = export.entry /\ export'.failed = export.failed
        /\ export'.unlisted = export.unlisted /\ export'.stale = export.stale \cup {n}
    BY <2>1, <2>2 DEF Exports
  <2>4. \A b \in export.blobs : b.name \in Names BY <2>2 DEF Exports, Bucket!Blobs
  <2>5. \A m \in Names : m # n => (Bucket!Exported(m) => Bucket!Exported(m)')
    BY <1>1, <1>3 DEF Bucket!Exported, Bucket!Landed
  <2>6. \A m \in Covered(export)' : m \in Covered(export) /\ m # n /\ m \in Names
    BY <1>3, <2>3 DEF Covered
  <2>7. ~export.dry /\ ~export.failed => \A m \in Covered(export)' :
          Bucket!Exported(m)' \/ \E b \in export.blobs : b.name = m
    BY <2>2, <2>5, <2>6 DEF ExportSound
  <2>8. export.at = "append" => EntrySound(export)'
    <3> SUFFICES ASSUME export.at = "append" PROVE EntrySound(export)' OBVIOUS
    <3>1. EntrySound(export) /\ export.blob.name \in Names BY <2>2, <2>4 DEF ExportSound
    <3>2. /\ \A e : Bucket!Landed(e)' = Bucket!Landed(e)
          /\ \A d, m : Bucket!Key(d, m)' = Bucket!Key(d, m)
      BY DEF Bucket!Landed, Bucket!Key
    <3>3. export.blob.name \notin export'.stale
            => /\ export.blob.name \notin export.stale
               /\ bucket'[export.blob.name] = bucket[export.blob.name]
      BY <1>3, <2>3, <3>1
    <3> QED BY <1>1, <2>3, <3>1, <3>2, <3>3 DEF EntrySound, Bucket!Landed, Bucket!Key
  <2>9. \A b \in export.blobs : b.name \notin export'.stale =>
          /\ b.name \notin export.stale /\ bucket'[b.name] = bucket[b.name]
    BY <1>3, <2>3, <2>4
  <2>10. export'.stale \cap vouched' = {} BY <1>1, <2>2, <2>3 DEF ExportSound
  <2>11. \A b \in export.blobs : b.name \notin export'.stale =>
           bucket'[b.name] # Nothing /\ b.size = SizeOf[bucket'[b.name]]
    BY <2>2, <2>9 DEF ExportSound
  <2>12. export.at = "land" =>
           /\ export.data \in Contents
           /\ export.blob.name \notin export'.stale => export.data = bucket'[export.blob.name]
    BY <2>2, <2>9 DEF ExportSound
  <2>13. /\ export.at = "list" => export.blobs = {}
         /\ export.at \in {"land", "append"} => export.blob \in export.blobs
    BY <2>2 DEF ExportSound
  <2> QED BY <2>3, <2>7, <2>8, <2>10, <2>11, <2>12, <2>13 DEF ExportSound
<1>10. \A m \in Names : LineSound(m)' BY <1>1 DEF ExportInv, LineSound, Bucket!Landed, Bucket!Key
<1> QED BY <1>1, <1>5, <1>7, <1>8, <1>9, <1>10 DEF ExportInv

\* The end of a run, what it vouches for included.
LEMMA FinishKeeps ==
  ASSUME ExportInv, Bucket!BucketAssumption, export # Bucket!Idle, Bucket!Finish
  PROVE  ExportInv'
<1> DEFINE done == {n \in Names \ export.stale : /\ PrefixOf[n] \in export.asked
                                                /\ bucket[n] # Nothing
                                                /\ ~export.dry /\ ~export.failed}
           blind == {n \in done : PrefixOf[n] \in export.unlisted}
<1>1. /\ ExportSound(export) /\ export.at = "list" /\ export.todo = {} /\ export.blobs = {}
  BY DEF ExportInv, ExportSound, Bucket!Finish
<1>2. /\ vouched' = vouched \cup done
      /\ unseen' = (unseen \ (done \ blind)) \cup (blind \ (vouched \ unseen))
      /\ export' = Bucket!Idle
      /\ UNCHANGED <<bucket, store, manifest, catalog, puts>>
  BY DEF Bucket!Finish
<1>3. \A n \in done \ blind : Bucket!Exported(n)
  <2> SUFFICES ASSUME NEW n \in done \ blind PROVE Bucket!Exported(n) OBVIOUS
  <2>1. n \in Covered(export) /\ ~export.dry /\ ~export.failed BY <1>1 DEF Covered
  <2> QED BY <1>1, <2>1 DEF ExportSound
<1>4. done \subseteq Names /\ blind \subseteq done /\ \A n \in done : bucket[n] # Nothing OBVIOUS
<1> HIDE DEF done, blind
<1>5. \A n \in vouched' \ unseen' : n \in vouched \ unseen \/ n \in done \ blind BY <1>2, <1>4
<1>6. Bucket!ExitZeroIsExported'
  BY <1>2, <1>3, <1>5 DEF ExportInv, Bucket!ExitZeroIsExported, Bucket!Exported
<1>7. BucketTyped' BY <1>2, <1>4 DEF ExportInv, BucketTyped
<1> QED BY <1>2, <1>4, <1>6, <1>7 DEF ExportInv, LineSound

LEMMA ExportInvNext ==
  ASSUME Bucket!BucketAssumption PROVE ExportInv /\ [Bucket!Next]_Bucket!vars => ExportInv'
<1> SUFFICES ASSUME ExportInv, [Bucket!Next]_Bucket!vars PROVE ExportInv' OBVIOUS
<1>1. /\ catalog \in [Prefixes -> SUBSET (Names \X Bucket!Keys)]
      /\ \A p \in Prefixes : \A row \in catalog[p] : row[2] \in store
  BY DEF ExportInv, BucketTyped
<1>2. CASE Bucket!Kill BY <1>1, <1>2, RunMoves DEF Bucket!Kill
<1>3. CASE Bucket!Repair BY <1>1, <1>3, RunMoves DEF Bucket!Repair, ExportInv
<1>4. CASE UNCHANGED Bucket!vars BY <1>1, <1>4, RunMoves DEF Bucket!vars, ExportInv
<1>5. ASSUME NEW asked \in SUBSET Prefixes \ {{}}, NEW dry \in BOOLEAN, Bucket!Start(asked, dry)
      PROVE  ExportInv'
  <2>1. /\ export' = [at |-> "list", dry |-> dry, asked |-> asked, todo |-> asked,
                      blobs |-> {}, blob |-> Nothing, data |-> Nothing, entry |-> Nothing,
                      failed |-> FALSE, unlisted |-> {}, stale |-> {}]
        /\ UNCHANGED <<bucket, store, manifest, catalog, puts, vouched, unseen>>
    BY <1>5 DEF Bucket!Start
  <2>2. export' \in Exports BY <2>1 DEF Exports
  <2>3. ExportSound(export') BY <2>1, <2>2 DEF ExportSound, Covered
  <2> QED BY <1>1, <2>1, <2>3, RunMoves
<1>6. CASE export # Bucket!Idle /\ Bucket!PrefixDone
  <2>1. ExportSound(export) /\ export \in Exports /\ export.at = "examine" /\ export.blobs = {}
    BY <1>6 DEF ExportInv, ExportSound, Bucket!PrefixDone
  <2>2. Becomes("list", export.todo, {}, export.blob, export.data, export.entry,
                export.failed, export.unlisted, export.stale)
    BY <1>6, <2>1 DEF Bucket!PrefixDone, Exports, Becomes
  <2>3. export' \in Exports BY <2>1, <2>2 DEF Becomes, Exports
  <2>4. Covered(export') = Covered(export) BY <2>2 DEF Becomes, Covered
  <2>5. /\ export'.at = "list" /\ export'.blobs = {} /\ export'.stale = export.stale
        /\ export'.dry = export.dry /\ export'.failed = export.failed
    BY <2>2 DEF Becomes
  <2>6. ExportSound(export') BY <2>1, <2>3, <2>4, <2>5 DEF ExportSound
  <2> QED BY <1>1, <1>6, <2>6, RunMoves DEF Bucket!PrefixDone
<1>7. CASE Bucket!WriteCatalogs
  <2>1. /\ catalog' = [p \in Prefixes |-> IF Bucket!Rows(p) = {} THEN catalog[p]
                                          ELSE Bucket!Rows(p)]
        /\ UNCHANGED <<bucket, store, manifest, export, puts, vouched, unseen>>
    BY <1>7 DEF Bucket!WriteCatalogs
  <2>2. ASSUME NEW p \in Prefixes, NEW row \in Bucket!Rows(p)
        PROVE  row \in Names \X Bucket!Keys /\ row[2] \in store
    <3>1. PICK n \in Names : /\ Bucket!Landed(manifest[n])
                             /\ row = <<n, Bucket!Key(manifest[n].content, n)>>
      BY <2>2 DEF Bucket!Rows
    <3>2. manifest[n].content \in Contents BY <3>1, BucketTypes
    <3>3. Bucket!Key(manifest[n].content, n) \in Bucket!Keys BY <3>2, BucketTypes
    <3>4. Bucket!Key(manifest[n].content, n) \in store BY <3>1 DEF ExportInv, LineSound
    <3> QED BY <3>1, <3>3, <3>4
  <2>3. \A p \in Prefixes : /\ catalog'[p] \in SUBSET (Names \X Bucket!Keys)
                            /\ \A row \in catalog'[p] : row[2] \in store
    BY <1>1, <2>1, <2>2
  <2>4. catalog' \in [Prefixes -> SUBSET (Names \X Bucket!Keys)] BY <2>1, <2>3
  <2>5. export' # Bucket!Idle => ExportSound(export') BY <2>1 DEF ExportInv
  <2> QED BY <2>1, <2>3, <2>4, <2>5, RunMoves
<1> QED BY <1>2, <1>3, <1>4, <1>5, <1>6, <1>7, ListingKeeps, ExamineKeeps, LandKeeps, AppendKeeps,
           V1Keeps, FinishKeeps
     DEF Bucket!Next

\* With any paths, contents and prefixes, any kills and any writes of v1: --verify
\* finds nothing to object to, no catalog names an object that is not there, and what a
\* run that exited 0 was asked for is exported at the size v1 has.
THEOREM ExportsSound ==
  ASSUME Bucket!BucketAssumption
  PROVE  Bucket!Spec => [](Bucket!NothingPromisedIsMissing /\ Bucket!ExitZeroIsExported)
<1>1. ExportInv => Bucket!NothingPromisedIsMissing /\ Bucket!ExitZeroIsExported
  BY DEF ExportInv, LineSound, Bucket!NothingPromisedIsMissing, Bucket!VerifyProblems
<1> QED BY <1>1, ExportInvInit, ExportInvNext, PTL DEF Bucket!Spec

\* And no step turns a blob that was exported into a failure while it is listed at the
\* size it was exported at.
THEOREM ExportsKept ==
  ASSUME Bucket!BucketAssumption PROVE Bucket!Spec => Bucket!ExportIsKept
<1>1. ExportInv /\ [Bucket!Next]_Bucket!vars => [Bucket!KeptOrTried]_Bucket!vars
  <2> SUFFICES ASSUME ExportInv, Bucket!Next PROVE Bucket!KeptOrTried OBVIOUS
  <2>1. CASE UNCHANGED manifest BY <2>1 DEF Bucket!KeptOrTried, Bucket!Landed
  <2>2. CASE export # Bucket!Idle /\ Bucket!Append
    <3>1. export.at = "append" /\ EntrySound(export)
      BY <2>2 DEF ExportInv, ExportSound, Bucket!Append
    <3>2. \A n \in Names : n # export.blob.name => manifest'[n] = manifest[n]
      BY <2>2 DEF Bucket!Append, ExportInv, BucketTyped
    <3>3. manifest'[export.blob.name] \in {manifest[export.blob.name], export.entry}
          \/ export.blob.name \notin Names
      BY <2>2 DEF Bucket!Append, ExportInv, BucketTyped
    <3> QED BY <3>1, <3>2, <3>3 DEF Bucket!KeptOrTried, EntrySound, Bucket!Landed
  <2>3. UNCHANGED manifest \/ (export # Bucket!Idle /\ Bucket!Append)
    BY DEF Bucket!Next, Bucket!V1Writes, Bucket!Start, Bucket!List, Bucket!ListFails,
           Bucket!Resume, Bucket!Download, Bucket!Land, Bucket!PrefixDone, Bucket!Finish,
           Bucket!Kill, Bucket!Repair, Bucket!WriteCatalogs
  <2> QED BY <2>1, <2>2, <2>3
<1> QED BY <1>1, ExportInvInit, ExportInvNext, PTL DEF Bucket!Spec, Bucket!ExportIsKept

-----------------------------------------------------------------------------
(* MediaStore.                                                             *)
(*                                                                         *)
(* A sweep deletes what nobody referenced when it looked.  Whoever puts    *)
(* the same bytes again meanwhile marks them as raced, so what is not      *)
(* raced has stayed as the sweep saw it.                                   *)
CONSTANTS Hashes, FileIds, Bytes, Kinds, LiveKind, PathKind, Messages, Pointers, Poolers, Backfill,
          SweepLimit, NoRow
VARIABLES groups, rows, blobs, objects, putting, listed, todo, raced, unregistered

Media == INSTANCE MediaStore WITH Handlers <- Poolers, store <- objects, call <- putting

Puts == [at : Media!Steps, group : Groups, file : FileIds, kind : Kinds]

MediaTyped ==
  /\ groups \subseteq Groups
  /\ rows \in [Groups \X Hashes -> [kind : Kinds, file : FileIds] \cup {NoRow}]
  /\ blobs \subseteq Media!Blobs /\ objects \subseteq Kinds \X Hashes
  /\ putting \in [Media!Callers -> {Media!Idle} \cup Puts]
  /\ todo \subseteq listed /\ listed \subseteq Media!Blobs

\* The last part of a blob's key is the hash it is registered under.
KeysFit == \A b \in blobs \cup listed : b.key[2] = b.hash

\* What a sweep holds is still unreferenced, and what it has deleted still gone.
SweepSound ==
  /\ \A b \in listed : b.hash \notin raced => ~Media!Referenced(b.hash)
  /\ \A b \in listed \ todo : b.key \notin objects \/ b.hash \in raced

\* A put that has seen or written its bytes finds them there.
PutSound(c) ==
  putting[c].at \in {"register", "insert"} =>
    Media!KeyOf(c) \in objects \/ Media!HashOf(c) \in raced

MediaInv ==
  /\ MediaTyped /\ KeysFit /\ SweepSound
  /\ \A c \in Media!Callers : PutSound(c)
  /\ Media!RowServed /\ Media!Accounted

LEMMA MediaInvInit == Media!Init => MediaInv
BY DEF Media!Init, MediaInv, MediaTyped, KeysFit, SweepSound, PutSound, Media!RowServed,
       Media!Accounted, Media!Idle

\* A put at a step of it.
LEMMA PutAt ==
  ASSUME MediaInv, Media!MediaAssumption, NEW c \in Media!Callers, putting[c].at # "idle"
  PROVE  /\ putting[c] \in Puts /\ putting[c].group \in Groups /\ putting[c].kind \in Kinds
         /\ putting[c].file \in FileIds
         /\ Media!HashOf(c) \in Hashes /\ Media!KeyOf(c) \in Kinds \X Hashes
         /\ Media!KeyOf(c)[2] = Media!HashOf(c)
<1>1. putting[c] # Media!Idle BY DEF Media!Idle
<1>2. putting[c] \in Puts BY <1>1 DEF MediaInv, MediaTyped
<1>3. /\ putting[c].group \in Groups /\ putting[c].kind \in Kinds /\ putting[c].file \in FileIds
  BY <1>2 DEF Puts
<1>4. Bytes[putting[c].file] \in Hashes BY <1>3 DEF Media!MediaAssumption
<1> QED BY <1>2, <1>3, <1>4 DEF Media!HashOf, Media!KeyOf, Media!Key

LEMMA PutGoesTo ==
  ASSUME MediaInv, NEW c \in Media!Callers, putting[c] \in Puts, NEW step \in Media!Steps,
         Media!To(c, step)
  PROVE  /\ putting' \in [Media!Callers -> {Media!Idle} \cup Puts]
         /\ putting'[c].at = step
         /\ \A d \in Media!Callers : d # c => putting'[d] = putting[d]
         /\ \A d \in Media!Callers : Media!KeyOf(d)' = Media!KeyOf(d)
                                     /\ Media!HashOf(d)' = Media!HashOf(d)
<1> DEFINE next == [putting[c] EXCEPT !.at = step]
<1>1. /\ next \in Puts /\ next.at = step /\ next.file = putting[c].file
      /\ next.kind = putting[c].kind
  BY DEF Puts
<1>2. putting' = [putting EXCEPT ![c] = next] BY DEF Media!To
<1> HIDE DEF next
<1>3. putting \in [Media!Callers -> {Media!Idle} \cup Puts] BY DEF MediaInv, MediaTyped
<1>4. \A d \in Media!Callers : putting'[d] = IF d = c THEN next ELSE putting[d] BY <1>2, <1>3
<1>5. \A d \in Media!Callers : /\ putting'[d].file = putting[d].file
                               /\ putting'[d].kind = putting[d].kind
  BY <1>1, <1>4
<1> QED BY <1>1, <1>2, <1>3, <1>4, <1>5 DEF Media!KeyOf, Media!HashOf, Media!Key

LEMMA PutReturns ==
  ASSUME MediaInv, NEW c \in Media!Callers, Media!Return(c)
  PROVE  /\ putting' \in [Media!Callers -> {Media!Idle} \cup Puts]
         /\ putting'[c].at = "idle"
         /\ \A d \in Media!Callers : d # c =>
              /\ putting'[d] = putting[d]
              /\ Media!KeyOf(d)' = Media!KeyOf(d) /\ Media!HashOf(d)' = Media!HashOf(d)
<1>1. putting \in [Media!Callers -> {Media!Idle} \cup Puts] BY DEF MediaInv, MediaTyped
<1>2. \A d \in Media!Callers : putting'[d] = IF d = c THEN Media!Idle ELSE putting[d]
  BY <1>1 DEF Media!Return
<1>3. putting' \in [Media!Callers -> {Media!Idle} \cup Puts] BY <1>1 DEF Media!Return
<1> QED BY <1>2, <1>3 DEF Media!Idle, Media!KeyOf, Media!HashOf, Media!Key

\* A step that leaves the objects, the registry and the sweep alone, and of which
\* every put that waits to register still does.
LEMMA StoreRests ==
  ASSUME MediaInv, UNCHANGED <<blobs, objects, listed, todo, raced, unregistered>>,
         MediaTyped', Media!RowServed',
         \A h \in Hashes : Media!Referenced(h)' /\ h \notin raced =>
           Media!Referenced(h) \/ h \notin Media!SweptHashes,
         \A c \in Media!Callers : PutSound(c)',
         \A c \in Media!Callers : putting[c].at = "register" =>
           putting'[c].at = "register" /\ Media!KeyOf(c)' = Media!KeyOf(c)
  PROVE  MediaInv'
<1>1. KeysFit' BY DEF MediaInv, KeysFit
<1>2. \A b \in listed : b.hash \in Hashes /\ b.hash \in Media!SweptHashes
  BY DEF MediaInv, MediaTyped, Media!Blobs, Media!SweptHashes
<1>3. SweepSound' BY <1>2 DEF MediaInv, SweepSound
<1>4. Media!Accounted'
  <2> SUFFICES ASSUME NEW k \in objects
               PROVE  \/ Media!Registered(k)'
                      \/ \E c \in Media!Callers : putting'[c].at = "register" /\ Media!KeyOf(c)' = k
                      \/ k \in unregistered \/ k[2] \in raced
    BY DEF Media!Accounted
  <2>1. Media!Registered(k)' <=> Media!Registered(k) BY DEF Media!Registered
  <2> QED BY <2>1 DEF MediaInv, Media!Accounted
<1> QED BY <1>1, <1>3, <1>4 DEF MediaInv

LEMMA GroupsComeAndGo ==
  ASSUME MediaInv, Media!MediaAssumption, NEW g \in Groups,
         Media!Ensure(g) \/ Media!ForgetGroup(g)
  PROVE  MediaInv'
<1>1. /\ UNCHANGED <<blobs, objects, putting, listed, todo, raced, unregistered>>
      /\ groups' \subseteq Groups
  BY DEF Media!Ensure, Media!ForgetGroup, MediaInv, MediaTyped
<1>2. rows \in [Groups \X Hashes -> [kind : Kinds, file : FileIds] \cup {NoRow}]
  BY DEF MediaInv, MediaTyped
<1>3. /\ rows' \in [Groups \X Hashes -> [kind : Kinds, file : FileIds] \cup {NoRow}]
      /\ \A x \in Groups, h \in Hashes : rows'[<<x, h>>] \in {NoRow, rows[<<x, h>>]}
  BY <1>2 DEF Media!Ensure, Media!ForgetGroup
<1>4. MediaTyped' BY <1>1, <1>3 DEF MediaInv, MediaTyped
<1>5. Media!RowServed' BY <1>1, <1>3 DEF MediaInv, Media!RowServed, Media!Key
<1>6. \A h \in Hashes : Media!Referenced(h)' => Media!Referenced(h)
  BY <1>3 DEF Media!Referenced
<1>7. \A c \in Media!Callers : PutSound(c)' /\ Media!KeyOf(c)' = Media!KeyOf(c)
  BY <1>1 DEF MediaInv, PutSound, Media!KeyOf, Media!HashOf, Media!Key
<1> QED BY <1>1, <1>4, <1>5, <1>6, <1>7, StoreRests

\* The steps of a put that write nothing.
LEMMA PutLooks ==
  ASSUME MediaInv, Media!MediaAssumption, NEW c \in Media!Callers,
         Media!Look(c) \/ Media!Exists(c)
  PROVE  MediaInv'
<1>1. /\ UNCHANGED <<groups, rows, blobs, objects, listed, todo, raced, unregistered>>
      /\ putting[c].at \in {"look", "exists"}
  BY DEF Media!Look, Media!Exists
<1>2. putting[c] \in Puts BY <1>1, PutAt
<1>3. \A h \in Hashes : Media!Referenced(h)' = Media!Referenced(h) BY <1>1 DEF Media!Referenced
<1>4. Media!RowServed' BY <1>1 DEF MediaInv, Media!RowServed, Media!Key
<1>5. CASE Media!Return(c)
  <2>1. MediaTyped' BY <1>1, <1>5, PutReturns DEF MediaInv, MediaTyped
  <2>2. \A d \in Media!Callers : PutSound(d)' BY <1>1, <1>5, PutReturns DEF MediaInv, PutSound
  <2> QED BY <1>1, <1>3, <1>4, <1>5, <2>1, <2>2, PutReturns, StoreRests
<1>6. ASSUME NEW step \in {"exists", "write", "register"}, Media!To(c, step),
             step = "register" => Media!KeyOf(c) \in objects
      PROVE  MediaInv'
  <2>1. step \in Media!Steps BY DEF Media!Steps
  <2>2. /\ putting' \in [Media!Callers -> {Media!Idle} \cup Puts]
        /\ putting'[c].at = step
        /\ \A d \in Media!Callers : d # c => putting'[d] = putting[d]
        /\ \A d \in Media!Callers : Media!KeyOf(d)' = Media!KeyOf(d)
                                    /\ Media!HashOf(d)' = Media!HashOf(d)
    BY <1>2, <1>6, <2>1, PutGoesTo
  <2>3. MediaTyped' BY <1>1, <2>2 DEF MediaInv, MediaTyped
  <2>4. \A d \in Media!Callers : PutSound(d)' BY <1>1, <1>6, <2>2 DEF MediaInv, PutSound
  <2> QED BY <1>1, <1>3, <1>4, <2>2, <2>3, <2>4, StoreRests
<1> QED BY <1>5, <1>6 DEF Media!Look, Media!Exists

LEMMA PutBegins ==
  ASSUME MediaInv, Media!MediaAssumption, NEW c \in Media!Callers, NEW g \in Groups,
         NEW f \in FileIds, NEW k \in Kinds, Media!Begin(c, g, f, k)
  PROVE  MediaInv'
<1> DEFINE next == [at |-> "look", group |-> g, file |-> f, kind |-> k]
<1>1. /\ UNCHANGED <<groups, rows, blobs, objects, listed, todo, raced, unregistered>>
      /\ putting[c].at = "idle" /\ putting' = [putting EXCEPT ![c] = next]
  BY DEF Media!Begin, Media!Busy
<1>2. next \in Puts /\ next.at = "look" BY DEF Puts, Media!Steps
<1> HIDE DEF next
<1>3. putting \in [Media!Callers -> {Media!Idle} \cup Puts] BY DEF MediaInv, MediaTyped
<1>4. \A d \in Media!Callers : putting'[d] = IF d = c THEN next ELSE putting[d] BY <1>1, <1>3
<1>5. putting' \in [Media!Callers -> {Media!Idle} \cup Puts] BY <1>1, <1>2, <1>3
<1>6. MediaTyped' BY <1>1, <1>5 DEF MediaInv, MediaTyped
<1>7. \A h \in Hashes : Media!Referenced(h)' = Media!Referenced(h) BY <1>1 DEF Media!Referenced
<1>8. Media!RowServed' BY <1>1 DEF MediaInv, Media!RowServed, Media!Key
<1>9. \A d \in Media!Callers : putting[d].at = "register" =>
        putting'[d].at = "register" /\ Media!KeyOf(d)' = Media!KeyOf(d)
  BY <1>1, <1>4 DEF Media!KeyOf, Media!Key
<1>10. \A d \in Media!Callers : PutSound(d)'
  BY <1>1, <1>2, <1>4 DEF MediaInv, PutSound, Media!KeyOf, Media!HashOf, Media!Key
<1> QED BY <1>1, <1>6, <1>7, <1>8, <1>9, <1>10, StoreRests


\* The bytes are in the store from here on, and the put is about to register them.
LEMMA PutWrites ==
  ASSUME MediaInv, Media!MediaAssumption, NEW c \in Media!Callers, Media!Write(c)
  PROVE  MediaInv'
<1>1. /\ UNCHANGED <<groups, rows, blobs, listed, todo, unregistered>>
      /\ putting[c].at = "write" /\ objects' = objects \cup {Media!KeyOf(c)}
      /\ raced' = raced \cup ({Media!HashOf(c)} \cap Media!SweptHashes)
      /\ Media!To(c, "register")
  BY DEF Media!Write
<1>2. /\ putting[c] \in Puts /\ Media!KeyOf(c) \in Kinds \X Hashes
      /\ Media!KeyOf(c)[2] = Media!HashOf(c)
  BY <1>1, PutAt
<1>3. "register" \in Media!Steps BY DEF Media!Steps
<1>4. /\ putting' \in [Media!Callers -> {Media!Idle} \cup Puts]
      /\ putting'[c].at = "register"
      /\ \A d \in Media!Callers : d # c => putting'[d] = putting[d]
      /\ \A d \in Media!Callers : Media!KeyOf(d)' = Media!KeyOf(d)
                                  /\ Media!HashOf(d)' = Media!HashOf(d)
  BY <1>1, <1>2, <1>3, PutGoesTo
<1>5. MediaTyped' BY <1>1, <1>2, <1>4 DEF MediaInv, MediaTyped
<1>6. KeysFit' BY <1>1 DEF MediaInv, KeysFit
<1>7. \A h \in Hashes : Media!Referenced(h)' = Media!Referenced(h) BY <1>1 DEF Media!Referenced
<1>8. SweepSound'
  <2>1. \A b \in listed : b.hash \in Hashes /\ b.hash \in Media!SweptHashes
    BY DEF MediaInv, MediaTyped, Media!Blobs, Media!SweptHashes
  <2>2. \A b \in listed : b.key = Media!KeyOf(c) => b.hash \in raced'
    BY <1>1, <1>2, <2>1 DEF MediaInv, KeysFit
  <2> QED BY <1>1, <1>7, <2>1, <2>2 DEF MediaInv, SweepSound
<1>9. \A d \in Media!Callers : PutSound(d)' BY <1>1, <1>4 DEF MediaInv, PutSound
<1>10. Media!RowServed' BY <1>1 DEF MediaInv, Media!RowServed, Media!Key
<1>11. Media!Accounted'
  <2> SUFFICES ASSUME NEW k \in objects'
               PROVE  \/ Media!Registered(k)'
                      \/ \E d \in Media!Callers : putting'[d].at = "register" /\ Media!KeyOf(d)' = k
                      \/ k \in unregistered' \/ k[2] \in raced'
    BY DEF Media!Accounted
  <2>1. Media!Registered(k)' <=> Media!Registered(k) BY <1>1 DEF Media!Registered
  <2>2. CASE k = Media!KeyOf(c) BY <1>4, <2>2
  <2>3. CASE k \in objects
    <3>1. \A d \in Media!Callers : putting[d].at = "register" =>
            putting'[d].at = "register" /\ Media!KeyOf(d)' = Media!KeyOf(d)
      BY <1>4
    <3> QED BY <1>1, <2>1, <2>3, <3>1 DEF MediaInv, Media!Accounted
  <2> QED BY <1>1, <2>2, <2>3
<1> QED BY <1>5, <1>6, <1>8, <1>9, <1>10, <1>11 DEF MediaInv

\* The registry names the object, or the key is left out of it for good.
LEMMA PutRegisters ==
  ASSUME MediaInv, Media!MediaAssumption, NEW c \in Media!Callers, Media!RegisterBlob(c)
  PROVE  MediaInv'
<1> DEFINE blob == [hash |-> Media!HashOf(c), key |-> Media!KeyOf(c)]
<1>1. /\ UNCHANGED <<groups, rows, objects, listed, todo, raced>>
      /\ putting[c].at = "register" /\ Media!To(c, "insert")
      /\ \/ /\ blobs' = blobs
            /\ Media!Registered(Media!KeyOf(c)) /\ unregistered' = unregistered
         \/ blobs' = blobs /\ unregistered' = unregistered \cup {Media!KeyOf(c)}
         \/ blobs' = blobs \cup {blob} /\ unregistered' = unregistered
  BY DEF Media!RegisterBlob
<1>2. /\ putting[c] \in Puts /\ Media!KeyOf(c) \in Kinds \X Hashes
      /\ Media!HashOf(c) \in Hashes /\ Media!KeyOf(c)[2] = Media!HashOf(c)
  BY <1>1, PutAt
<1>3. /\ blob \in Media!Blobs /\ blob.key = Media!KeyOf(c) /\ blob.key[2] = blob.hash
  BY <1>2 DEF Media!Blobs
<1> HIDE DEF blob
<1>4. "insert" \in Media!Steps BY DEF Media!Steps
<1>5. /\ putting' \in [Media!Callers -> {Media!Idle} \cup Puts]
      /\ putting'[c].at = "insert"
      /\ \A d \in Media!Callers : d # c => putting'[d] = putting[d]
      /\ \A d \in Media!Callers : Media!KeyOf(d)' = Media!KeyOf(d)
                                  /\ Media!HashOf(d)' = Media!HashOf(d)
  BY <1>1, <1>2, <1>4, PutGoesTo
<1>6. MediaTyped' BY <1>1, <1>3, <1>5 DEF MediaInv, MediaTyped
<1>7. KeysFit' BY <1>1, <1>3 DEF MediaInv, KeysFit
<1>8. \A h \in Hashes : Media!Referenced(h)' = Media!Referenced(h) BY <1>1 DEF Media!Referenced
<1>9. SweepSound'
  <2>1. \A b \in listed : b.hash \in Hashes BY DEF MediaInv, MediaTyped, Media!Blobs
  <2> QED BY <1>1, <1>8, <2>1 DEF MediaInv, SweepSound
<1>10. \A d \in Media!Callers : PutSound(d)' BY <1>1, <1>5 DEF MediaInv, PutSound
<1>11. Media!RowServed' BY <1>1 DEF MediaInv, Media!RowServed, Media!Key
<1>12. Media!Accounted'
  <2> SUFFICES ASSUME NEW k \in objects
               PROVE  \/ Media!Registered(k)'
                      \/ \E d \in Media!Callers : putting'[d].at = "register" /\ Media!KeyOf(d)' = k
                      \/ k \in unregistered' \/ k[2] \in raced
    BY <1>1 DEF Media!Accounted
  <2>1. /\ Media!Registered(k) => Media!Registered(k)'
        /\ k = Media!KeyOf(c) => Media!Registered(k)' \/ k \in unregistered'
    BY <1>1, <1>3 DEF Media!Registered
  <2>2. \A d \in Media!Callers : d # c /\ putting[d].at = "register" =>
          putting'[d].at = "register" /\ Media!KeyOf(d)' = Media!KeyOf(d)
    BY <1>5
  <2>3. unregistered \subseteq unregistered' BY <1>1
  <2> QED BY <2>1, <2>2, <2>3 DEF MediaInv, Media!Accounted
<1> QED BY <1>6, <1>7, <1>9, <1>10, <1>11, <1>12 DEF MediaInv

\* A put that ends early: what it wrote stays, and may be left out of the registry.
LEMMA PutAborts ==
  ASSUME MediaInv, Media!MediaAssumption, NEW c \in Media!Callers, Media!Abort(c)
  PROVE  MediaInv'
<1>1. /\ UNCHANGED <<groups, rows, blobs, objects, listed, todo, raced>>
      /\ Media!Return(c) /\ unregistered \subseteq unregistered'
      /\ putting[c].at = "register" => Media!KeyOf(c) \in unregistered'
  BY DEF Media!Abort
<1>2. /\ putting' \in [Media!Callers -> {Media!Idle} \cup Puts]
      /\ putting'[c].at = "idle"
      /\ \A d \in Media!Callers : d # c =>
           /\ putting'[d] = putting[d]
           /\ Media!KeyOf(d)' = Media!KeyOf(d) /\ Media!HashOf(d)' = Media!HashOf(d)
  BY <1>1, PutReturns
<1>3. MediaTyped' BY <1>1, <1>2 DEF MediaInv, MediaTyped
<1>4. KeysFit' BY <1>1 DEF MediaInv, KeysFit
<1>5. \A h \in Hashes : Media!Referenced(h)' = Media!Referenced(h) BY <1>1 DEF Media!Referenced
<1>6. SweepSound'
  <2>1. \A b \in listed : b.hash \in Hashes BY DEF MediaInv, MediaTyped, Media!Blobs
  <2> QED BY <1>1, <1>5, <2>1 DEF MediaInv, SweepSound
<1>7. \A d \in Media!Callers : PutSound(d)' BY <1>1, <1>2 DEF MediaInv, PutSound
<1>8. Media!RowServed' BY <1>1 DEF MediaInv, Media!RowServed, Media!Key
<1>9. Media!Accounted'
  <2> SUFFICES ASSUME NEW k \in objects
               PROVE  \/ Media!Registered(k)'
                      \/ \E d \in Media!Callers : putting'[d].at = "register" /\ Media!KeyOf(d)' = k
                      \/ k \in unregistered' \/ k[2] \in raced
    BY <1>1 DEF Media!Accounted
  <2>1. Media!Registered(k)' <=> Media!Registered(k) BY <1>1 DEF Media!Registered
  <2>2. \A d \in Media!Callers : d # c /\ putting[d].at = "register" =>
          putting'[d].at = "register" /\ Media!KeyOf(d)' = Media!KeyOf(d)
    BY <1>2
  <2> QED BY <1>1, <2>1, <2>2 DEF MediaInv, Media!Accounted
<1> QED BY <1>3, <1>4, <1>6, <1>7, <1>8, <1>9 DEF MediaInv

\* The group's reference: its bytes are there, or met a sweep.
LEMMA PutInserts ==
  ASSUME MediaInv, Media!MediaAssumption, NEW c \in Media!Callers, Media!InsertObject(c)
  PROVE  MediaInv'
<1> DEFINE g == putting[c].group
           h == Media!HashOf(c)
           row == Media!Upserted(c)
<1>1. /\ UNCHANGED <<groups, blobs, objects, listed, todo, unregistered>>
      /\ putting[c].at = "insert" /\ Media!Return(c)
      /\ \/ rows' = rows /\ raced' = raced
         \/ /\ rows' = [rows EXCEPT ![<<g, h>>] = row]
            /\ raced' = raced \cup ({h} \cap Media!SweptHashes)
  BY DEF Media!InsertObject
<1>2. /\ g \in Groups /\ h \in Hashes /\ putting[c].kind \in Kinds /\ putting[c].file \in FileIds
      /\ Media!KeyOf(c) = <<putting[c].kind, h>>
  BY <1>1, PutAt DEF Media!KeyOf, Media!Key, Media!HashOf
<1>3. rows \in [Groups \X Hashes -> [kind : Kinds, file : FileIds] \cup {NoRow}]
  BY DEF MediaInv, MediaTyped
<1>4. /\ row \in [kind : Kinds, file : FileIds]
      /\ rows[<<g, h>>] = NoRow => row.kind = putting[c].kind
      /\ rows[<<g, h>>] # NoRow => row.kind = rows[<<g, h>>].kind
  <2>1. CASE rows[<<g, h>>] = NoRow
    <3>1. row = [kind |-> putting[c].kind, file |-> putting[c].file] BY <2>1 DEF Media!Upserted
    <3> QED BY <1>2, <2>1, <3>1
  <2>2. CASE rows[<<g, h>>] # NoRow
    <3>1. rows[<<g, h>>] \in [kind : Kinds, file : FileIds] BY <1>2, <1>3, <2>2
    <3>2. row = [rows[<<g, h>>] EXCEPT !.file = putting[c].file] BY <2>2 DEF Media!Upserted
    <3> QED BY <1>2, <2>2, <3>1, <3>2
  <2> QED BY <2>1, <2>2
<1>5. /\ putting' \in [Media!Callers -> {Media!Idle} \cup Puts]
      /\ putting'[c].at = "idle"
      /\ \A d \in Media!Callers : d # c =>
           /\ putting'[d] = putting[d]
           /\ Media!KeyOf(d)' = Media!KeyOf(d) /\ Media!HashOf(d)' = Media!HashOf(d)
  BY <1>1, PutReturns
<1>6. Media!KeyOf(c) \in objects \/ h \in raced BY <1>1 DEF MediaInv, PutSound
<1> HIDE DEF g, h, row
<1>7. /\ raced \subseteq raced'
      /\ rows' \in [Groups \X Hashes -> [kind : Kinds, file : FileIds] \cup {NoRow}]
      /\ \A x \in Groups, y \in Hashes :
           \/ rows'[<<x, y>>] = rows[<<x, y>>]
           \/ /\ x = g /\ y = h /\ rows'[<<x, y>>] = row
              /\ h \in Media!SweptHashes => h \in raced'
  <2>1. <<g, h>> \in Groups \X Hashes BY <1>2
  <2>2. ASSUME NEW r \in [Groups \X Hashes -> [kind : Kinds, file : FileIds] \cup {NoRow}],
               r = [rows EXCEPT ![<<g, h>>] = row], NEW x \in Groups, NEW y \in Hashes
        PROVE  r[<<x, y>>] = IF x = g /\ y = h THEN row ELSE rows[<<x, y>>]
    BY <1>3, <2>1, <2>2
  <2>3. [rows EXCEPT ![<<g, h>>] = row]
          \in [Groups \X Hashes -> [kind : Kinds, file : FileIds] \cup {NoRow}]
    BY <1>3, <1>4, <2>1
  <2> QED BY <1>1, <1>3, <2>2, <2>3
<1>8. MediaTyped' BY <1>1, <1>5, <1>7 DEF MediaInv, MediaTyped
<1>9. KeysFit' BY <1>1 DEF MediaInv, KeysFit
<1>10. SweepSound'
  <2>1. \A b \in listed : b.hash \in Hashes /\ b.hash \in Media!SweptHashes
    BY DEF MediaInv, MediaTyped, Media!Blobs, Media!SweptHashes
  <2>2. \A y \in Hashes : y \in Media!SweptHashes /\ y \notin raced' /\ ~Media!Referenced(y)
          => ~Media!Referenced(y)'
    BY <1>7 DEF Media!Referenced
  <2> QED BY <1>1, <1>7, <2>1, <2>2 DEF MediaInv, SweepSound
<1>11. \A d \in Media!Callers : PutSound(d)'
  <2> SUFFICES ASSUME NEW d \in Media!Callers PROVE PutSound(d)' OBVIOUS
  <2>1. CASE d = c BY <1>5, <2>1 DEF PutSound
  <2>2. CASE d # c BY <1>1, <1>5, <1>7, <2>2 DEF MediaInv, PutSound
  <2> QED BY <2>1, <2>2
<1>12. Media!RowServed'
  <2> SUFFICES ASSUME NEW x \in Groups, NEW y \in Hashes, rows'[<<x, y>>] # NoRow, y \notin raced'
               PROVE  <<rows'[<<x, y>>].kind, y>> \in objects
    BY <1>1 DEF Media!RowServed, Media!Key
  <2>1. CASE rows[<<x, y>>] # NoRow /\ rows'[<<x, y>>].kind = rows[<<x, y>>].kind
    BY <1>7, <2>1 DEF MediaInv, Media!RowServed, Media!Key
  <2>2. CASE y = h /\ rows'[<<x, y>>].kind = putting[c].kind BY <1>2, <1>6, <1>7, <2>2
  <2> QED BY <1>4, <1>7, <2>1, <2>2
<1>13. Media!Accounted'
  <2> SUFFICES ASSUME NEW k \in objects
               PROVE  \/ Media!Registered(k)'
                      \/ \E d \in Media!Callers : putting'[d].at = "register" /\ Media!KeyOf(d)' = k
                      \/ k \in unregistered \/ k[2] \in raced'
    BY <1>1 DEF Media!Accounted
  <2>1. Media!Registered(k)' <=> Media!Registered(k) BY <1>1 DEF Media!Registered
  <2>2. \A d \in Media!Callers : putting[d].at = "register" =>
          putting'[d].at = "register" /\ Media!KeyOf(d)' = Media!KeyOf(d)
    BY <1>1, <1>5
  <2> QED BY <1>7, <2>1, <2>2 DEF MediaInv, Media!Accounted
<1> QED BY <1>8, <1>9, <1>10, <1>11, <1>12, <1>13 DEF MediaInv

-----------------------------------------------------------------------------
\* A sweep selects what nobody references and ends without touching the registry.
LEMMA SweepListsOrGivesUp ==
  ASSUME MediaInv, Media!ListUnreferenced \/ Media!AbortSweep
  PROVE  MediaInv'
<1>1. /\ UNCHANGED <<groups, rows, blobs, objects, putting, raced, unregistered>>
      /\ todo' = listed' /\ listed' \subseteq Media!Unreferenced
  BY DEF Media!ListUnreferenced, Media!AbortSweep
<1>2. listed' \subseteq blobs /\ \A b \in listed' : ~Media!Referenced(b.hash)
  BY <1>1 DEF Media!Unreferenced
<1>3. MediaTyped' BY <1>1, <1>2 DEF MediaInv, MediaTyped
<1>4. KeysFit' BY <1>1, <1>2 DEF MediaInv, KeysFit
<1>5. \A h : Media!Referenced(h)' = Media!Referenced(h) BY <1>1 DEF Media!Referenced
<1>6. SweepSound' BY <1>1, <1>2, <1>5 DEF SweepSound
<1>7. \A d \in Media!Callers : /\ PutSound(d)'
                               /\ putting'[d].at = putting[d].at
                               /\ Media!KeyOf(d)' = Media!KeyOf(d)
  BY <1>1 DEF MediaInv, PutSound, Media!KeyOf, Media!HashOf, Media!Key
<1>8. Media!RowServed' BY <1>1 DEF MediaInv, Media!RowServed, Media!Key
<1>9. Media!Accounted' BY <1>1, <1>7 DEF MediaInv, Media!Accounted, Media!Registered
<1> QED BY <1>3, <1>4, <1>6, <1>7, <1>8, <1>9 DEF MediaInv

\* An object goes: nothing that did not meet the sweep was still counting on it.
LEMMA SweepDeletes ==
  ASSUME MediaInv, Media!MediaAssumption, Media!DeleteObject
  PROVE  MediaInv'
<1> PICK b \in todo :
      /\ objects' = objects \ {b.key} /\ todo' = todo \ {b}
      /\ raced' = raced \cup
           {Media!HashOf(c) : c \in {d \in Media!Callers :
              putting[d].at \in {"register", "insert"} /\ Media!KeyOf(d) = b.key}}
      /\ unregistered' = unregistered \ {b.key}
      /\ UNCHANGED <<groups, rows, blobs, putting, listed>>
  BY DEF Media!DeleteObject
<1>1. raced \subseteq raced'
  /\ \A d \in Media!Callers :
       putting[d].at \in {"register", "insert"} /\ Media!KeyOf(d) = b.key
         => Media!HashOf(d) \in raced'
  OBVIOUS
<1>2. b \in listed /\ b.key[2] = b.hash BY DEF MediaInv, MediaTyped, KeysFit
<1>3. MediaTyped' BY DEF MediaInv, MediaTyped
<1>4. KeysFit' BY DEF MediaInv, KeysFit
<1>5. \A h : Media!Referenced(h)' = Media!Referenced(h) BY DEF Media!Referenced
<1>6. SweepSound' BY <1>1, <1>5 DEF MediaInv, SweepSound
<1>7. \A d \in Media!Callers : /\ Media!KeyOf(d)' = Media!KeyOf(d)
                               /\ Media!HashOf(d)' = Media!HashOf(d)
  BY DEF Media!KeyOf, Media!HashOf, Media!Key
<1>8. \A d \in Media!Callers : PutSound(d)' BY <1>1, <1>7 DEF MediaInv, PutSound
<1>9. Media!RowServed'
  <2> SUFFICES ASSUME NEW g \in Groups, NEW h \in Hashes, rows[<<g, h>>] # NoRow, h \notin raced'
               PROVE  <<rows[<<g, h>>].kind, h>> \in objects'
    BY DEF Media!RowServed, Media!Key
  <2>1. <<rows[<<g, h>>].kind, h>> \in objects BY <1>1 DEF MediaInv, Media!RowServed, Media!Key
  <2>2. h # b.hash BY <1>1, <1>2 DEF MediaInv, SweepSound, Media!Referenced
  <2> QED BY <1>2, <2>1, <2>2
<1>10. Media!Accounted'
  <2> SUFFICES ASSUME NEW k \in objects'
               PROVE  \/ Media!Registered(k)'
                      \/ \E d \in Media!Callers : putting'[d].at = "register" /\ Media!KeyOf(d)' = k
                      \/ k \in unregistered' \/ k[2] \in raced'
    BY DEF Media!Accounted
  <2>1. Media!Registered(k)' <=> Media!Registered(k) BY DEF Media!Registered
  <2>2. k \in objects /\ k # b.key OBVIOUS
  <2> QED BY <1>1, <1>7, <2>1, <2>2 DEF MediaInv, Media!Accounted
<1> QED BY <1>3, <1>4, <1>6, <1>8, <1>9, <1>10 DEF MediaInv

\* The registry forgets the batch: what came back meanwhile met the sweep.
LEMMA SweepForgets ==
  ASSUME MediaInv, Media!MediaAssumption, Media!DropBlobs
  PROVE  MediaInv'
<1>1. /\ UNCHANGED <<groups, rows, objects, putting, todo, unregistered>>
      /\ todo = {} /\ listed' = {} /\ blobs' = {b \in blobs : b.key \notin Media!SweptKeys}
      /\ raced \subseteq raced'
  BY DEF Media!DropBlobs
<1>2. MediaTyped' BY <1>1 DEF MediaInv, MediaTyped
<1>3. KeysFit' BY <1>1 DEF MediaInv, KeysFit
<1>4. SweepSound' BY <1>1 DEF SweepSound
<1>5. \A d \in Media!Callers : /\ Media!KeyOf(d)' = Media!KeyOf(d)
                               /\ Media!HashOf(d)' = Media!HashOf(d)
                               /\ putting'[d].at = putting[d].at
  BY <1>1 DEF Media!KeyOf, Media!HashOf, Media!Key
<1>6. \A d \in Media!Callers : PutSound(d)' BY <1>1, <1>5 DEF MediaInv, PutSound
<1>7. Media!RowServed' BY <1>1 DEF MediaInv, Media!RowServed, Media!Key
<1>8. Media!Accounted'
  <2> SUFFICES ASSUME NEW k \in objects
               PROVE  \/ Media!Registered(k)'
                      \/ \E d \in Media!Callers : putting'[d].at = "register" /\ Media!KeyOf(d)' = k
                      \/ k \in unregistered' \/ k[2] \in raced'
    BY <1>1 DEF Media!Accounted
  <2>1. CASE k \in Media!SweptKeys
    <3>1. PICK b \in listed : b.key = k BY <2>1 DEF Media!SweptKeys
    <3>2. b.hash \in raced BY <1>1, <3>1 DEF MediaInv, SweepSound
    <3>3. k[2] = b.hash BY <3>1 DEF MediaInv, KeysFit
    <3> QED BY <1>1, <3>2, <3>3
  <2>2. CASE k \notin Media!SweptKeys
    <3>1. Media!Registered(k) => Media!Registered(k)' BY <1>1, <2>2 DEF Media!Registered
    <3> QED BY <1>1, <1>5, <3>1 DEF MediaInv, Media!Accounted
  <2> QED BY <2>1, <2>2
<1> QED BY <1>2, <1>3, <1>4, <1>6, <1>7, <1>8 DEF MediaInv

LEMMA MediaInvNext ==
  ASSUME Media!MediaAssumption
  PROVE  MediaInv /\ [Media!Next]_Media!vars => MediaInv'
<1> SUFFICES ASSUME MediaInv, [Media!Next]_Media!vars PROVE MediaInv' OBVIOUS
<1>1. ASSUME NEW g \in Groups, Media!Ensure(g) \/ Media!ForgetGroup(g) PROVE MediaInv'
  BY <1>1, GroupsComeAndGo
<1>2. ASSUME NEW g \in Groups, NEW f \in FileIds, Media!BackfillPointer(g, f) PROVE MediaInv'
  <2>1. /\ Backfill \in Media!Callers /\ PathKind[f] \in Kinds
        /\ Media!Begin(Backfill, g, f, PathKind[f])
    BY <1>2 DEF Media!BackfillPointer, Media!Callers, Media!MediaAssumption
  <2> QED BY <2>1, PutBegins
<1>3. ASSUME NEW g \in Groups, NEW f \in FileIds, NEW c \in Poolers, Media!Pool(c, g, f)
      PROVE  MediaInv'
  <2>1. /\ c \in Media!Callers /\ LiveKind[f] \in Kinds /\ Media!Begin(c, g, f, LiveKind[f])
    BY <1>3 DEF Media!Pool, Media!Callers, Media!MediaAssumption
  <2> QED BY <2>1, PutBegins
<1>4. ASSUME NEW c \in Media!Callers,
             \/ Media!Look(c) \/ Media!Exists(c) \/ Media!Write(c) \/ Media!RegisterBlob(c)
             \/ Media!InsertObject(c) \/ Media!Abort(c)
      PROVE  MediaInv'
  BY <1>4, PutLooks, PutWrites, PutRegisters, PutInserts, PutAborts
<1>5. CASE Media!ListUnreferenced \/ Media!AbortSweep BY <1>5, SweepListsOrGivesUp
<1>6. CASE Media!DeleteObject BY <1>6, SweepDeletes
<1>7. CASE Media!DropBlobs BY <1>7, SweepForgets
<1>8. CASE UNCHANGED Media!vars
  BY <1>8 DEF Media!vars, MediaInv, MediaTyped, KeysFit, SweepSound, PutSound, Media!RowServed,
              Media!Accounted, Media!Registered, Media!Referenced, Media!KeyOf, Media!HashOf,
              Media!Key
<1> QED BY <1>1, <1>2, <1>3, <1>4, <1>5, <1>6, <1>7, <1>8 DEF Media!Next

(* Whatever the interleaving of puts, forgotten groups and sweeps, every   *)
(* reference of a group names bytes that are in the store, unless they     *)
(* were put again while a sweep held them, and every object in the store   *)
(* can be collected one day, but for the named exceptions.  The invariant  *)
(* adds that a sweep only ever holds what nobody references and that what  *)
(* a put has seen stays there until it returns.                            *)
THEOREM RowsServed ==
  ASSUME Media!MediaAssumption
  PROVE  Media!Spec => [](Media!RowServed /\ Media!Accounted)
<1>1. MediaInv => Media!RowServed /\ Media!Accounted BY DEF MediaInv
<1> QED BY <1>1, MediaInvInit, MediaInvNext, PTL DEF Media!Spec

-----------------------------------------------------------------------------
(* AnswerJobs.                                                             *)
(*                                                                         *)
(* A run shows its answer in its last step, or one admin at a time; what a *)
(* recipient has seen before is accounted for by a kill or an unsure send. *)
(* Who is asked for a face is an order without repetitions, the named      *)
(* first, of which a run goes down the rest.                               *)
CONSTANTS Chat, Admins, Roster, Unnamed, Tags, Templates, Language, MaxBlobs, Candidates, Bound
VARIABLES kind, step, left, faces, tried, shown, excess, permits

Answers == INSTANCE AnswerJobs

\* The instance has its own names for what FiniteSets defines.
LEMMA AnswersCount ==
  /\ \A S : Answers!IsFiniteSet(S) = IsFiniteSet(S)
  /\ \A S : Answers!Cardinality(S) = Cardinality(S)
BY DEF Answers!IsFiniteSet, IsFiniteSet, Answers!Cardinality, Cardinality

\* The steps of a run, by the kind of the job.
Ways ==
  [source |-> {"download", "lookup", "react", "reply"},
   image |-> {"search", "pictures", "send"}, video |-> {"search", "send"},
   meme |-> {"template", "roster", "faces", "reply", "send"},
   distortion |-> {"download", "reply", "acquire", "distort", "fail", "send"},
   song |-> {"consult", "download", "recognise", "send"},
   call |-> {"admins", "tell"}]

\* Whom a job that is not over has still to show something in this run.
Spared(j) ==
  IF step[j] \in Answers!Over THEN {}
  ELSE IF step[j] = "tell" THEN Answers!ToSet(left[j]) \ tried[j] ELSE Answers!Recipients

AnswerTyped ==
  /\ kind \in [Jobs -> Kinds] /\ step = [j \in Jobs |-> step[j]]
  /\ left = [j \in Jobs |-> left[j]]
  /\ tried \in [Jobs -> SUBSET Answers!Recipients]
  /\ shown \in [Jobs -> [Answers!Recipients -> Nat]] /\ excess \in [Jobs -> Nat]
  /\ permits \in Nat

Fits(n, e, more) == n <= e + more
Allowed(j, r) == IF r \in Spared(j) THEN 0 ELSE 1
ShownFits(j) == \A r \in Answers!Recipients : Fits(shown[j][r], excess[j], Allowed(j, r))

\* One who answers in the chat has tried to when it is over ...
ChatAnswered(j) ==
  kind[j] # "call" =>
    /\ tried[j] \subseteq {Chat}
    /\ step[j] = "ok" /\ kind[j] # "song" => tried[j] = {Chat}

\* ... and one who calls the admins tells those on the list it was given.
AdminsCalled(j) ==
  kind[j] = "call" =>
    /\ step[j] \in {"queued", "admins"} => tried[j] = {}
    /\ step[j] = "tell" =>
         Answers!ToSet(left[j]) \subseteq Admins /\ tried[j] \subseteq Answers!ToSet(left[j])
    /\ step[j] = "ok" => tried[j] = Answers!ToSet(left[j])

JobSound(j) ==
  /\ step[j] \in Ways[kind[j]] \cup {"queued", "ok", "error"}
  /\ ShownFits(j) /\ ChatAnswered(j) /\ AdminsCalled(j)

AnswerInv == AnswerTyped /\ Answers!BoundKept /\ \A j \in Jobs : JobSound(j)

LEMMA AnswerInvInit == Answers!JobsAssumption /\ Answers!Init => AnswerInv
<1> SUFFICES ASSUME Answers!JobsAssumption, Answers!Init PROVE AnswerInv OBVIOUS
<1>1. AnswerTyped
  <2>1. Bound \in Nat BY DEF Answers!JobsAssumption
  <2>2. shown \in [Jobs -> [Answers!Recipients -> Nat]] /\ excess \in [Jobs -> Nat]
    BY DEF Answers!Init
  <2>3. step = [j \in Jobs |-> step[j]] BY DEF Answers!Init
  <2>4. left = [j \in Jobs |-> left[j]] BY DEF Answers!Init
  <2>6. tried \in [Jobs -> SUBSET Answers!Recipients] BY DEF Answers!Init
  <2>5. kind \in [Jobs -> Kinds] /\ permits \in Nat BY <2>1 DEF Answers!Init
  <2> QED BY <2>2, <2>3, <2>4, <2>5, <2>6 DEF AnswerTyped
<1>2. {j \in Jobs : Answers!Holds(j)} = {} BY DEF Answers!Init, Answers!Holds
<1>3. Answers!BoundKept
  <2>1. Cardinality({j \in Jobs : Answers!Holds(j)}) = 0 BY <1>2, FS_EmptySet
  <2>2. permits = Bound /\ Bound \in Nat BY DEF Answers!Init, Answers!JobsAssumption
  <2> QED BY <2>1, <2>2, AnswersCount DEF Answers!BoundKept
<1>4. \A j \in Jobs : JobSound(j)
  BY DEF Answers!Init, JobSound, ShownFits, Allowed, ChatAnswered, AdminsCalled, Spared, Fits,
         Answers!Over
<1> QED BY <1>1, <1>3, <1>4 DEF AnswerInv

LEMMA FitsMore ==
  ASSUME NEW n \in Nat, NEW e \in Nat, NEW m \in {0, 1}
  PROVE  /\ Fits(n, e, 0) => Fits(n, e, m) /\ Fits(n + 1, e, 1)
         /\ Fits(n, e, m) => Fits(n, e, 1) /\ Fits(n, e + 1, 0) /\ Fits(n + 1, e + 1, m)
BY DEF Fits

\* What one job does is nothing to the others.
LEMMA OneJobMoves ==
  ASSUME AnswerInv, NEW j \in Jobs, AnswerTyped', Answers!BoundKept', kind' = kind, JobSound(j)',
         \A i \in Jobs \ {j} :
           /\ step'[i] = step[i] /\ left'[i] = left[i] /\ tried'[i] = tried[i]
           /\ shown'[i] = shown[i] /\ excess'[i] = excess[i]
  PROVE  AnswerInv'
<1> SUFFICES ASSUME NEW i \in Jobs \ {j} PROVE JobSound(i)' BY DEF AnswerInv
<1>1. JobSound(i) BY DEF AnswerInv
<1> QED BY <1>1 DEF JobSound, ShownFits, Allowed, ChatAnswered, AdminsCalled, Spared

\* Who holds the semaphore when one job has moved.
LEMMA HoldersMove ==
  ASSUME AnswerInv, Answers!JobsAssumption, NEW j \in Jobs, NEW s, NEW p \in Nat,
         step' = [step EXCEPT ![j] = s], permits' = p,
         p + (IF s \in {"distort", "fail"} THEN 1 ELSE 0)
           = permits + (IF step[j] \in {"distort", "fail"} THEN 1 ELSE 0)
  PROVE  Answers!BoundKept'
<1> DEFINE H == {i \in Jobs : Answers!Holds(i)}
           K == {i \in Jobs : step'[i] \in {"distort", "fail"}}
<1>1. \A i \in Jobs : step'[i] = IF i = j THEN s ELSE step[i] BY DEF AnswerInv, AnswerTyped
<1>2. /\ IsFiniteSet(H) /\ IsFiniteSet(K) /\ Cardinality(H) \in Nat /\ Cardinality(K) \in Nat
  <2>1. IsFiniteSet(Jobs) BY AnswersCount DEF Answers!JobsAssumption
  <2>2. H \subseteq Jobs /\ K \subseteq Jobs OBVIOUS
  <2> HIDE DEF H, K
  <2> QED BY <2>1, <2>2, FS_Subset, FS_CardinalityType
<1>3. permits \in Nat /\ Bound \in Nat /\ permits + Cardinality(H) = Bound
  BY AnswersCount DEF AnswerInv, AnswerTyped, Answers!BoundKept, Answers!JobsAssumption
<1>4. SUFFICES p + Cardinality(K) = Bound
  BY AnswersCount DEF Answers!BoundKept, Answers!Holds
<1> HIDE DEF H, K
<1>5. CASE step[j] \in {"distort", "fail"} /\ s \in {"distort", "fail"}
  <2>1. K = H BY <1>1, <1>5 DEF Answers!Holds, H, K
  <2> QED BY <1>3, <1>5, <2>1
<1>6. CASE step[j] \notin {"distort", "fail"} /\ s \in {"distort", "fail"}
  <2>1. K = H \cup {j} /\ j \notin H BY <1>1, <1>6 DEF Answers!Holds, H, K
  <2>2. Cardinality(K) = Cardinality(H) + 1 BY <1>2, <2>1, FS_AddElement
  <2> QED BY <1>2, <1>3, <1>6, <2>2
<1>7. CASE step[j] \in {"distort", "fail"} /\ s \notin {"distort", "fail"}
  <2>1. K = H \ {j} /\ j \in H BY <1>1, <1>7 DEF Answers!Holds, H, K
  <2>2. Cardinality(K) = Cardinality(H) - 1 BY <1>2, <2>1, FS_RemoveElement
  <2> QED BY <1>2, <1>3, <1>7, <2>2
<1>8. CASE step[j] \notin {"distort", "fail"} /\ s \notin {"distort", "fail"}
  <2>1. K = H BY <1>1, <1>8 DEF Answers!Holds, H, K
  <2> QED BY <1>3, <1>8, <2>1
<1> QED BY <1>5, <1>6, <1>7, <1>8

\* A step that shows nobody anything, between steps of the same run.
LEMMA QuietlyOn ==
  ASSUME AnswerInv, Answers!JobsAssumption, NEW j \in Jobs, NEW s,
         step' = [step EXCEPT ![j] = s], UNCHANGED <<kind, tried, shown, excess, permits>>,
         left' = [i \in Jobs |-> left'[i]], \A i \in Jobs \ {j} : left'[i] = left[i],
         step[j] \notin {"ok", "error", "tell", "distort", "fail"},
         s \in Ways[kind[j]] \cup (IF kind[j] = "song" THEN {"ok"} ELSE {}),
         s \notin {"tell", "distort", "fail"}
  PROVE  AnswerInv'
<1>1. \A i \in Jobs : step'[i] = IF i = j THEN s ELSE step[i] BY DEF AnswerInv, AnswerTyped
<1>2. AnswerTyped' BY DEF AnswerInv, AnswerTyped
<1>3. permits \in Nat BY DEF AnswerInv, AnswerTyped
<1>4. Answers!BoundKept' BY <1>3, HoldersMove
<1>5. JobSound(j) /\ kind[j] \in Kinds /\ excess[j] \in Nat
      /\ \A r \in Answers!Recipients : shown[j][r] \in Nat
  BY DEF AnswerInv, AnswerTyped
<1>6. s # "queued" /\ (kind[j] = "call" => s = "admins")
  <2>1. kind[j] \in {"source", "image", "video", "meme", "distortion", "song", "call"}
    BY <1>5 DEF Answers!JobsAssumption
  <2> QED BY <2>1 DEF Ways
<1>7. ShownFits(j)'
  <2>1. \A r : Allowed(j, r) = 0 \/ r \notin Answers!Recipients
    BY DEF Allowed, Spared, Answers!Over
  <2>2. \A r : Allowed(j, r)' \in {0, 1} BY DEF Allowed
  <2> QED BY <1>5, <2>1, <2>2, FitsMore DEF JobSound, ShownFits
<1>8. ChatAnswered(j)' 
  <2>1. kind[j] # "song" => s \in Ways[kind[j]] OBVIOUS
  <2>2. kind[j] \in {"source", "image", "video", "meme", "distortion", "song", "call"}
    BY <1>5 DEF Answers!JobsAssumption
  <2>3. "ok" \notin Ways[kind[j]] BY <2>2 DEF Ways
  <2> QED BY <1>1, <1>5, <1>6, <2>1, <2>3 DEF JobSound, ChatAnswered
<1>9. AdminsCalled(j)'
  BY <1>1, <1>5, <1>6 DEF JobSound, AdminsCalled, Ways
<1>10. JobSound(j)' BY <1>1, <1>7, <1>8, <1>9 DEF JobSound
<1> QED BY <1>1, <1>2, <1>4, <1>10, OneJobMoves

\* One more thing is shown to r by j, or to nobody.
LEMMA ShownMoves ==
  ASSUME AnswerInv, NEW j \in Jobs, NEW r \in Answers!Recipients,
         shown' = [shown EXCEPT ![j][r] = @ + 1]
  PROVE  /\ shown' \in [Jobs -> [Answers!Recipients -> Nat]]
         /\ \A i \in Jobs \ {j} : shown'[i] = shown[i]
         /\ \A q \in Answers!Recipients :
              shown'[j][q] = IF q = r THEN shown[j][q] + 1 ELSE shown[j][q]
<1> DEFINE row == [shown[j] EXCEPT ![r] = shown[j][r] + 1]
<1>1. shown \in [Jobs -> [Answers!Recipients -> Nat]] BY DEF AnswerInv, AnswerTyped
<1>2. /\ row \in [Answers!Recipients -> Nat]
      /\ \A q \in Answers!Recipients :
           row[q] = IF q = r THEN shown[j][q] + 1 ELSE shown[j][q]
  BY <1>1
<1>3. shown' = [shown EXCEPT ![j] = row] OBVIOUS
<1> HIDE DEF row
<1> QED BY <1>1, <1>2, <1>3

\* A step that tries to show something in the chat.
LEMMA ShowsInChat ==
  ASSUME AnswerInv, Answers!JobsAssumption, NEW j \in Jobs, NEW s,
         step' = [step EXCEPT ![j] = s], kind' = kind, kind[j] # "call",
         tried' = [tried EXCEPT ![j] = @ \cup {Chat}],
         left' = [i \in Jobs |-> left'[i]], \A i \in Jobs \ {j} : left'[i] = left[i],
         permits' \in Nat, Answers!BoundKept',
         step[j] \notin {"ok", "error", "tell"}, s # "tell",
         s \in Ways[kind[j]] \cup {"ok", "error"},
         \/ UNCHANGED <<shown, excess>>
         \/ s \in {"ok", "error"} /\ Answers!Delivered(j, Chat)
         \/ Answers!Unsure(j, Chat)
  PROVE  AnswerInv'
<1>1. \A i \in Jobs : step'[i] = IF i = j THEN s ELSE step[i] BY DEF AnswerInv, AnswerTyped
<1>2. Chat \in Answers!Recipients BY DEF Answers!Recipients
<1>3. /\ JobSound(j) /\ kind[j] \in Kinds /\ excess \in [Jobs -> Nat]
      /\ shown \in [Jobs -> [Answers!Recipients -> Nat]]
      /\ tried \in [Jobs -> SUBSET Answers!Recipients]
  BY DEF AnswerInv, AnswerTyped
<1>4. /\ tried' \in [Jobs -> SUBSET Answers!Recipients] /\ tried'[j] = tried[j] \cup {Chat}
      /\ \A i \in Jobs \ {j} : tried'[i] = tried[i]
  BY <1>2, <1>3
<1>5. /\ shown' \in [Jobs -> [Answers!Recipients -> Nat]] /\ excess' \in [Jobs -> Nat]
      /\ \A i \in Jobs \ {j} : shown'[i] = shown[i] /\ excess'[i] = excess[i]
      /\ \A q \in Answers!Recipients :
           \/ shown'[j][q] = shown[j][q] /\ excess'[j] = excess[j]
           \/ /\ s \in {"ok", "error"} /\ excess'[j] = excess[j]
              /\ shown'[j][q] = shown[j][q] + 1
           \/ /\ excess'[j] = excess[j] + 1
              /\ shown'[j][q] = shown[j][q] + 1 \/ shown'[j][q] = shown[j][q]
  <2>1. CASE UNCHANGED <<shown, excess>> BY <1>3, <2>1
  <2>2. CASE s \in {"ok", "error"} /\ Answers!Delivered(j, Chat)
    BY <1>2, <1>3, <2>2, ShownMoves DEF Answers!Delivered
  <2>3. CASE Answers!Unsure(j, Chat)
    BY <1>2, <1>3, <2>3, ShownMoves DEF Answers!Unsure
  <2> QED BY <2>1, <2>2, <2>3
<1>6. AnswerTyped' BY <1>1, <1>3, <1>4, <1>5 DEF AnswerTyped, AnswerInv
<1>7. ShownFits(j)'
  <2> SUFFICES ASSUME NEW q \in Answers!Recipients
               PROVE  Fits(shown'[j][q], excess'[j], Allowed(j, q)')
    BY DEF ShownFits
  <2>1. Allowed(j, q) = 0 BY <1>3 DEF Allowed, Spared, Answers!Over
  <2>2. /\ Allowed(j, q)' \in {0, 1}
        /\ s \in {"ok", "error"} => Allowed(j, q)' = 1
    BY <1>1 DEF Allowed, Spared, Answers!Over
  <2>3. Fits(shown[j][q], excess[j], 0) /\ shown[j][q] \in Nat /\ excess[j] \in Nat
    BY <1>3, <2>1 DEF JobSound, ShownFits
  <2>4. /\ \A m \in {0, 1} : Fits(shown[j][q], excess[j], m)
                             /\ Fits(shown[j][q], excess[j] + 1, m)
                             /\ Fits(shown[j][q] + 1, excess[j] + 1, m)
        /\ Fits(shown[j][q] + 1, excess[j], 1)
    BY <2>3 DEF Fits
  <2> QED BY <1>5, <2>2, <2>4
<1>8. ChatAnswered(j)' BY <1>1, <1>3, <1>4 DEF JobSound, ChatAnswered
<1>9. AdminsCalled(j)' BY DEF AdminsCalled
<1>10. JobSound(j)' BY <1>1, <1>7, <1>8, <1>9 DEF JobSound
<1> QED BY <1>1, <1>4, <1>5, <1>6, <1>10, OneJobMoves

\* The steps that read something, think or wait for their turn.
LEMMA ReadsGoOn ==
  ASSUME AnswerInv, Answers!JobsAssumption, NEW j \in Jobs, NEW from, NEW steps,
         Answers!Reads(j, from, steps), from \notin {"ok", "error", "tell", "distort", "fail"},
         \A s \in steps : s \in Ways[kind[j]] \cup (IF kind[j] = "song" THEN {"ok"} ELSE {})
                          /\ s \notin {"tell", "distort", "fail"}
  PROVE  AnswerInv'
<1>1. PICK s \in steps : Answers!Goto(j, s) BY DEF Answers!Reads
<1>2. /\ UNCHANGED <<kind, left, tried, shown, excess, permits>> /\ step[j] = from
      /\ step' = [step EXCEPT ![j] = s]
  BY <1>1 DEF Answers!Reads, Answers!At, Answers!Goto
<1>3. left' = [i \in Jobs |-> left'[i]] BY <1>2 DEF AnswerInv, AnswerTyped
<1>4. /\ s \in Ways[kind[j]] \cup (IF kind[j] = "song" THEN {"ok"} ELSE {})
      /\ s \notin {"tell", "distort", "fail"}
  OBVIOUS
<1> QED BY <1>2, <1>3, <1>4, QuietlyOn

\* Where a job is says what kind it is of.
LEMMA KindAt ==
  ASSUME AnswerInv, Answers!JobsAssumption, NEW j \in Jobs
  PROVE  /\ kind[j] \in {"source", "image", "video", "meme", "distortion", "song", "call"}
         /\ step[j] \in Ways[kind[j]] \cup {"queued", "ok", "error"}
<1>1. kind[j] \in Kinds /\ JobSound(j) BY DEF AnswerInv, AnswerTyped
<1>2. kind[j] \in {"source", "image", "video", "meme", "distortion", "song", "call"}
  BY <1>1 DEF Answers!JobsAssumption
<1> QED BY <1>1, <1>2 DEF JobSound

LEMMA ReadingKeeps ==
  ASSUME AnswerInv, Answers!JobsAssumption, NEW j \in Jobs,
         \/ Answers!Download(j) \/ Answers!Lookup(j) \/ Answers!React(j)
         \/ Answers!SearchVideos(j) \/ Answers!Consult(j) \/ Answers!Recognise(j)
         \/ Answers!Template(j) \/ Answers!Compose(j) \/ Answers!NoPicture(j)
  PROVE  AnswerInv'
<1>1. CASE Answers!Download(j)
  <2>1. PICK steps : /\ Answers!Reads(j, "download", steps)
                     /\ \/ kind[j] = "source" /\ steps = {"reply", "lookup"}
                        \/ kind[j] = "distortion" /\ steps = {"reply", "acquire"}
                        \/ kind[j] = "song" /\ steps = {"ok", "recognise"}
    BY <1>1 DEF Answers!Download
  <2> QED BY <2>1, ReadsGoOn DEF Ways
<1>2. CASE Answers!Lookup(j)
  <2>1. PICK steps \in SUBSET {"react", "reply"} : Answers!Reads(j, "lookup", steps)
    BY <1>2 DEF Answers!Lookup
  <2>2. step[j] = "lookup" BY <2>1 DEF Answers!Reads, Answers!At
  <2>3. kind[j] = "source" BY <2>2, KindAt DEF Ways
  <2>4. \A s \in steps : /\ s \in Ways[kind[j]]
                         /\ s \notin {"tell", "distort", "fail"}
    BY <2>3 DEF Ways
  <2> QED BY <2>1, <2>4, ReadsGoOn
<1>3. CASE Answers!React(j)
  <2>1. step[j] = "react" BY <1>3 DEF Answers!React, Answers!Reads, Answers!At
  <2>2. kind[j] = "source" BY <2>1, KindAt DEF Ways
  <2> QED BY <1>3, <2>2, ReadsGoOn DEF Ways, Answers!React
<1>4. CASE Answers!SearchVideos(j) BY <1>4, ReadsGoOn DEF Ways, Answers!SearchVideos
<1>5. CASE Answers!Consult(j)
  <2>1. step[j] = "consult" BY <1>5 DEF Answers!Consult, Answers!Reads, Answers!At
  <2>2. kind[j] = "song" BY <2>1, KindAt DEF Ways
  <2> QED BY <1>5, <2>2, ReadsGoOn DEF Ways, Answers!Consult
<1>6. CASE Answers!Recognise(j)
  <2>1. step[j] = "recognise" BY <1>6 DEF Answers!Recognise, Answers!Reads, Answers!At
  <2>2. kind[j] = "song" BY <2>1, KindAt DEF Ways
  <2> QED BY <1>6, <2>2, ReadsGoOn DEF Ways, Answers!Recognise
<1>7. CASE Answers!Template(j)
  <2>1. PICK steps \in SUBSET {"reply", "roster"} : Answers!Reads(j, "template", steps)
    BY <1>7 DEF Answers!Template
  <2>2. step[j] = "template" BY <2>1 DEF Answers!Reads, Answers!At
  <2>3. kind[j] = "meme" BY <2>2, KindAt DEF Ways
  <2>4. \A s \in steps : /\ s \in Ways[kind[j]]
                         /\ s \notin {"tell", "distort", "fail"}
    BY <2>3 DEF Ways
  <2> QED BY <2>1, <2>4, ReadsGoOn
<1>8. CASE Answers!Compose(j)
  <2>1. PICK steps \in SUBSET {"reply", "send"} : Answers!Reads(j, "faces", steps)
    BY <1>8 DEF Answers!Compose
  <2>2. step[j] = "faces" BY <2>1 DEF Answers!Reads, Answers!At
  <2>3. kind[j] = "meme" BY <2>2, KindAt DEF Ways
  <2>4. \A s \in steps : /\ s \in Ways[kind[j]]
                         /\ s \notin {"tell", "distort", "fail"}
    BY <2>3 DEF Ways
  <2> QED BY <2>1, <2>4, ReadsGoOn
<1>9. CASE Answers!NoPicture(j)
  <2>1. step[j] = "pictures" BY <1>9 DEF Answers!NoPicture, Answers!Reads, Answers!At
  <2>2. kind[j] = "image" BY <2>1, KindAt DEF Ways
  <2> QED BY <1>9, <2>2, ReadsGoOn DEF Ways, Answers!NoPicture
<1> QED BY <1>1, <1>2, <1>3, <1>4, <1>5, <1>6, <1>7, <1>8, <1>9

LEMMA GatheringKeeps ==
  ASSUME AnswerInv, Answers!JobsAssumption, NEW j \in Jobs,
         \/ Answers!StartRun(j) \/ Answers!SearchImages(j) \/ Answers!GatherFaces(j)
         \/ Answers!ProfilePhoto(j)
  PROVE  AnswerInv'
<1>0. PICK s : /\ step' = [step EXCEPT ![j] = s]
               /\ step[j] \notin {"ok", "error", "tell", "distort", "fail"}
               /\ s \in Ways[kind[j]] /\ s \notin {"tell", "distort", "fail"}
  <2>1. kind[j] \in {"source", "image", "video", "meme", "distortion", "song", "call"}
        /\ step[j] \in Ways[kind[j]] \cup {"queued", "ok", "error"}
    BY KindAt
  <2>2. CASE Answers!StartRun(j)
    <3>1. step' = [step EXCEPT ![j] = Answers!FirstStep[kind[j]]] /\ step[j] = "queued"
      BY <2>2 DEF Answers!StartRun, Answers!At, Answers!Goto
    <3>2. /\ Answers!FirstStep[kind[j]] \in Ways[kind[j]]
          /\ Answers!FirstStep[kind[j]] \notin {"tell", "distort", "fail"}
      BY <2>1 DEF Answers!FirstStep, Ways
    <3> QED BY <3>1, <3>2
  <2>3. CASE Answers!SearchImages(j)
    <3>1. step' = [step EXCEPT ![j] = "pictures"] /\ step[j] = "search" /\ kind[j] = "image"
      BY <2>3 DEF Answers!SearchImages, Answers!At, Answers!Goto
    <3>2. PICK s : s = "pictures" OBVIOUS
    <3>3. s \in Ways[kind[j]] BY <3>1, <3>2 DEF Ways
    <3>4. s \notin {"tell", "distort", "fail"} /\ step' = [step EXCEPT ![j] = s] BY <3>1, <3>2
    <3>5. step[j] \notin {"ok", "error", "tell", "distort", "fail"} BY <3>1
    <3> QED BY <3>3, <3>4, <3>5
  <2>4. CASE Answers!GatherFaces(j)
    <3>1. step' = [step EXCEPT ![j] = "faces"] /\ step[j] = "roster"
      BY <2>4 DEF Answers!GatherFaces, Answers!At, Answers!Goto
    <3>2. kind[j] = "meme" BY <2>1, <3>1 DEF Ways
    <3>3. PICK s : s = "faces" OBVIOUS
    <3>4. s \in Ways[kind[j]] BY <3>2, <3>3 DEF Ways
    <3>5. s \notin {"tell", "distort", "fail"} /\ step' = [step EXCEPT ![j] = s] BY <3>1, <3>3
    <3>6. step[j] \notin {"ok", "error", "tell", "distort", "fail"} BY <3>1
    <3> QED BY <3>4, <3>5, <3>6
  <2>5. CASE Answers!ProfilePhoto(j)
    <3>1. step = [step EXCEPT ![j] = step[j]] /\ step' = step /\ step[j] = "faces"
      BY <2>5 DEF Answers!ProfilePhoto, Answers!At, AnswerInv, AnswerTyped
    <3>2. kind[j] = "meme" BY <2>1, <3>1 DEF Ways
    <3>3. "faces" \in Ways[kind[j]] BY <3>2 DEF Ways
    <3> QED BY <3>1, <3>3
  <2> QED BY <2>2, <2>3, <2>4, <2>5
<1>1. UNCHANGED <<kind, tried, shown, excess, permits>>
  BY DEF Answers!StartRun, Answers!SearchImages, Answers!GatherFaces, Answers!ProfilePhoto
<1>2. left' = left \/ \E v : left' = [left EXCEPT ![j] = v]
  BY DEF Answers!StartRun, Answers!SearchImages, Answers!GatherFaces, Answers!ProfilePhoto
<1>3. left' = [i \in Jobs |-> left'[i]] /\ \A i \in Jobs \ {j} : left'[i] = left[i]
  BY <1>2 DEF AnswerInv, AnswerTyped
<1> QED BY <1>0, <1>1, <1>3, QuietlyOn

\* The semaphore.
LEMMA DistortionKeeps ==
  ASSUME AnswerInv, Answers!JobsAssumption, NEW j \in Jobs,
         Answers!Acquire(j) \/ Answers!Distort(j)
  PROVE  AnswerInv'
<1>1. PICK s : /\ step' = [step EXCEPT ![j] = s]
               /\ \/ step[j] = "acquire" /\ s = "distort" /\ permits > 0 /\ permits' = permits - 1
                  \/ step[j] = "distort" /\ s = "fail" /\ permits' = permits
                  \/ step[j] = "distort" /\ s = "send" /\ permits' = permits + 1
  BY DEF Answers!Acquire, Answers!Distort, Answers!At, Answers!Goto
<1>2. UNCHANGED <<kind, left, tried, shown, excess>>
  BY DEF Answers!Acquire, Answers!Distort
<1>3. PICK p : p = permits' OBVIOUS
<1>4. permits \in Nat BY DEF AnswerInv, AnswerTyped
<1>5. p \in Nat /\ p + (IF s \in {"distort", "fail"} THEN 1 ELSE 0)
                     = permits + (IF step[j] \in {"distort", "fail"} THEN 1 ELSE 0)
  <2>1. CASE s = "distort" /\ step[j] = "acquire" /\ permits > 0 /\ p = permits - 1
    BY <1>4, <2>1
  <2>2. CASE s = "fail" /\ step[j] = "distort" /\ p = permits BY <1>4, <2>2
  <2>3. CASE s = "send" /\ step[j] = "distort" /\ p = permits + 1 BY <1>4, <2>3
  <2> QED BY <1>1, <1>3, <2>1, <2>2, <2>3
<1>6. Answers!BoundKept' BY <1>1, <1>3, <1>5, HoldersMove
<1>7. \A i \in Jobs : step'[i] = IF i = j THEN s ELSE step[i]
  BY <1>1 DEF AnswerInv, AnswerTyped
<1>8. AnswerTyped' BY <1>1, <1>2, <1>3, <1>5 DEF AnswerInv, AnswerTyped
<1>9. JobSound(j) /\ kind[j] = "distortion" /\ step[j] \in {"acquire", "distort"}
      /\ s \in {"distort", "fail", "send"}
  BY <1>1, KindAt DEF AnswerInv, Ways
<1>10. JobSound(j)'
  BY <1>2, <1>7, <1>9 DEF JobSound, ShownFits, Allowed, Spared, ChatAnswered, AdminsCalled, Ways,
                          Answers!Over
<1> QED BY <1>2, <1>6, <1>7, <1>8, <1>10, OneJobMoves

\* The steps that show something in the chat.
LEMMA AnsweringKeeps ==
  ASSUME AnswerInv, Answers!JobsAssumption, NEW j \in Jobs,
         Answers!Reply(j) \/ Answers!Send(j) \/ Answers!SendPicture(j)
  PROVE  AnswerInv'
<1>1. /\ step[j] \in {"reply", "fail", "send", "pictures"} /\ kind' = kind
      /\ tried' = [tried EXCEPT ![j] = @ \cup {Chat}]
  BY DEF Answers!Reply, Answers!Send, Answers!SendPicture, Answers!At, Answers!Try
<1>2. kind[j] # "call" /\ step[j] \in Ways[kind[j]] BY <1>1, KindAt DEF Ways
<1>3. left' = left \/ left' = [left EXCEPT ![j] = Tail(@)]
  BY DEF Answers!Reply, Answers!Send, Answers!SendPicture
<1>4. left' = [i \in Jobs |-> left'[i]] /\ \A i \in Jobs \ {j} : left'[i] = left[i]
  BY <1>3 DEF AnswerInv, AnswerTyped
<1>5. PICK s :
        /\ step' = [step EXCEPT ![j] = s] /\ s \in {step[j], "ok", "error"}
        /\ s \in {"distort", "fail"} => step[j] \in {"pictures", "send"}
        /\ \/ UNCHANGED <<shown, excess>>
           \/ s \in {"ok", "error"} /\ Answers!Delivered(j, Chat)
           \/ Answers!Unsure(j, Chat)
  <2>1. CASE Answers!Reply(j)
    BY <2>1 DEF Answers!Reply, Answers!Goto, Answers!Refused
  <2>2. CASE Answers!Send(j)
    BY <2>2 DEF Answers!Send, Answers!Goto, Answers!Refused
  <2>3. CASE Answers!SendPicture(j)
    <3>1. step = [step EXCEPT ![j] = step[j]] BY DEF AnswerInv, AnswerTyped
    <3>2. step[j] = "pictures" BY <2>3 DEF Answers!SendPicture, Answers!At
    <3>3. CASE step' = step
      BY <2>3, <3>1, <3>2, <3>3 DEF Answers!SendPicture, Answers!Goto, Answers!Refused
    <3>4. CASE step' # step
      <4>1. Answers!Goto(j, "ok") /\ Answers!Delivered(j, Chat)
        BY <2>3, <3>4 DEF Answers!SendPicture
      <4> QED BY <4>1 DEF Answers!Goto
    <3> QED BY <3>3, <3>4
  <2> QED BY <2>1, <2>2, <2>3
<1>6. PICK p : p = permits' OBVIOUS
<1>7. permits \in Nat BY DEF AnswerInv, AnswerTyped
<1>8. p = permits + (IF step[j] \in {"distort", "fail"} THEN 1 ELSE 0)
  <2>1. \/ p = permits + (IF step[j] \in {"distort", "fail"} THEN 1 ELSE 0)
        \/ step[j] \in {"send", "pictures"} /\ p = permits
    BY <1>6 DEF Answers!Reply, Answers!Send, Answers!SendPicture, Answers!At, Answers!Holds
  <2> QED BY <1>7, <2>1
<1>9. p \in Nat /\ s \notin {"distort", "fail", "tell", "queued"}
  BY <1>1, <1>5, <1>7, <1>8
<1>10. p + (IF s \in {"distort", "fail"} THEN 1 ELSE 0)
         = permits + (IF step[j] \in {"distort", "fail"} THEN 1 ELSE 0)
  BY <1>7, <1>8, <1>9
<1>11. Answers!BoundKept' BY <1>5, <1>6, <1>9, <1>10, HoldersMove
<1>12. s \in Ways[kind[j]] \cup {"ok", "error"} BY <1>2, <1>5
<1> QED BY <1>1, <1>2, <1>4, <1>5, <1>6, <1>9, <1>11, <1>12, ShowsInChat

\* A call that raises or runs out of time.
LEMMA RaisingKeeps ==
  ASSUME AnswerInv, Answers!JobsAssumption, NEW j \in Jobs, Answers!Raises(j)
  PROVE  AnswerInv'
<1>1. /\ step[j] \notin {"ok", "error", "queued"} /\ step' = [step EXCEPT ![j] = "error"]
      /\ UNCHANGED <<kind, left, tried, shown, excess>>
      /\ permits' = permits + (IF step[j] \in {"distort", "fail"} THEN 1 ELSE 0)
  BY DEF Answers!Raises, Answers!Running, Answers!Over, Answers!Goto, Answers!Holds
<1>2. PICK p : p = permits' OBVIOUS
<1>3. p \in Nat /\ p = permits + (IF step[j] \in {"distort", "fail"} THEN 1 ELSE 0)
  BY <1>1, <1>2 DEF AnswerInv, AnswerTyped
<1>4. p + (IF "error" \in {"distort", "fail"} THEN 1 ELSE 0)
        = permits + (IF step[j] \in {"distort", "fail"} THEN 1 ELSE 0)
  BY <1>3
<1>5. Answers!BoundKept' BY <1>1, <1>2, <1>3, <1>4, HoldersMove
<1>6. \A i \in Jobs : step'[i] = IF i = j THEN "error" ELSE step[i]
  BY <1>1 DEF AnswerInv, AnswerTyped
<1>7. AnswerTyped' BY <1>1, <1>2, <1>3 DEF AnswerInv, AnswerTyped
<1>8. JobSound(j) /\ excess[j] \in Nat /\ \A r \in Answers!Recipients : shown[j][r] \in Nat
  BY DEF AnswerInv, AnswerTyped
<1>9. ShownFits(j)'
  <2> SUFFICES ASSUME NEW q \in Answers!Recipients
               PROVE  Fits(shown[j][q], excess[j], Allowed(j, q)')
    BY <1>1 DEF ShownFits
  <2>1. Allowed(j, q)' = 1 BY <1>6 DEF Allowed, Spared, Answers!Over
  <2>2. Allowed(j, q) \in {0, 1} BY DEF Allowed
  <2>3. Fits(shown[j][q], excess[j], Allowed(j, q)) BY <1>8 DEF JobSound, ShownFits
  <2> QED BY <1>8, <2>1, <2>2, <2>3, FitsMore
<1>10. ChatAnswered(j)' /\ AdminsCalled(j)'
  BY <1>1, <1>6, <1>8 DEF JobSound, ChatAnswered, AdminsCalled
<1>11. JobSound(j)' BY <1>6, <1>9, <1>10 DEF JobSound
<1> QED BY <1>1, <1>5, <1>6, <1>7, <1>11, OneJobMoves

\* The worker is killed: its jobs begin anew, with one more showing to account for.
LEMMA KillKeeps ==
  ASSUME AnswerInv, Answers!JobsAssumption, Answers!Kill
  PROVE  AnswerInv'
<1>1. /\ kind' = kind /\ shown' = shown /\ permits' = Bound /\ Bound \in Nat
      /\ step' = [j \in Jobs |-> IF Answers!Running(j) THEN "queued" ELSE step[j]]
      /\ left' = [j \in Jobs |-> IF Answers!Running(j) THEN <<>> ELSE left[j]]
      /\ tried' = [j \in Jobs |-> IF Answers!Running(j) THEN {} ELSE tried[j]]
      /\ excess' = [j \in Jobs |-> excess[j] + (IF Answers!Running(j) THEN 1 ELSE 0)]
  BY DEF Answers!Kill, Answers!JobsAssumption
<1>2. /\ excess \in [Jobs -> Nat] /\ tried \in [Jobs -> SUBSET Answers!Recipients]
      /\ shown \in [Jobs -> [Answers!Recipients -> Nat]]
  BY DEF AnswerInv, AnswerTyped
<1>3. \A j \in Jobs : excess'[j] = IF Answers!Running(j) THEN excess[j] + 1 ELSE excess[j]
  BY <1>1, <1>2
<1>4. excess' \in [Jobs -> Nat]
  <2>1. \A j \in Jobs : excess'[j] \in Nat BY <1>2, <1>3
  <2> QED BY <1>1, <2>1
<1>5. tried' \in [Jobs -> SUBSET Answers!Recipients] BY <1>1, <1>2
<1>6. AnswerTyped' BY <1>1, <1>2, <1>4, <1>5 DEF AnswerInv, AnswerTyped
<1>7. Answers!BoundKept'
  <2>1. {j \in Jobs : step'[j] \in {"distort", "fail"}} = {}
    BY <1>1 DEF Answers!Running, Answers!Over, JobSound, AnswerInv
  <2>2. Cardinality({j \in Jobs : step'[j] \in {"distort", "fail"}}) = 0
    BY <2>1, FS_EmptySet
  <2>3. Bound + 0 = Bound BY <1>1
  <2> QED BY <1>1, <2>2, <2>3, AnswersCount DEF Answers!BoundKept, Answers!Holds
<1>8. ASSUME NEW j \in Jobs PROVE JobSound(j)'
  <2>1. JobSound(j) /\ excess[j] \in Nat /\ \A r \in Answers!Recipients : shown[j][r] \in Nat
    BY <1>2 DEF AnswerInv
  <2>2. CASE Answers!Running(j)
    <3>1. /\ step'[j] = "queued" /\ tried'[j] = {} /\ excess'[j] = excess[j] + 1
      BY <1>1, <1>3, <2>2
    <3>2. ShownFits(j)'
      <4> SUFFICES ASSUME NEW q \in Answers!Recipients
                   PROVE  Fits(shown[j][q], excess[j] + 1, Allowed(j, q)')
        BY <1>1, <3>1 DEF ShownFits
      <4>1. Allowed(j, q)' = 0 BY <3>1 DEF Allowed, Spared, Answers!Over
      <4>2. Allowed(j, q) \in {0, 1} BY DEF Allowed
      <4>3. Fits(shown[j][q], excess[j], Allowed(j, q)) BY <2>1 DEF JobSound, ShownFits
      <4> QED BY <2>1, <4>1, <4>2, <4>3, FitsMore
    <3> QED BY <3>1, <3>2 DEF JobSound, ChatAnswered, AdminsCalled
  <2>3. CASE ~Answers!Running(j)
    <3>1. /\ step'[j] = step[j] /\ tried'[j] = tried[j] /\ excess'[j] = excess[j]
          /\ left'[j] = left[j]
      BY <1>1, <1>3, <2>3
    <3> QED BY <1>1, <2>1, <3>1 DEF JobSound, ShownFits, Allowed, Spared, ChatAnswered, AdminsCalled
  <2> QED BY <2>2, <2>3
<1> QED BY <1>6, <1>7, <1>8 DEF AnswerInv

LEMMA AdminsListed ==
  ASSUME Answers!JobsAssumption, NEW told \in SUBSET Admins
  PROVE  Answers!ToSet(Answers!SetToSeq(told)) = told
<1> DEFINE n == Cardinality(told)
           s == Answers!SetToSeq(told)
<1>1. IsFiniteSet(told)
  <2>1. IsFiniteSet(Admins) BY AnswersCount DEF Answers!JobsAssumption
  <2> QED BY <2>1, FS_Subset
<1>2. n \in Nat /\ ExistsBijection(1..n, told) BY <1>1, FS_CardinalityType
<1>3. \E f \in [1..n -> told] : Answers!IsInjective(f)
  BY <1>2 DEF ExistsBijection, Bijection, Injection, Answers!IsInjective, IsInjective
<1>4. s = CHOOSE f \in [1..n -> told] : Answers!IsInjective(f)
  BY AnswersCount DEF Answers!SetToSeq
<1>5. s \in [1..n -> told] /\ Answers!IsInjective(s) BY <1>3, <1>4
<1> HIDE DEF s
<1>6. s \in Injection(1..n, told)
  BY <1>5 DEF Injection, Answers!IsInjective, IsInjective
<1>7. Cardinality(1..n) = n BY <1>2, FS_Interval
<1>8. s \in Surjection(1..n, told) BY <1>1, <1>6, <1>7, FS_Injection
<1>9. \A a \in told : \E i \in 1..n : s[i] = a BY <1>8 DEF Surjection
<1>10. DOMAIN s = 1..n BY <1>5
<1> QED BY <1>5, <1>9, <1>10 DEF Answers!ToSet, s

LEMMA HeadOff ==
  ASSUME NEW S, NEW s \in Seq(S), s # <<>>, Answers!IsInjective(s)
  PROVE  /\ Tail(s) \in Seq(S) /\ Answers!IsInjective(Tail(s))
         /\ Head(s) \in S /\ Head(s) \notin Answers!ToSet(Tail(s))
         /\ Answers!ToSet(s) = {Head(s)} \cup Answers!ToSet(Tail(s))
<1>1. Len(s) \in Nat \ {0} /\ DOMAIN s = 1..Len(s) /\ Head(s) = s[1] /\ s[1] \in S OBVIOUS
<1>2. /\ Tail(s) \in Seq(S) /\ Len(Tail(s)) = Len(s) - 1
      /\ \A i \in 1..(Len(s) - 1) : Tail(s)[i] = s[i + 1]
  OBVIOUS
<1>3. DOMAIN Tail(s) = 1..(Len(s) - 1) BY <1>1, <1>2
<1>4. \A i, k \in 1..Len(s) : s[i] = s[k] => i = k BY <1>1 DEF Answers!IsInjective
<1>5. \A i \in 1..(Len(s) - 1) : i + 1 \in 1..Len(s) /\ i + 1 # 1 BY <1>1
<1>6. Answers!IsInjective(Tail(s))
  BY <1>1, <1>2, <1>3, <1>4, <1>5 DEF Answers!IsInjective
<1>7. Head(s) \notin Answers!ToSet(Tail(s))
  BY <1>1, <1>2, <1>3, <1>4, <1>5 DEF Answers!ToSet
<1>8. \A i \in 1..Len(s) : i = 1 \/ (i - 1 \in 1..(Len(s) - 1) /\ Tail(s)[i - 1] = s[i])
  <2> SUFFICES ASSUME NEW i \in 1..Len(s), i # 1
               PROVE  i - 1 \in 1..(Len(s) - 1) /\ Tail(s)[i - 1] = s[i]
    OBVIOUS
  <2>1. i - 1 \in 1..(Len(s) - 1) /\ (i - 1) + 1 = i BY <1>1
  <2> QED BY <1>2, <2>1
<1>9. Answers!ToSet(s) \subseteq {Head(s)} \cup Answers!ToSet(Tail(s))
  BY <1>1, <1>3, <1>8 DEF Answers!ToSet
<1>10. {Head(s)} \cup Answers!ToSet(Tail(s)) \subseteq Answers!ToSet(s)
  BY <1>1, <1>2, <1>3, <1>5 DEF Answers!ToSet
<1> QED BY <1>1, <1>2, <1>6, <1>7, <1>9, <1>10

\* The admins are called one after the other.
LEMMA CallingKeeps ==
  ASSUME AnswerInv, Answers!JobsAssumption, NEW j \in Jobs,
         Answers!ListAdmins(j) \/ Answers!TellAdmin(j) \/ Answers!AllTold(j)
  PROVE  AnswerInv'
<1>1. PICK s : /\ step' = [step EXCEPT ![j] = s] /\ s \in {"tell", "ok"}
               /\ step[j] \in {"admins", "tell"}
  <2>1. step = [step EXCEPT ![j] = step[j]] BY DEF AnswerInv, AnswerTyped
  <2>2. PICK t, o : t = "tell" /\ o = "ok" OBVIOUS
  <2>3. CASE Answers!ListAdmins(j)
    <3>1. step' = [step EXCEPT ![j] = t] /\ step[j] = "admins"
      BY <2>2, <2>3 DEF Answers!ListAdmins, Answers!At, Answers!Goto
    <3> QED BY <2>2, <3>1
  <2>4. CASE Answers!TellAdmin(j)
    BY <2>1, <2>4 DEF Answers!TellAdmin, Answers!At
  <2>5. CASE Answers!AllTold(j)
    <3>1. step' = [step EXCEPT ![j] = o] /\ step[j] = "tell"
      BY <2>2, <2>5 DEF Answers!AllTold, Answers!Reads, Answers!At, Answers!Goto
    <3> QED BY <2>2, <3>1
  <2> QED BY <2>3, <2>4, <2>5
<1>2. /\ UNCHANGED <<kind, permits, excess>>
      /\ left' = left \/ \E v : left' = [left EXCEPT ![j] = v]
  BY DEF Answers!ListAdmins, Answers!TellAdmin, Answers!AllTold, Answers!Reads, Answers!Delivered,
         Answers!Refused
<1>3. left' = [i \in Jobs |-> left'[i]] /\ \A i \in Jobs \ {j} : left'[i] = left[i]
  BY <1>2 DEF AnswerInv, AnswerTyped
<1>4. permits \in Nat BY DEF AnswerInv, AnswerTyped
<1>5. permits + (IF s \in {"distort", "fail"} THEN 1 ELSE 0)
        = permits + (IF step[j] \in {"distort", "fail"} THEN 1 ELSE 0)
  BY <1>1
<1>6. Answers!BoundKept' BY <1>1, <1>2, <1>4, <1>5, HoldersMove
<1>7. \A i \in Jobs : step'[i] = IF i = j THEN s ELSE step[i]
  BY <1>1 DEF AnswerInv, AnswerTyped
<1>8. /\ JobSound(j) /\ kind[j] = "call"
      /\ tried \in [Jobs -> SUBSET Answers!Recipients] /\ excess \in [Jobs -> Nat]
      /\ shown \in [Jobs -> [Answers!Recipients -> Nat]]
  <2>1. /\ JobSound(j) /\ step[j] \in Ways[kind[j]] \cup {"queued", "ok", "error"}
        /\ kind[j] \in DOMAIN Ways
    BY DEF AnswerInv, AnswerTyped, JobSound, Ways, Answers!JobsAssumption
  <2>2. kind[j] = "call" BY <1>1, <2>1 DEF Ways
  <2> QED BY <2>1, <2>2 DEF AnswerInv, AnswerTyped
<1>9. ChatAnswered(j)' BY <1>2, <1>8 DEF ChatAnswered
<1>10. step'[j] \in Ways[kind'[j]] \cup {"queued", "ok", "error"}
  BY <1>1, <1>2, <1>7, <1>8 DEF Ways
<1>11. SUFFICES /\ tried' \in [Jobs -> SUBSET Answers!Recipients]
                /\ shown' \in [Jobs -> [Answers!Recipients -> Nat]]
                /\ \A i \in Jobs \ {j} : tried'[i] = tried[i] /\ shown'[i] = shown[i]
                /\ ShownFits(j)' /\ AdminsCalled(j)'
  <2>1. AnswerTyped' BY <1>1, <1>2, <1>3, <1>7, <1>11 DEF AnswerInv, AnswerTyped
  <2>2. JobSound(j)' BY <1>9, <1>10, <1>11 DEF JobSound
  <2> QED BY <1>2, <1>3, <1>6, <1>7, <1>11, <2>1, <2>2, OneJobMoves
<1>12. CASE Answers!ListAdmins(j)
  <2>1. /\ UNCHANGED <<tried, shown>> /\ step[j] = "admins" /\ step'[j] = "tell"
        /\ \E told \in SUBSET Admins : left'[j] = Answers!SetToSeq(told)
    BY <1>7, <1>12 DEF Answers!ListAdmins, Answers!At, Answers!Goto, AnswerInv, AnswerTyped
  <2>2. ShownFits(j)'
    <3> SUFFICES ASSUME NEW q \in Answers!Recipients
                 PROVE  Fits(shown[j][q], excess[j], Allowed(j, q)')
      BY <1>2, <2>1 DEF ShownFits
    <3>1. Allowed(j, q) = 0 BY <2>1 DEF Allowed, Spared, Answers!Over
    <3>2. Allowed(j, q)' \in {0, 1} BY DEF Allowed
    <3>3. Fits(shown[j][q], excess[j], 0) BY <1>8, <3>1 DEF JobSound, ShownFits
    <3> QED BY <1>8, <3>2, <3>3, FitsMore
  <2>3. Answers!ToSet(left'[j]) \subseteq Admins BY <2>1, AdminsListed
  <2>4. AdminsCalled(j)' BY <1>8, <2>1, <2>3 DEF JobSound, AdminsCalled
  <2> QED BY <1>8, <2>1, <2>2, <2>4
<1>13. CASE Answers!TellAdmin(j)
  <2>1. PICK r : /\ r \in Answers!ToSet(left[j]) \ tried[j]
                 /\ step[j] = "tell" /\ step'[j] = "tell" /\ left' = left
                 /\ tried' = [tried EXCEPT ![j] = @ \cup {r}]
                 /\ shown' = shown \/ shown' = [shown EXCEPT ![j][r] = @ + 1]
    BY <1>13 DEF Answers!TellAdmin, Answers!At, Answers!Try, Answers!Delivered, Answers!Refused,
                 AnswerInv, AnswerTyped
  <2>2. Answers!ToSet(left[j]) \subseteq Admins /\ tried[j] \subseteq Answers!ToSet(left[j])
    BY <1>8, <2>1 DEF JobSound, AdminsCalled
  <2>4. r \in Answers!Recipients BY <2>1, <2>2 DEF Answers!Recipients
  <2>5. /\ tried' \in [Jobs -> SUBSET Answers!Recipients] /\ tried'[j] = tried[j] \cup {r}
        /\ \A i \in Jobs \ {j} : tried'[i] = tried[i]
    BY <1>8, <2>1, <2>4
  <2>6. /\ shown' \in [Jobs -> [Answers!Recipients -> Nat]]
        /\ \A i \in Jobs \ {j} : shown'[i] = shown[i]
        /\ \A q \in Answers!Recipients :
             \/ shown'[j][q] = shown[j][q]
             \/ q = r /\ shown'[j][q] = shown[j][q] + 1
    BY <1>8, <2>1, <2>4, ShownMoves
  <2>7. ShownFits(j)'
    <3> SUFFICES ASSUME NEW q \in Answers!Recipients
                 PROVE  Fits(shown'[j][q], excess[j], Allowed(j, q)')
      BY <1>2 DEF ShownFits
    <3>1. Allowed(j, q) = IF q \in Answers!ToSet(left[j]) \ tried[j] THEN 0 ELSE 1
      BY <2>1 DEF Allowed, Spared, Answers!Over
    <3>2. Allowed(j, q)' = IF q \in Answers!ToSet(left[j]) \ tried'[j] THEN 0 ELSE 1
      BY <2>1 DEF Allowed, Spared, Answers!Over
    <3>3. Fits(shown[j][q], excess[j], Allowed(j, q)) BY <1>8 DEF JobSound, ShownFits
    <3>4. CASE q = r
      <4>1. Fits(shown[j][q], excess[j], 0) BY <2>1, <3>1, <3>3, <3>4
      <4>2. Allowed(j, q)' = 1 BY <2>5, <3>2, <3>4
      <4>3. Fits(shown[j][q], excess[j], 1) /\ Fits(shown[j][q] + 1, excess[j], 1)
        BY <1>8, <4>1, FitsMore
      <4> QED BY <2>6, <4>2, <4>3
    <3>5. CASE q # r
      <4>1. Allowed(j, q)' = Allowed(j, q) BY <2>5, <3>1, <3>2, <3>5
      <4> QED BY <2>6, <3>3, <3>5, <4>1
    <3> QED BY <3>4, <3>5
  <2>9. AdminsCalled(j)' BY <2>1, <2>2, <2>5 DEF AdminsCalled
  <2> QED BY <2>5, <2>6, <2>7, <2>9
<1>14. CASE Answers!AllTold(j)
  <2>1. /\ UNCHANGED <<tried, left, shown>> /\ step[j] = "tell" /\ step'[j] = "ok"
        /\ Answers!ToSet(left[j]) \subseteq tried[j]
    BY <1>1, <1>7, <1>14 DEF Answers!AllTold, Answers!Reads, Answers!At, Answers!Goto, AnswerInv,
                             AnswerTyped
  <2>3. tried[j] = Answers!ToSet(left[j]) BY <1>8, <2>1 DEF JobSound, AdminsCalled
  <2>4. ShownFits(j)'
    <3> SUFFICES ASSUME NEW q \in Answers!Recipients
                 PROVE  Fits(shown[j][q], excess[j], Allowed(j, q)')
      BY <1>2, <2>1 DEF ShownFits
    <3>1. Allowed(j, q) = 1 BY <2>1 DEF Allowed, Spared, Answers!Over
    <3>2. Allowed(j, q)' = 1 BY <2>1 DEF Allowed, Spared, Answers!Over
    <3> QED BY <1>8, <3>1, <3>2 DEF JobSound, ShownFits
  <2>5. AdminsCalled(j)' BY <2>1, <2>3 DEF AdminsCalled
  <2> QED BY <1>8, <2>1, <2>4, <2>5
<1> QED BY <1>12, <1>13, <1>14

LEMMA AnswerInvNext ==
  ASSUME Answers!JobsAssumption
  PROVE  AnswerInv /\ [Answers!Next]_Answers!jobsVars => AnswerInv'
<1> SUFFICES ASSUME AnswerInv, [Answers!Next]_Answers!jobsVars PROVE AnswerInv' OBVIOUS
<1>1. ASSUME NEW j \in Jobs,
             \/ Answers!Download(j) \/ Answers!Lookup(j) \/ Answers!React(j)
             \/ Answers!SearchVideos(j) \/ Answers!Consult(j) \/ Answers!Recognise(j)
             \/ Answers!Template(j) \/ Answers!Compose(j) \/ Answers!NoPicture(j)
      PROVE  AnswerInv'
  BY <1>1, ReadingKeeps
<1>2. ASSUME NEW j \in Jobs,
             \/ Answers!StartRun(j) \/ Answers!SearchImages(j) \/ Answers!GatherFaces(j)
             \/ Answers!ProfilePhoto(j)
      PROVE  AnswerInv'
  BY <1>2, GatheringKeeps
<1>3. ASSUME NEW j \in Jobs, Answers!Acquire(j) \/ Answers!Distort(j) PROVE AnswerInv'
  BY <1>3, DistortionKeeps
<1>4. ASSUME NEW j \in Jobs, Answers!Reply(j) \/ Answers!Send(j) \/ Answers!SendPicture(j)
      PROVE  AnswerInv'
  BY <1>4, AnsweringKeeps
<1>5. ASSUME NEW j \in Jobs,
             Answers!ListAdmins(j) \/ Answers!TellAdmin(j) \/ Answers!AllTold(j)
      PROVE  AnswerInv'
  BY <1>5, CallingKeeps
<1>6. ASSUME NEW j \in Jobs, Answers!Raises(j) PROVE AnswerInv' BY <1>6, RaisingKeeps
<1>7. CASE Answers!Kill BY <1>7, KillKeeps
<1>8. CASE UNCHANGED Answers!jobsVars
  BY <1>8 DEF Answers!jobsVars, AnswerInv, AnswerTyped, Answers!BoundKept, Answers!Holds, JobSound,
              ShownFits, Allowed, Spared, ChatAnswered, AdminsCalled
<1> QED BY <1>1, <1>2, <1>3, <1>4, <1>5, <1>6, <1>7, <1>8 DEF Answers!Next

\* A set of naturals has a least element.
LEMMA LeastOf ==
  ASSUME NEW T, T \subseteq Nat, T # {}
  PROVE  \E x \in T : \A y \in T : x <= y
<1> DEFINE R == OpToRel(<, Nat)
<1>1. \E x \in T : \A y \in T : <<y, x>> \notin R BY NatLessThanWellFounded, WFMin
<1>2. \A x, y \in Nat : y < x => <<y, x>> \in R BY DEF OpToRel
<1> HIDE DEF R
<1>3. PICK x \in T : \A y \in T : ~(y < x) BY <1>1, <1>2
<1> QED BY <1>3

\* What holds of 0 and of the next of whatever it holds of, up to n.
LEMMA ByCounting ==
  ASSUME NEW n \in Nat, NEW Q, 0 \in Q, \A k \in Nat : k < n /\ k \in Q => k + 1 \in Q
  PROVE  \A k \in 0..n : k \in Q
<1> SUFFICES ASSUME NEW m \in 0..n, m \notin Q PROVE FALSE OBVIOUS
<1> DEFINE T == {k \in 0..n : k \notin Q}
<1>1. T \subseteq Nat /\ T # {} OBVIOUS
<1>2. PICK k \in T : \A y \in T : k <= y BY <1>1, LeastOf
<1>3. k \in Nat /\ k # 0 /\ k - 1 \in Nat /\ k - 1 < n /\ k - 1 \notin T BY <1>2
<1>4. k - 1 \in Q BY <1>2, <1>3
<1>5. (k - 1) + 1 = k BY <1>3
<1> QED BY <1>2, <1>3, <1>4, <1>5

\* Whom a meme asks for a face: the names as typed, then the roster, and of these each
\* once who has a name. The fold is written out.
Asking == Tags \o Roster
MaxOf(s) == CHOOSE x \in s : \A y \in s : x >= y
Asks(F, D) ==
  F = [s \in SUBSET D |-> IF s = {} THEN <<>>
         ELSE Answers!Once(F[s \ {MaxOf(s)}], Asking[MaxOf(s)])]

LEMMA OrderIs == Answers!Order = (CHOOSE F : Asks(F, DOMAIN Asking))[DOMAIN Asking]
BY DEF Answers!Order, Answers!FoldLeft, Answers!MapThenFoldSet, Answers!Max, MaxOf, Asks, Asking

\* A set of numbers up to n has a greatest.
LEMMA MaxOfIs ==
  ASSUME NEW n \in Nat, NEW s \in SUBSET (1..n), s # {}
  PROVE  MaxOf(s) \in s /\ \A y \in s : MaxOf(s) >= y
<1> DEFINE T == {m \in Nat : \A y \in s : y <= m}
<1>1. n \in T OBVIOUS
<1>2. PICK m \in T : \A k \in T : m <= k BY <1>1, LeastOf
<1>3. m \in s
  <2> SUFFICES ASSUME m \notin s PROVE FALSE OBVIOUS
  <2>1. PICK y : y \in s OBVIOUS
  <2>2. m \in Nat /\ \A z \in s : z \in Nat /\ z >= 1 /\ z <= m /\ z # m BY <1>2
  <2>3. m - 1 \in Nat /\ \A z \in s : z <= m - 1 BY <2>1, <2>2
  <2>4. m - 1 \in T /\ ~(m <= m - 1) BY <2>2, <2>3
  <2> QED BY <1>2, <2>4
<1>4. \A y \in s : m >= y BY <1>2
<1> QED BY <1>3, <1>4 DEF MaxOf

\* The fold is a function there is.
LEMMA AsksExists == ASSUME NEW n \in Nat PROVE \E F : Asks(F, 1..n)
<1> DEFINE Q == {k \in Nat : \E F : Asks(F, 1..k)}
<1>1. 0 \in Q
  <2>1. PICK F : F = [s \in SUBSET (1..0) |-> <<>>] OBVIOUS
  <2>2. \A s \in SUBSET (1..0) : s = {} OBVIOUS
  <2>3. Asks(F, 1..0) BY <2>1, <2>2 DEF Asks
  <2> QED BY <2>3
<1>2. ASSUME NEW k \in Nat, k \in Q PROVE k + 1 \in Q
  <2>1. PICK F : Asks(F, 1..k) BY <1>2
  <2>2. PICK G : G = [s \in SUBSET (1..(k + 1)) |-> IF k + 1 \notin s THEN F[s]
                        ELSE Answers!Once(F[s \ {k + 1}], Asking[k + 1])]
    OBVIOUS
  <2>3. \A s \in SUBSET (1..(k + 1)) : k + 1 \notin s => s \in SUBSET (1..k) OBVIOUS
  <2>4. ASSUME NEW s \in SUBSET (1..(k + 1))
        PROVE  G[s] = IF s = {} THEN <<>> ELSE Answers!Once(G[s \ {MaxOf(s)}], Asking[MaxOf(s)])
    <3>1. CASE s = {}
      <4>1. G[s] = F[s] /\ s \in SUBSET (1..k) BY <2>2, <3>1
      <4> QED BY <2>1, <3>1, <4>1 DEF Asks
    <3>2. CASE s # {}
      <4>1. PICK x : x = MaxOf(s) OBVIOUS
      <4>2. x \in s /\ \A y \in s : x >= y
        <5>1. k + 1 \in Nat BY <1>2
        <5> QED BY <3>2, <4>1, <5>1, MaxOfIs
      <4>3. s \ {x} \in SUBSET (1..(k + 1)) OBVIOUS
      <4>4. CASE k + 1 \in s
        <5>1. x = k + 1 BY <4>2, <4>4
        <5>2. G[s] = Answers!Once(F[s \ {x}], Asking[x]) BY <2>2, <4>4, <5>1
        <5>3. G[s \ {x}] = F[s \ {x}] BY <2>2, <4>3, <5>1
        <5> QED BY <3>2, <4>1, <5>2, <5>3
      <4>5. CASE k + 1 \notin s
        <5>1. s \in SUBSET (1..k) BY <2>3, <4>5
        <5>2. G[s] = F[s] /\ G[s \ {x}] = F[s \ {x}] BY <2>2, <4>3, <4>5
        <5>3. F[s] = Answers!Once(F[s \ {x}], Asking[x]) BY <2>1, <3>2, <4>1, <5>1 DEF Asks
        <5> QED BY <3>2, <4>1, <5>2, <5>3
      <4> QED BY <4>4, <4>5
    <3> QED BY <3>1, <3>2
  <2>5. Asks(G, 1..(k + 1)) 
    <3>1. G = [s \in SUBSET (1..(k + 1)) |-> G[s]] BY <2>2
    <3> QED BY ONLY <2>4, <3>1 DEF Asks
  <2> QED BY <2>5
<1> HIDE DEF Q
<1>3. n \in Q BY <1>1, <1>2, ByCounting
<1> QED BY <1>3 DEF Q

\* A sequence that has those who were named before everybody else.
NamedFirst(s) ==
  \A a, b \in DOMAIN s : a < b /\ s[b] \in Answers!ToSet(Tags) => s[a] \in Answers!ToSet(Tags)

\* What the first n have made of the order.
OrderUpTo(s, n) ==
  /\ s \in Seq(Answers!Named) /\ Answers!IsInjective(s) /\ NamedFirst(s)
  /\ n <= Len(Tags) => Answers!ToSet(s) \subseteq Answers!ToSet(Tags)
  /\ \A i \in 1..n : Asking[i] \in Answers!Named => Asking[i] \in Answers!ToSet(s)

\* And the next one keeps that.
LEMMA OnceMore ==
  ASSUME Answers!JobsAssumption, NEW n \in Nat, n < Len(Asking), NEW s, OrderUpTo(s, n)
  PROVE  OrderUpTo(Answers!Once(s, Asking[n + 1]), n + 1)
<1>1. PICK m : m = Asking[n + 1] OBVIOUS
<1>2. /\ Tags \in Seq(Answers!ToSet(Tags)) /\ Roster \in Seq(Answers!ToSet(Roster))
  BY DEF Answers!JobsAssumption
<1>3. /\ Len(Tags) \in Nat /\ Len(Roster) \in Nat /\ Len(Asking) = Len(Tags) + Len(Roster)
      /\ DOMAIN Tags = 1..Len(Tags)
      /\ \A i \in 1..Len(Tags) : Asking[i] = Tags[i]
  BY <1>2 DEF Asking
<1>4. \A i \in 1..Len(Tags) : Asking[i] \in Answers!ToSet(Tags) BY <1>3 DEF Answers!ToSet
<1>5. /\ s \in Seq(Answers!Named) /\ Len(s) \in Nat /\ DOMAIN s = 1..Len(s)
  BY DEF OrderUpTo
<1>6. CASE m \in Answers!Named \ Answers!ToSet(s)
  <2>1. PICK t : t = Append(s, m) OBVIOUS
  <2>2. /\ t \in Seq(Answers!Named) /\ Len(t) = Len(s) + 1 /\ DOMAIN t = 1..(Len(s) + 1)
        /\ t[Len(s) + 1] = m /\ \A i \in 1..Len(s) : t[i] = s[i]
    BY <1>5, <1>6, <2>1
  <2>3. Answers!ToSet(t) = Answers!ToSet(s) \cup {m}
    <3>1. ASSUME NEW i \in DOMAIN t PROVE t[i] \in Answers!ToSet(s) \cup {m}
      BY <1>5, <2>2 DEF Answers!ToSet
    <3>2. ASSUME NEW i \in DOMAIN s PROVE s[i] \in Answers!ToSet(t)
      BY <1>5, <2>2 DEF Answers!ToSet
    <3>3. m \in Answers!ToSet(t) BY <1>5, <2>2 DEF Answers!ToSet
    <3> QED BY <3>1, <3>2, <3>3 DEF Answers!ToSet
  <2>4. \A i \in 1..Len(s) : s[i] # m BY <1>5, <1>6 DEF Answers!ToSet
  <2>5. Answers!IsInjective(t)
    BY <1>5, <2>2, <2>4 DEF OrderUpTo, Answers!IsInjective
  <2>6. m \in Answers!ToSet(Tags) => Answers!ToSet(s) \subseteq Answers!ToSet(Tags)
    <3> SUFFICES ASSUME m \in Answers!ToSet(Tags), ~(n <= Len(Tags)) PROVE FALSE
      BY <1>3 DEF OrderUpTo
    <3>1. PICK i \in 1..Len(Tags) : m = Asking[i] BY <1>3 DEF Answers!ToSet
    <3>2. i \in 1..n
      <4>1. i \in Nat /\ 1 <= i /\ i <= Len(Tags) /\ Len(Tags) \in Nat /\ Len(Tags) <= n BY <1>3
      <4> QED BY <4>1
    <3> QED BY <1>6, <3>1, <3>2 DEF OrderUpTo
  <2>7. NamedFirst(t)
    <3> SUFFICES ASSUME NEW a \in DOMAIN t, NEW b \in DOMAIN t, a < b, t[b] \in Answers!ToSet(Tags)
                 PROVE  t[a] \in Answers!ToSet(Tags)
      BY DEF NamedFirst
    <3>1. a \in 1..Len(s) /\ t[a] = s[a] /\ s[a] \in Answers!ToSet(s)
      BY <1>5, <2>2 DEF Answers!ToSet
    <3>2. CASE b \in 1..Len(s) BY <1>5, <2>2, <3>1, <3>2 DEF OrderUpTo, NamedFirst
    <3>3. CASE b \notin 1..Len(s)
      <4>1. t[b] = m BY <1>5, <2>2, <3>3
      <4> QED BY <2>6, <3>1, <4>1
    <3> QED BY <3>2, <3>3
  <2>8. n + 1 <= Len(Tags) => Answers!ToSet(t) \subseteq Answers!ToSet(Tags)
    BY <1>1, <1>3, <1>4, <2>3 DEF OrderUpTo
  <2>9. \A i \in 1..(n + 1) : Asking[i] \in Answers!Named => Asking[i] \in Answers!ToSet(t)
    BY <1>1, <2>3 DEF OrderUpTo
  <2>10. OrderUpTo(t, n + 1) BY <2>2, <2>5, <2>7, <2>8, <2>9 DEF OrderUpTo
  <2> QED BY <1>1, <1>6, <2>1, <2>10 DEF Answers!Once
<1>7. CASE m \notin Answers!Named \ Answers!ToSet(s)
  <2>1. \A i \in 1..(n + 1) : Asking[i] \in Answers!Named => Asking[i] \in Answers!ToSet(s)
    BY <1>1, <1>7 DEF OrderUpTo
  <2>2. n + 1 <= Len(Tags) => Answers!ToSet(s) \subseteq Answers!ToSet(Tags)
    BY <1>3 DEF OrderUpTo
  <2>3. OrderUpTo(s, n + 1) BY <2>1, <2>2 DEF OrderUpTo
  <2> QED BY <1>1, <1>7, <2>3 DEF Answers!Once
<1> QED BY <1>6, <1>7

\* Everybody who has a name is asked once, and whoever was named before the others.
LEMMA OrderSound ==
  ASSUME Answers!JobsAssumption
  PROVE  /\ Answers!Order \in Seq(Answers!Named) /\ Answers!IsInjective(Answers!Order)
         /\ NamedFirst(Answers!Order)
<1> DEFINE n == Len(Asking)
<1>1. n \in Nat /\ DOMAIN Asking = 1..n
  BY DEF Asking, Answers!JobsAssumption
<1>2. PICK G : G = CHOOSE F : Asks(F, 1..n) OBVIOUS
<1>3. Asks(G, 1..n) BY <1>1, <1>2, AsksExists
<1> HIDE DEF n
<1> DEFINE Q == {k \in 0..n : OrderUpTo(G[1..k], k)}
<1>4. 0 \in Q
  <2>1. 1..0 = {} /\ 1..0 \in SUBSET (1..n) BY <1>1
  <2>2. G[1..0] = <<>> BY <1>3, <2>1 DEF Asks
  <2>3. OrderUpTo(<<>>, 0) BY DEF OrderUpTo, NamedFirst, Answers!IsInjective, Answers!ToSet
  <2> QED BY <1>1, <2>2, <2>3
<1>5. ASSUME NEW k \in Nat, k < n, k \in Q PROVE k + 1 \in Q
  <2>1. PICK s : s = 1..(k + 1) OBVIOUS
  <2>2. s \in SUBSET (1..n) /\ s # {} BY <1>1, <1>5, <2>1
  <2>3. PICK x : x = MaxOf(s) OBVIOUS
  <2>4. x \in s /\ \A y \in s : x >= y BY <1>1, <2>2, <2>3, MaxOfIs
  <2>5. x = k + 1 BY <2>1, <2>4
  <2>6. s \ {x} = 1..k BY <2>1, <2>5
  <2>7. G[s] = Answers!Once(G[s \ {x}], Asking[x]) BY <1>3, <2>2, <2>3 DEF Asks
  <2>8. OrderUpTo(G[1..k], k) BY <1>5
  <2>9. OrderUpTo(Answers!Once(G[1..k], Asking[k + 1]), k + 1) BY <1>5, <2>8, OnceMore DEF n
  <2>10. OrderUpTo(G[1..(k + 1)], k + 1) BY <2>1, <2>5, <2>6, <2>7, <2>9
  <2> QED BY <1>1, <1>5, <2>10
<1> HIDE DEF Q
<1>6. n \in Q
  <2>1. \A k \in Nat : k < n /\ k \in Q => k + 1 \in Q BY <1>5
  <2>2. \A k \in 0..n : k \in Q BY ONLY <1>1, <1>4, <2>1, ByCounting
  <2> QED BY <1>1, <2>2
<1>7. Answers!Order = G[1..n] BY <1>1, <1>2, OrderIs
<1> QED BY <1>6, <1>7 DEF Q, OrderUpTo

\* Who is still to be asked comes in the order, and nobody of them has a face already.
AskedOne(j) ==
  /\ faces[j] \in Seq(Answers!Named) /\ Answers!IsInjective(faces[j])
  /\ step[j] = "faces" =>
       /\ left[j] \in Seq(Answers!Named) /\ Answers!IsInjective(left[j]) /\ NamedFirst(left[j])
       /\ Answers!ToSet(faces[j]) \cap Answers!ToSet(left[j]) = {}
       /\ \/ Answers!ToSet(faces[j]) \subseteq Answers!ToSet(Tags)
          \/ Answers!ToSet(left[j]) \cap Answers!ToSet(Tags) = {}

AskedInv == faces = [j \in Jobs |-> faces[j]] /\ \A j \in Jobs : AskedOne(j)

LEMMA AskedInvInit == Answers!Init => AskedInv
BY DEF AskedInv, AskedOne, Answers!Init, Answers!IsInjective

\* Most steps neither begin to ask nor go on asking.
LEMMA NotAsking ==
  ASSUME AskedInv, AnswerInv, Answers!JobsAssumption, faces' = faces,
         \A i \in Jobs : step'[i] = "faces" => step[i] = "faces" /\ left'[i] = left[i]
  PROVE  AskedInv'
BY DEF AskedInv, AskedOne

\* Where a step that goes somewhere leaves every job.
LEMMA StepGoes ==
  ASSUME AnswerInv, NEW j \in Jobs, NEW s, Answers!Goto(j, s)
  PROVE  \A i \in Jobs : step'[i] = IF i = j THEN s ELSE step[i]
BY DEF AnswerInv, AnswerTyped, Answers!Goto

\* Nor does a step that reads.
LEMMA ReadsAskNobody ==
  ASSUME AskedInv, AnswerInv, Answers!JobsAssumption, NEW j \in Jobs, NEW from, NEW steps,
         Answers!Reads(j, from, steps), "faces" \notin steps
  PROVE  AskedInv'
<1>1. PICK s \in steps : Answers!Goto(j, s) BY DEF Answers!Reads
<1>2. faces' = faces /\ left' = left BY DEF Answers!Reads
<1>3. \A i \in Jobs : step'[i] = "faces" => step[i] = "faces" BY <1>1, StepGoes
<1> QED BY <1>2, <1>3, NotAsking

LEMMA ReadingAsksNobody ==
  ASSUME AskedInv, AnswerInv, Answers!JobsAssumption, NEW j \in Jobs,
         \/ Answers!Download(j) \/ Answers!Lookup(j) \/ Answers!React(j)
         \/ Answers!SearchVideos(j) \/ Answers!Consult(j) \/ Answers!Recognise(j)
         \/ Answers!Template(j) \/ Answers!Compose(j) \/ Answers!NoPicture(j)
         \/ Answers!AllTold(j)
  PROVE  AskedInv'
<1>1. PICK from, steps : Answers!Reads(j, from, steps) /\ "faces" \notin steps
  BY DEF Answers!Download, Answers!Lookup, Answers!React, Answers!SearchVideos, Answers!Consult,
         Answers!Recognise, Answers!Template, Answers!Compose, Answers!NoPicture, Answers!AllTold
<1> QED BY <1>1, ReadsAskNobody

\* Nor does what waits, shows something or goes wrong.
LEMMA OthersAskNobody ==
  ASSUME AskedInv, AnswerInv, Answers!JobsAssumption, NEW j \in Jobs,
         \/ Answers!StartRun(j) \/ Answers!SearchImages(j) \/ Answers!Acquire(j)
         \/ Answers!Distort(j) \/ Answers!ListAdmins(j) \/ Answers!Reply(j) \/ Answers!Send(j)
         \/ Answers!SendPicture(j) \/ Answers!TellAdmin(j) \/ Answers!Raises(j)
  PROVE  AskedInv'
<1>1. faces' = faces /\ (left' = left \/ \E v : left' = [left EXCEPT ![j] = v])
  BY DEF Answers!StartRun, Answers!SearchImages, Answers!Acquire, Answers!Distort,
         Answers!ListAdmins, Answers!Reply, Answers!Send, Answers!SendPicture, Answers!TellAdmin,
         Answers!Raises
<1>2. \A i \in Jobs \ {j} : left'[i] = left[i] BY <1>1 DEF AnswerInv, AnswerTyped
<1>3. \/ \E s : Answers!Goto(j, s) /\ s # "faces"
      \/ step' = step /\ step[j] # "faces"
  <2>1. CASE Answers!StartRun(j)
    <3>1. kind[j] \in {"source", "image", "video", "meme", "distortion", "song", "call"}
      BY KindAt
    <3>2. Answers!FirstStep[kind[j]] # "faces" BY <3>1 DEF Answers!FirstStep
    <3> QED BY <2>1, <3>2 DEF Answers!StartRun
  <2>2. CASE \/ Answers!SearchImages(j) \/ Answers!Acquire(j) \/ Answers!Distort(j)
             \/ Answers!ListAdmins(j) \/ Answers!Reply(j) \/ Answers!Send(j) \/ Answers!Raises(j)
    <3>1. PICK s \in {"pictures", "distort", "fail", "send", "tell", "ok", "error"} :
            Answers!Goto(j, s)
      BY <2>2 DEF Answers!SearchImages, Answers!Acquire, Answers!Distort, Answers!ListAdmins,
                  Answers!Reply, Answers!Send, Answers!Raises
    <3> QED BY <3>1
  <2>3. CASE Answers!SendPicture(j)
    <3>1. step[j] # "faces" /\ (step' = step \/ Answers!Goto(j, "ok"))
      BY <2>3 DEF Answers!SendPicture, Answers!At
    <3> QED BY <3>1
  <2>4. CASE Answers!TellAdmin(j) BY <2>4 DEF Answers!TellAdmin, Answers!At
  <2> QED BY <2>1, <2>2, <2>3, <2>4
<1>4. \A i \in Jobs : step'[i] = "faces" => i # j /\ step[i] = "faces"
  BY <1>3, StepGoes
<1> QED BY <1>1, <1>2, <1>4, NotAsking

LEMMA KillAsksNobody ==
  ASSUME AskedInv, AnswerInv, Answers!JobsAssumption, Answers!Kill
  PROVE  AskedInv'
<1>1. \A j \in Jobs : /\ step'[j] = IF Answers!Running(j) THEN "queued" ELSE step[j]
                      /\ left'[j] = IF Answers!Running(j) THEN <<>> ELSE left[j]
  BY DEF Answers!Kill
<1>2. faces' = faces BY DEF Answers!Kill
<1>3. \A j \in Jobs : step'[j] = "faces" => step[j] = "faces" /\ left'[j] = left[j] BY <1>1
<1> QED BY <1>2, <1>3, NotAsking

\* One job asks, and the others are where they were.
LEMMA OneAsks ==
  ASSUME AskedInv, NEW j \in Jobs, AskedOne(j)', faces' = [i \in Jobs |-> faces'[i]],
         \A i \in Jobs \ {j} : step'[i] = step[i] /\ left'[i] = left[i] /\ faces'[i] = faces[i]
  PROVE  AskedInv'
<1> SUFFICES ASSUME NEW i \in Jobs \ {j} PROVE AskedOne(i)' BY DEF AskedInv
<1> QED BY DEF AskedInv, AskedOne

\* The asking begins with the whole order.
LEMMA GatherAsks ==
  ASSUME AskedInv, AnswerInv, Answers!JobsAssumption, NEW j \in Jobs, Answers!GatherFaces(j)
  PROVE  AskedInv'
<1>1. /\ step' = [step EXCEPT ![j] = "faces"] /\ left' = [left EXCEPT ![j] = Answers!Order]
      /\ faces' = [faces EXCEPT ![j] = <<>>]
  BY DEF Answers!GatherFaces, Answers!Goto
<1>2. /\ step = [i \in Jobs |-> step[i]] /\ left = [i \in Jobs |-> left[i]]
      /\ faces = [i \in Jobs |-> faces[i]]
  BY DEF AnswerInv, AnswerTyped, AskedInv
<1>3. left'[j] = Answers!Order /\ faces'[j] = <<>> BY <1>1, <1>2
<1>4. Answers!ToSet(<<>>) = {} /\ Answers!IsInjective(<<>>)
  BY DEF Answers!ToSet, Answers!IsInjective
<1>5. AskedOne(j)' BY <1>3, <1>4, OrderSound DEF AskedOne, NamedFirst
<1>6. \A i \in Jobs \ {j} : step'[i] = step[i] /\ left'[i] = left[i] /\ faces'[i] = faces[i]
  BY <1>1, <1>2
<1>7. faces' = [i \in Jobs |-> faces'[i]] BY <1>1, <1>2
<1> QED BY <1>5, <1>6, <1>7, OneAsks

\* With its first off a sequence still has the named first, and nobody named is left
\* behind one who was not.
LEMMA NamedFirstOff ==
  ASSUME NEW S, NEW s \in Seq(S), s # <<>>, NamedFirst(s)
  PROVE  /\ NamedFirst(Tail(s))
         /\ Head(s) \notin Answers!ToSet(Tags) =>
              Answers!ToSet(Tail(s)) \cap Answers!ToSet(Tags) = {}
<1>1. Len(s) \in Nat \ {0} /\ DOMAIN s = 1..Len(s) /\ Head(s) = s[1] OBVIOUS
<1>2. /\ Len(Tail(s)) = Len(s) - 1 /\ DOMAIN Tail(s) = 1..(Len(s) - 1)
      /\ \A i \in 1..(Len(s) - 1) : Tail(s)[i] = s[i + 1]
  OBVIOUS
<1>3. \A i \in 1..(Len(s) - 1) : i + 1 \in 1..Len(s) /\ 1 < i + 1 BY <1>1
<1>4. NamedFirst(Tail(s))
  <2> SUFFICES ASSUME NEW a \in 1..(Len(s) - 1), NEW b \in 1..(Len(s) - 1), a < b,
                      Tail(s)[b] \in Answers!ToSet(Tags)
               PROVE  Tail(s)[a] \in Answers!ToSet(Tags)
    BY <1>2 DEF NamedFirst
  <2>1. a + 1 < b + 1 BY <1>1
  <2> QED BY <1>1, <1>2, <1>3, <2>1 DEF NamedFirst
<1>5. ASSUME Head(s) \notin Answers!ToSet(Tags), NEW i \in 1..(Len(s) - 1)
      PROVE  Tail(s)[i] \notin Answers!ToSet(Tags)
  <2>1. 1 \in 1..Len(s) BY <1>1
  <2> QED BY <1>1, <1>2, <1>3, <1>5, <2>1 DEF NamedFirst
<1>6. Head(s) \notin Answers!ToSet(Tags) =>
        Answers!ToSet(Tail(s)) \cap Answers!ToSet(Tags) = {}
  BY <1>2, <1>5 DEF Answers!ToSet
<1> QED BY <1>4, <1>6

\* A face of one who is not there yet.
LEMMA OneFaceMore ==
  ASSUME NEW S, NEW s \in Seq(S), Answers!IsInjective(s), NEW m \in S, m \notin Answers!ToSet(s)
  PROVE  /\ Append(s, m) \in Seq(S) /\ Answers!IsInjective(Append(s, m))
         /\ Answers!ToSet(Append(s, m)) = Answers!ToSet(s) \cup {m}
<1>1. PICK t : t = Append(s, m) OBVIOUS
<1>2. /\ t \in Seq(S) /\ Len(s) \in Nat /\ DOMAIN s = 1..Len(s) /\ DOMAIN t = 1..(Len(s) + 1)
      /\ t[Len(s) + 1] = m /\ \A i \in 1..Len(s) : t[i] = s[i]
  BY <1>1
<1>3. \A i \in 1..Len(s) : s[i] # m BY <1>2 DEF Answers!ToSet
<1>4. Answers!IsInjective(t) BY <1>2, <1>3 DEF Answers!IsInjective
<1>5. ASSUME NEW i \in DOMAIN t PROVE t[i] \in Answers!ToSet(s) \cup {m}
  BY <1>2 DEF Answers!ToSet
<1>6. ASSUME NEW i \in DOMAIN s PROVE s[i] \in Answers!ToSet(t)
  BY <1>2 DEF Answers!ToSet
<1>7. m \in Answers!ToSet(t) BY <1>2 DEF Answers!ToSet
<1>8. Answers!ToSet(t) = Answers!ToSet(s) \cup {m} BY <1>5, <1>6, <1>7 DEF Answers!ToSet
<1> QED BY <1>1, <1>2, <1>4, <1>8

\* The next is asked, and has a picture or none.
LEMMA PhotoAsks ==
  ASSUME AskedInv, AnswerInv, Answers!JobsAssumption, NEW j \in Jobs, Answers!ProfilePhoto(j)
  PROVE  AskedInv'
<1>1. PICK first, rest : first = Head(left[j]) /\ rest = Tail(left[j]) OBVIOUS
<1>2. /\ step' = step /\ step[j] = "faces" /\ left[j] # <<>>
      /\ left' = [left EXCEPT ![j] = rest]
      /\ faces' = [faces EXCEPT ![j] = Append(faces[j], first)] \/ faces' = faces
  BY <1>1 DEF Answers!ProfilePhoto, Answers!At
<1>3. left = [i \in Jobs |-> left[i]] /\ faces = [i \in Jobs |-> faces[i]]
  BY DEF AnswerInv, AnswerTyped, AskedInv
<1>4. /\ left'[j] = rest /\ (faces'[j] = Append(faces[j], first) \/ faces'[j] = faces[j])
      /\ \A i \in Jobs \ {j} : step'[i] = step[i] /\ left'[i] = left[i] /\ faces'[i] = faces[i]
      /\ faces' = [i \in Jobs |-> faces'[i]]
  BY <1>2, <1>3
<1>5. AskedOne(j) BY DEF AskedInv
<1>6. /\ rest \in Seq(Answers!Named) /\ Answers!IsInjective(rest)
      /\ first \in Answers!Named /\ first \notin Answers!ToSet(rest)
      /\ Answers!ToSet(left[j]) = {first} \cup Answers!ToSet(rest)
  BY <1>1, <1>2, <1>5, HeadOff DEF AskedOne
<1>7. /\ NamedFirst(rest)
      /\ first \notin Answers!ToSet(Tags) => Answers!ToSet(rest) \cap Answers!ToSet(Tags) = {}
  BY <1>1, <1>2, <1>5, NamedFirstOff DEF AskedOne
<1>8. /\ Append(faces[j], first) \in Seq(Answers!Named)
      /\ Answers!IsInjective(Append(faces[j], first))
      /\ Answers!ToSet(Append(faces[j], first)) = Answers!ToSet(faces[j]) \cup {first}
  BY <1>2, <1>5, <1>6, OneFaceMore DEF AskedOne
<1>9. NamedFirst(left[j])' <=> NamedFirst(rest) BY <1>4 DEF NamedFirst
<1>10. AskedOne(j)'
  <2>1. CASE faces'[j] = faces[j]
    BY <1>2, <1>4, <1>5, <1>6, <1>7, <1>9, <2>1 DEF AskedOne
  <2>2. CASE faces'[j] = Append(faces[j], first)
    BY <1>2, <1>4, <1>5, <1>6, <1>7, <1>8, <1>9, <2>2 DEF AskedOne
  <2> QED BY <1>4, <2>1, <2>2
<1> QED BY <1>4, <1>10, OneAsks

LEMMA AskedInvNext ==
  ASSUME Answers!JobsAssumption
  PROVE  AskedInv /\ AnswerInv /\ [Answers!Next]_Answers!jobsVars => AskedInv'
<1> SUFFICES ASSUME AskedInv, AnswerInv, [Answers!Next]_Answers!jobsVars PROVE AskedInv' OBVIOUS
<1>1. ASSUME NEW j \in Jobs,
             \/ Answers!Download(j) \/ Answers!Lookup(j) \/ Answers!React(j)
             \/ Answers!SearchVideos(j) \/ Answers!Consult(j) \/ Answers!Recognise(j)
             \/ Answers!Template(j) \/ Answers!Compose(j) \/ Answers!NoPicture(j)
             \/ Answers!AllTold(j)
      PROVE  AskedInv'
  BY <1>1, ReadingAsksNobody
<1>2. ASSUME NEW j \in Jobs,
             \/ Answers!StartRun(j) \/ Answers!SearchImages(j) \/ Answers!Acquire(j)
             \/ Answers!Distort(j) \/ Answers!ListAdmins(j) \/ Answers!Reply(j) \/ Answers!Send(j)
             \/ Answers!SendPicture(j) \/ Answers!TellAdmin(j) \/ Answers!Raises(j)
      PROVE  AskedInv'
  BY <1>2, OthersAskNobody
<1>3. ASSUME NEW j \in Jobs, Answers!GatherFaces(j) PROVE AskedInv' BY <1>3, GatherAsks
<1>4. ASSUME NEW j \in Jobs, Answers!ProfilePhoto(j) PROVE AskedInv' BY <1>4, PhotoAsks
<1>5. CASE Answers!Kill BY <1>5, KillAsksNobody
<1>6. CASE UNCHANGED Answers!jobsVars
  BY <1>6, NotAsking DEF Answers!jobsVars
<1> QED BY <1>1, <1>2, <1>3, <1>4, <1>5, <1>6 DEF Answers!Next

\* Nobody has two faces, and the named were tried before the others.
LEMMA AskedHolds == Answers!JobsAssumption /\ AskedInv => Answers!FacesAsked
<1> SUFFICES ASSUME Answers!JobsAssumption, AskedInv, NEW j \in Jobs
             PROVE  /\ Answers!IsInjective(faces[j]) /\ Answers!ToSet(faces[j]) \cap Unnamed = {}
                    /\ step[j] = "faces" /\ Answers!ToSet(faces[j]) \ Answers!ToSet(Tags) # {} =>
                         Answers!ToSet(left[j]) \cap Answers!ToSet(Tags) = {}
  BY DEF Answers!FacesAsked
<1>1. AskedOne(j) BY DEF AskedInv
<1>2. faces[j] \in Seq(Answers!Named) BY <1>1 DEF AskedOne
<1>3. \A i \in DOMAIN faces[j] : faces[j][i] \in Answers!Named BY <1>2
<1>4. Answers!ToSet(faces[j]) \cap Unnamed = {} BY <1>3 DEF Answers!ToSet, Answers!Named
<1> QED BY <1>1, <1>4 DEF AskedOne

\* With any jobs of any kinds, any recipients, rosters, names and kills: nobody is shown
\* more than one answer to one command, but for a kill or an error after it; a job that
\* came to its end has told or tried to tell the chat, or everybody on the list of
\* admins it was given (which a failing Telegram leaves stale or empty); the bound on
\* distortions is neither lost nor given twice; nobody is in a meme twice, and whoever
\* was named is tried before the others.
THEOREM CommandsAnswered ==
  ASSUME Answers!JobsAssumption
  PROVE  Answers!Spec => []Answers!JobsHold
<1>1. AnswerInv /\ AskedInv => Answers!JobsHold
  <2> SUFFICES ASSUME AnswerInv, AskedInv PROVE Answers!ShownOnce /\ Answers!NobodyIgnored
    BY AskedHolds DEF AnswerInv, Answers!JobsHold
  <2>1. ASSUME NEW j \in Jobs, NEW r \in Answers!Recipients PROVE shown[j][r] <= 1 + excess[j]
    <3>1. shown[j][r] \in Nat /\ excess[j] \in Nat /\ Fits(shown[j][r], excess[j], Allowed(j, r))
      BY DEF AnswerInv, AnswerTyped, JobSound, ShownFits
    <3>2. Allowed(j, r) \in {0, 1} BY DEF Allowed
    <3> QED BY <3>1, <3>2 DEF Fits
  <2>2. ASSUME NEW j \in Jobs, step[j] = "ok", kind[j] # "song"
        PROVE  tried[j] = IF kind[j] = "call" THEN Answers!ToSet(left[j]) ELSE {Chat}
    BY <2>2 DEF AnswerInv, JobSound, ChatAnswered, AdminsCalled
  <2> QED BY <2>1, <2>2 DEF Answers!ShownOnce, Answers!NobodyIgnored
<1> QED BY <1>1, AnswerInvInit, AnswerInvNext, AskedInvInit, AskedInvNext, PTL DEF Answers!Spec

-----------------------------------------------------------------------------
(* Importer.                                                               *)
(*                                                                         *)
(* What an import has yet to write of what it read is still what v1 says,  *)
(* except where v1 or v2 wrote since; so what it has written is, too.      *)
CONSTANTS Keys, Collections, Tables, TablesOf, FkTables, Updating, FirstMongo, Bad, BatchSize
VARIABLES mongo, edits, edited, settled

Import == INSTANCE Importer

LEMMA FirstMeets ==
  ASSUME NEW order, order \in Seq(Import!Elems(order)), NEW S,
         \E i \in DOMAIN order : order[i] \in S
  PROVE  \E i \in DOMAIN order :
           /\ order[i] \in S /\ \A j \in 1..(i - 1) : order[j] \notin S
           /\ Import!First(order, S) = order[i]
<1> DEFINE T == {i \in DOMAIN order : order[i] \in S}
           P(i) == order[i] \in S /\ \A j \in 1..(i - 1) : order[j] \notin S
<1>1. Len(order) \in Nat /\ DOMAIN order = 1..Len(order) OBVIOUS
<1>2. T \subseteq Nat /\ T # {} BY <1>1
<1> HIDE DEF T
<1>3. PICK x \in T : \A y \in T : x <= y BY <1>2, LeastOf
<1>4. \A j \in 1..(x - 1) : j \in DOMAIN order /\ ~(x <= j) BY <1>1, <1>2, <1>3 DEF T
<1>5. x \in DOMAIN order /\ P(x) BY <1>3, <1>4 DEF T
<1> HIDE DEF P
<1>6. PICK c : c = CHOOSE i \in DOMAIN order : P(i) OBVIOUS
<1>7. c \in DOMAIN order /\ P(c) BY <1>5, <1>6
<1>8. Import!First(order, S) = order[c] BY <1>6 DEF Import!First, P
<1> QED BY <1>7, <1>8 DEF P

LEMMA FirstStays ==
  ASSUME NEW order, order \in Seq(Import!Elems(order)), NEW S, NEW rest, rest \subseteq S,
         \E i \in DOMAIN order : order[i] \in S, Import!First(order, S) \in rest
  PROVE  Import!First(order, rest) = Import!First(order, S)
<1>1. Len(order) \in Nat /\ DOMAIN order = 1..Len(order) OBVIOUS
<1>2. PICK i \in DOMAIN order :
        /\ order[i] \in S /\ \A j \in 1..(i - 1) : order[j] \notin S
        /\ Import!First(order, S) = order[i]
  BY FirstMeets
<1>3. PICK k \in DOMAIN order :
        /\ order[k] \in rest /\ \A j \in 1..(k - 1) : order[j] \notin rest
        /\ Import!First(order, rest) = order[k]
  BY <1>2, FirstMeets
<1>4. i = k
  <2>1. ~(i < k) BY <1>1, <1>2, <1>3
  <2>2. ~(k < i) BY <1>1, <1>2, <1>3
  <2> QED BY <1>1, <2>1, <2>2
<1> QED BY <1>2, <1>3, <1>4

Pendings == UNION {[D -> Values] : D \in SUBSET Import!Cells}
Imports ==
  [at : {"read", "stubs", "batch"}, dry : BOOLEAN, asked : SUBSET Import!Elems(Collections),
   todo : SUBSET Import!Elems(Collections), pending : Pendings,
   lost : SUBSET Import!Elems(Collections), touched : SUBSET Import!Cells]

ImportTyped ==
  /\ mongo \in [Import!Cells -> Values \cup {Bad, Nothing}]
  /\ rows \in [Import!Cells -> Import!Row \cup {Nothing}]
  /\ run \in Imports \cup {Import!Idle}
  /\ edited \subseteq Import!Cells /\ settled \subseteq Import!Cells

\* v2 has of a cell what v1 says.
Brought(cell) ==
  /\ rows[cell] # Nothing
  /\ cell[1] \in Updating => rows[cell].v1 = mongo[cell]

SettledBrought == \A cell \in settled : mongo[cell] \in Values /\ Brought(cell)

PendingTrue ==
  \A cell \in DOMAIN run.pending :
    (cell \notin run.touched \/ cell \in settled) => run.pending[cell] = mongo[cell]

Usable(cell) == mongo[cell] \in Values /\ cell \notin run.touched

DoneBrought ==
  ~run.dry =>
    \A c \in run.asked \ (run.lost \cup run.todo) : \A cell \in Import!CellsOf(c) :
      Usable(cell) => Brought(cell)

CurrentComing ==
  ~run.dry /\ run.at # "read" =>
    \A cell \in Import!Cells \cap Import!CellsOf(Import!Current) :
      Usable(cell) => Brought(cell) \/ cell \in DOMAIN run.pending

SomeToDo == run.at # "read" => run.todo # {}

ImportInv ==
  /\ ImportTyped /\ SettledBrought /\ Import!V2OwnedSurvives /\ Import!StubsSuffice
  /\ run # Import!Idle => PendingTrue /\ DoneBrought /\ CurrentComing /\ SomeToDo

LEMMA ImportInvInit == Import!ImportAssumption /\ Import!Init => ImportInv
<1> SUFFICES ASSUME Import!ImportAssumption, Import!Init PROVE ImportInv OBVIOUS
<1>1. ImportTyped BY DEF Import!ImportAssumption, Import!Init, ImportTyped
<1>2. run.at = "idle" BY DEF Import!Init, Import!Idle
<1> QED BY <1>1, <1>2 DEF ImportInv, Import!Init, SettledBrought, Import!V2OwnedSurvives,
                         Import!StubsSuffice

LEMMA RowsAre ==
  ASSUME Import!ImportAssumption
  PROVE  /\ \A r \in Import!Row : r # Nothing
         /\ \A v \in Values \cup {Nothing} : /\ Import!NewRow(v) \in Import!Row
                                            /\ Import!NewRow(v).v1 = v
         /\ \A r \in Import!Row, v \in Values :
              /\ [r EXCEPT !.v1 = v] \in Import!Row
              /\ [r EXCEPT !.v1 = v].v1 = v /\ [r EXCEPT !.v1 = v].own = r.own
         /\ \A r \in Import!Row :
              /\ [r EXCEPT !.own = "edited"] \in Import!Row
              /\ [r EXCEPT !.own = "edited"].v1 = r.v1 /\ [r EXCEPT !.own = "edited"].own = "edited"
BY DEF Import!ImportAssumption, Import!Row, Import!NewRow

LEMMA PendingIs ==
  /\ \A p \in Pendings : /\ DOMAIN p \subseteq Import!Cells
                         /\ \A cell \in DOMAIN p : p[cell] \in Values
  /\ <<>> \in Pendings /\ DOMAIN <<>> = {}
<1>1. <<>> \in [{} -> Values] /\ DOMAIN <<>> = {} OBVIOUS
<1> QED BY <1>1 DEF Pendings

LEMMA ImportIs ==
  /\ Import!Idle.at = "idle" /\ Import!Idle \notin Imports
  /\ ImportTyped /\ run # Import!Idle => run \in Imports
  /\ \A q \in Imports : q.at \in {"read", "stubs", "batch"} /\ q.pending \in Pendings
                        /\ q.touched \subseteq Import!Cells
<1>1. Import!Idle.at = "idle" BY DEF Import!Idle
<1> QED BY <1>1 DEF Imports, ImportTyped

\* What v1 or v2 does to some cells while a run may be under way.
LEMMA WorldMoves ==
  ASSUME ImportInv, Import!ImportAssumption, NEW cells, cells \subseteq Import!Cells,
         (run' = run /\ cells = {}) \/ run' = Import!Touch(cells),
         settled' = settled \ cells,
         mongo' \in [Import!Cells -> Values \cup {Bad, Nothing}],
         rows' \in [Import!Cells -> Import!Row \cup {Nothing}],
         edited' \subseteq Import!Cells, Import!V2OwnedSurvives',
         \A cell \in Import!Cells \ cells :
           /\ mongo'[cell] = mongo[cell]
           /\ rows[cell] # Nothing => rows'[cell] # Nothing /\ rows'[cell].v1 = rows[cell].v1,
         \A cell \in Import!Cells :
           cell[1] \in FkTables /\ rows[<<"groups", cell[2]>>] # Nothing
             => cell \in cells \/ rows'[<<"groups", cell[2]>>] # Nothing
  PROVE  ImportInv'
<1>1. CASE run = Import!Idle
  <2>1. run' = Import!Idle BY <1>1 DEF Import!Touch
  <2>2. run'.at = "idle" BY <2>1, ImportIs
  <2>3. Import!StubsSuffice' BY <2>2 DEF Import!StubsSuffice
  <2>4. ImportTyped' BY <2>1 DEF ImportInv, ImportTyped
  <2>5. SettledBrought' BY DEF ImportInv, ImportTyped, SettledBrought, Brought
  <2> QED BY <2>1, <2>3, <2>4, <2>5 DEF ImportInv
<1>2. CASE run # Import!Idle
  <2>1. run \in Imports BY <1>2, ImportIs DEF ImportInv
  <2>2. /\ run' \in Imports /\ run'.at = run.at /\ run'.dry = run.dry /\ run'.asked = run.asked
        /\ run'.todo = run.todo /\ run'.pending = run.pending /\ run'.lost = run.lost
        /\ run'.touched = run.touched \cup cells
    BY <1>2, <2>1 DEF Import!Touch, Imports
  <2>3. DOMAIN run.pending \subseteq Import!Cells BY <2>1, ImportIs, PendingIs
  <2>4. Import!Current' = Import!Current BY <2>2 DEF Import!Current
  <2>5. ImportTyped' BY <2>2 DEF ImportInv, ImportTyped
  <2>6. SettledBrought' BY DEF ImportInv, ImportTyped, SettledBrought, Brought
  <2>7. PendingTrue' BY <1>2, <2>2, <2>3 DEF ImportInv, PendingTrue
  <2>8. \A c \in Import!Elems(Collections) : Import!CellsOf(c) \subseteq Import!Cells
    BY DEF Import!ImportAssumption, Import!CellsOf, Import!Cells
  <2>9. ASSUME NEW cell \in Import!Cells, Usable(cell)'
        PROVE  Usable(cell) /\ (Brought(cell) => Brought(cell)')
    BY <2>2, <2>9 DEF Usable, Brought
  <2>10. DoneBrought'
    <3> SUFFICES ASSUME ~run'.dry, NEW c \in run'.asked \ (run'.lost \cup run'.todo),
                        NEW cell \in Import!CellsOf(c), Usable(cell)'
                 PROVE  Brought(cell)'
      BY DEF DoneBrought
    <3>1. c \in run.asked \ (run.lost \cup run.todo) /\ ~run.dry BY <2>2
    <3>2. cell \in Import!Cells BY <2>1, <2>8, <3>1 DEF Imports
    <3> QED BY <1>2, <2>9, <3>1, <3>2 DEF ImportInv, DoneBrought
  <2>11. CurrentComing'
    <3> SUFFICES ASSUME ~run'.dry, run'.at # "read", NEW cell \in Import!Cells,
                        cell \in Import!CellsOf(Import!Current), Usable(cell)'
                 PROVE  Brought(cell)' \/ cell \in DOMAIN run.pending
      BY <2>2, <2>4 DEF CurrentComing, Import!CellsOf, Import!Cells
    <3> QED BY <1>2, <2>2, <2>9 DEF ImportInv, CurrentComing
  <2>12. Import!StubsSuffice'
    <3> SUFFICES ASSUME run'.at = "batch", NEW cell \in DOMAIN run.pending,
                        cell[1] = Import!TableNow(run.pending)
                 PROVE  Import!HasGroup(cell)' \/ cell \in run'.touched
      BY <2>2 DEF Import!StubsSuffice, Import!TableNow
    <3>1. Import!HasGroup(cell) \/ cell \in run.touched
      BY <2>2 DEF ImportInv, Import!StubsSuffice
    <3> QED BY <2>2, <2>3, <3>1 DEF Import!HasGroup
  <2>13. SomeToDo' BY <1>2, <2>2 DEF ImportInv, SomeToDo
  <2> QED BY <2>5, <2>6, <2>7, <2>10, <2>11, <2>12, <2>13 DEF ImportInv
<1> QED BY <1>1, <1>2

LEMMA ImportMeetsWorld ==
  ASSUME ImportInv, Import!ImportAssumption,
         \/ \E cell \in Import!Cells, v \in Values \cup {Bad, Nothing} : Import!V1Writes(cell, v)
         \/ \E cell \in Import!Cells : Import!V2Writes(cell)
         \/ \E cell \in Import!Cells, v \in Values : Import!V2Overwrites(cell, v)
         \/ \E g \in Keys : Import!Leave(g)
  PROVE  ImportInv'
<1> USE DEF ImportInv
<1>1. ASSUME NEW cell \in Import!Cells, NEW v \in Values \cup {Bad, Nothing},
             Import!V1Writes(cell, v)
      PROVE  ImportInv'
  <2>1. /\ run' = Import!Touch({cell}) /\ settled' = settled \ {cell}
        /\ mongo' = [mongo EXCEPT ![cell] = v] /\ UNCHANGED <<rows, edited>>
    BY <1>1 DEF Import!V1Writes
  <2>2. Import!V2OwnedSurvives' BY <2>1 DEF Import!V2OwnedSurvives
  <2>3. mongo' \in [Import!Cells -> Values \cup {Bad, Nothing}] BY <2>1 DEF ImportTyped
  <2>4. \A d \in Import!Cells \ {cell} : mongo'[d] = mongo[d] BY <2>1 DEF ImportTyped
  <2> HIDE DEF ImportInv
  <2>5. /\ rows' \in [Import!Cells -> Import!Row \cup {Nothing}] /\ edited' \subseteq Import!Cells
    BY <2>1 DEF ImportInv, ImportTyped
  <2> QED BY <2>1, <2>2, <2>3, <2>4, <2>5, WorldMoves
<1>2. ASSUME NEW cell \in Import!Cells, Import!V2Writes(cell) PROVE ImportInv'
  <2>1. /\ UNCHANGED <<mongo, run, settled>> /\ edited' = edited \cup {cell}
        /\ rows' = [rows EXCEPT ![cell].own = "edited"] /\ rows[cell] # Nothing
    BY <1>2 DEF Import!V2Writes
  <2>2. rows \in [Import!Cells -> Import!Row \cup {Nothing}] BY DEF ImportTyped
  <2>3. /\ rows[cell] \in Import!Row /\ rows'[cell] = [rows[cell] EXCEPT !.own = "edited"]
        /\ \A d \in Import!Cells \ {cell} : rows'[d] = rows[d]
    BY <2>1, <2>2
  <2>4. /\ rows'[cell] \in Import!Row /\ rows'[cell] # Nothing
        /\ rows'[cell].v1 = rows[cell].v1 /\ rows'[cell].own = "edited"
    BY <2>3, RowsAre
  <2>5. rows' \in [Import!Cells -> Import!Row \cup {Nothing}] BY <2>1, <2>2, <2>3, <2>4
  <2>6. Import!V2OwnedSurvives'
    BY <2>1, <2>3, <2>4 DEF Import!V2OwnedSurvives, ImportTyped
  <2>7. mongo' \in [Import!Cells -> Values \cup {Bad, Nothing}] /\ edited' \subseteq Import!Cells
    BY <2>1 DEF ImportTyped
  <2>8. \A d \in Import!Cells :
          rows[d] # Nothing => rows'[d] # Nothing /\ rows'[d].v1 = rows[d].v1
    BY <2>3, <2>4
  <2>9. \A d \in Import!Cells : d[1] \in FkTables => <<"groups", d[2]>> \in Import!Cells
    BY DEF Import!Cells, Import!ImportAssumption
  <2> HIDE DEF ImportInv
  <2>10. PICK none : none = {} OBVIOUS
  <2>11. /\ none \subseteq Import!Cells /\ run' = run /\ none = {} /\ settled' = settled \ none
         /\ \A d \in Import!Cells \ none :
              /\ mongo'[d] = mongo[d]
              /\ rows[d] # Nothing => rows'[d] # Nothing /\ rows'[d].v1 = rows[d].v1
         /\ \A d \in Import!Cells :
              d[1] \in FkTables /\ rows[<<"groups", d[2]>>] # Nothing
                => d \in none \/ rows'[<<"groups", d[2]>>] # Nothing
    BY <2>1, <2>8, <2>9, <2>10
  <2> QED BY <2>5, <2>6, <2>7, <2>11, WorldMoves
<1>3. ASSUME NEW cell \in Import!Cells, NEW v \in Values, Import!V2Overwrites(cell, v)
      PROVE  ImportInv'
  <2>1. /\ UNCHANGED <<mongo, edited>> /\ run' = Import!Touch({cell})
        /\ settled' = settled \ {cell}
        /\ rows' = [rows EXCEPT ![cell].v1 = v] /\ rows[cell] # Nothing
    BY <1>3 DEF Import!V2Overwrites
  <2>2. rows \in [Import!Cells -> Import!Row \cup {Nothing}] BY DEF ImportTyped
  <2>3. /\ rows[cell] \in Import!Row /\ rows'[cell] = [rows[cell] EXCEPT !.v1 = v]
        /\ \A d \in Import!Cells \ {cell} : rows'[d] = rows[d]
    BY <2>1, <2>2
  <2>4. /\ rows'[cell] \in Import!Row /\ rows'[cell] # Nothing
        /\ rows'[cell].own = rows[cell].own
    BY <2>3, RowsAre
  <2>5. rows' \in [Import!Cells -> Import!Row \cup {Nothing}] BY <2>1, <2>2, <2>3, <2>4
  <2>6. Import!V2OwnedSurvives'
    BY <2>1, <2>3, <2>4 DEF Import!V2OwnedSurvives, ImportTyped
  <2>7. mongo' \in [Import!Cells -> Values \cup {Bad, Nothing}] /\ edited' \subseteq Import!Cells
    BY <2>1 DEF ImportTyped
  <2>8. \A d \in Import!Cells : rows[d] # Nothing => rows'[d] # Nothing
    BY <2>3, <2>4
  <2>9. \A d \in Import!Cells : d[1] \in FkTables => <<"groups", d[2]>> \in Import!Cells
    BY DEF Import!Cells, Import!ImportAssumption
  <2> HIDE DEF ImportInv
  <2> QED BY <2>1, <2>3, <2>5, <2>6, <2>7, <2>8, <2>9, WorldMoves
<1>4. ASSUME NEW g \in Keys, Import!Leave(g) PROVE ImportInv'
  <2> DEFINE dead == ({"groups"} \cup FkTables) \X {g}
  <2>1. /\ UNCHANGED mongo /\ run' = Import!Touch(dead) /\ settled' = settled \ dead
        /\ rows' = [cell \in Import!Cells |-> IF cell \in dead THEN Nothing ELSE rows[cell]]
        /\ edited' = edited \ dead
    BY <1>4 DEF Import!Leave
  <2>2. dead \subseteq Import!Cells BY DEF Import!Cells, Import!ImportAssumption
  <2>3. \A d \in Import!Cells :
          /\ d[1] \in FkTables => <<"groups", d[2]>> \in Import!Cells
          /\ d[1] \in FkTables /\ <<"groups", d[2]>> \in dead => d \in dead
    BY DEF Import!Cells, Import!ImportAssumption
  <2> HIDE DEF dead
  <2>4. rows' \in [Import!Cells -> Import!Row \cup {Nothing}] BY <2>1 DEF ImportTyped
  <2>5. \A d \in Import!Cells \ dead : rows'[d] = rows[d] BY <2>1
  <2>6. Import!V2OwnedSurvives' BY <2>1, <2>5 DEF Import!V2OwnedSurvives, ImportTyped
  <2>7. mongo' \in [Import!Cells -> Values \cup {Bad, Nothing}] /\ edited' \subseteq Import!Cells
    BY <2>1 DEF ImportTyped
  <2> HIDE DEF ImportInv
  <2> QED BY <2>1, <2>2, <2>3, <2>4, <2>5, <2>6, <2>7, WorldMoves
<1> QED BY <1>1, <1>2, <1>3, <1>4

LEMMA ImportStarts ==
  ASSUME ImportInv, NEW asked \in SUBSET Import!Elems(Collections), NEW dry \in BOOLEAN,
         Import!Start(asked, dry)
  PROVE  ImportInv'
<1>1. /\ run' = [at |-> "read", dry |-> dry, asked |-> asked, todo |-> asked,
                 pending |-> <<>>, lost |-> {}, touched |-> {}]
      /\ UNCHANGED <<mongo, rows, edited, settled>>
  BY DEF Import!Start
<1>2. run' \in Imports /\ run'.at = "read" /\ run'.pending = <<>> /\ run'.asked = run'.todo
  BY <1>1, PendingIs DEF Imports
<1>3. ImportTyped' BY <1>1, <1>2 DEF ImportInv, ImportTyped
<1>4. SettledBrought' /\ Import!V2OwnedSurvives'
  BY <1>1 DEF ImportInv, SettledBrought, Brought, Import!V2OwnedSurvives
<1>5. Import!StubsSuffice' /\ CurrentComing' /\ DoneBrought' /\ SomeToDo'
  BY <1>2 DEF Import!StubsSuffice, CurrentComing, DoneBrought, SomeToDo
<1>6. PendingTrue' BY <1>2, PendingIs DEF PendingTrue
<1> QED BY <1>3, <1>4, <1>5, <1>6 DEF ImportInv

LEMMA ImportEnds ==
  ASSUME ImportInv, Import!ImportAssumption, Import!Kill \/ (run # Import!Idle /\ Import!Finish)
  PROVE  ImportInv'
<1>1. run' = Import!Idle /\ UNCHANGED <<mongo, rows, edited>>
  BY DEF Import!Kill, Import!Finish
<1>2. Import!StubsSuffice' BY <1>1, ImportIs DEF Import!StubsSuffice
<1>3. Import!V2OwnedSurvives' BY <1>1 DEF ImportInv, Import!V2OwnedSurvives
<1>4. settled' \subseteq Import!Cells /\ SettledBrought'
  <2>1. CASE settled' = settled
    BY <1>1, <2>1 DEF ImportInv, ImportTyped, SettledBrought, Brought
  <2>2. CASE settled' # settled
    <3>1. /\ run # Import!Idle /\ run.todo = {} /\ ~run.dry
          /\ settled' = settled \cup
               {cell \in UNION {Import!CellsOf(c) : c \in run.asked \ run.lost} :
                  mongo[cell] \in Values /\ cell \notin run.touched}
      BY <2>2 DEF Import!Kill, Import!Finish
    <3>2. run \in Imports BY <3>1, ImportIs DEF ImportInv
    <3>3. \A c \in run.asked : Import!CellsOf(c) \subseteq Import!Cells
      BY <3>2 DEF Imports, Import!ImportAssumption, Import!CellsOf, Import!Cells
    <3>4. \A c \in run.asked \ run.lost : \A cell \in Import!CellsOf(c) :
            mongo[cell] \in Values /\ cell \notin run.touched => Brought(cell)
      BY <3>1 DEF ImportInv, DoneBrought, Usable
    <3>5. \A cell \in settled' : cell \in Import!Cells /\ mongo[cell] \in Values /\ Brought(cell)
      BY <3>1, <3>3, <3>4 DEF ImportInv, ImportTyped, SettledBrought
    <3> QED BY <1>1, <3>5 DEF SettledBrought, Brought
  <2> QED BY <2>1, <2>2
<1>5. ImportTyped' BY <1>1, <1>4 DEF ImportInv, ImportTyped
<1> QED BY <1>1, <1>2, <1>3, <1>4, <1>5 DEF ImportInv

LEMMA CurrentIs ==
  ASSUME Import!ImportAssumption, run \in Imports, run.todo # {}
  PROVE  Import!Current \in run.todo /\ Import!Current \in Import!Elems(Collections)
<1>1. Collections \in Seq(Import!Elems(Collections)) BY DEF Import!ImportAssumption
<1>2. \E i \in DOMAIN Collections : Collections[i] \in run.todo
  BY DEF Imports, Import!Elems
<1>3. PICK i \in DOMAIN Collections :
        Collections[i] \in run.todo /\ Import!First(Collections, run.todo) = Collections[i]
  BY <1>1, <1>2, FirstMeets
<1> QED BY <1>3 DEF Import!Current, Import!Elems

LEMMA ImportLoses ==
  ASSUME ImportInv, Import!ImportAssumption, run # Import!Idle, run.todo # {},
         run' = Import!Lose(run), UNCHANGED <<mongo, rows, edited, settled>>
  PROVE  ImportInv'
<1>1. run \in Imports /\ Import!Current \in Import!Elems(Collections)
  BY ImportIs, CurrentIs DEF ImportInv
<1>2. /\ run' \in Imports /\ run'.at = "read" /\ run'.pending = <<>> /\ run'.dry = run.dry
      /\ run'.asked = run.asked /\ run'.todo = run.todo \ {Import!Current}
      /\ run'.lost = run.lost \cup {Import!Current} /\ run'.touched = run.touched
  BY <1>1, PendingIs DEF Imports, Import!Lose
<1>3. ImportTyped' BY <1>2 DEF ImportInv, ImportTyped
<1>4. SettledBrought' /\ Import!V2OwnedSurvives'
  BY DEF ImportInv, SettledBrought, Brought, Import!V2OwnedSurvives
<1>5. Import!StubsSuffice' /\ CurrentComing' /\ SomeToDo'
  BY <1>2 DEF Import!StubsSuffice, CurrentComing, SomeToDo
<1>6. PendingTrue' BY <1>2, PendingIs DEF PendingTrue
<1>7. DoneBrought' BY <1>2 DEF ImportInv, DoneBrought, Brought, Usable, Import!CellsOf
<1> QED BY <1>3, <1>4, <1>5, <1>6, <1>7 DEF ImportInv

LEMMA ProceedIs ==
  ASSUME NEW r \in Imports, NEW p \in Pendings, NEW afresh \in BOOLEAN
  PROVE  LET q == Import!Proceed(r, p, afresh) IN
         /\ q \in Imports /\ q.dry = r.dry /\ q.asked = r.asked /\ q.lost = r.lost
         /\ q.touched = r.touched /\ q.pending = p
         /\ p = <<>> => q.at = "read" /\ q.todo = r.todo \ {Import!Current}
         /\ p # <<>> => /\ q.at \in {"stubs", "batch"} /\ q.todo = r.todo
                        /\ q.at = "batch" => ~(afresh /\ Import!TableNow(p) \in FkTables)
BY DEF Import!Proceed, Imports

\* Once more is read or written, the current collection goes on, or is done.
LEMMA ImportProceeds ==
  ASSUME ImportInv, Import!ImportAssumption, run # Import!Idle, run.todo # {},
         NEW r \in Imports, r.dry = run.dry, r.asked = run.asked, r.lost = run.lost,
         r.todo = run.todo, r.touched \subseteq run.touched,
         NEW p \in Pendings, NEW afresh \in BOOLEAN, run' = Import!Proceed(r, p, afresh),
         rows' \in [Import!Cells -> Import!Row \cup {Nothing}],
         UNCHANGED <<mongo, edited, settled>>,
         Import!V2OwnedSurvives', SettledBrought',
         \A cell \in DOMAIN p : cell \notin r.touched \/ cell \in settled => p[cell] = mongo[cell],
         ~run.dry => \A cell \in Import!CellsOf(Import!Current) :
           mongo[cell] \in Values /\ cell \notin r.touched => Brought(cell)' \/ cell \in DOMAIN p,
         \A cell \in Import!Cells :
           /\ cell \notin Import!CellsOf(Import!Current) => (cell \in r.touched <=> cell \in run.touched)
           /\ cell \notin run.touched /\ mongo[cell] \in Values /\ Brought(cell) => Brought(cell)',
         ~(afresh /\ Import!TableNow(p) \in FkTables) =>
           \A cell \in DOMAIN p :
             cell[1] = Import!TableNow(p) => Import!HasGroup(cell)' \/ cell \in r.touched
  PROVE  ImportInv'
<1>1. run \in Imports /\ Import!Current \in run.todo BY ImportIs, CurrentIs DEF ImportInv
<1>2. /\ run' \in Imports /\ run'.dry = run.dry /\ run'.asked = run.asked /\ run'.lost = run.lost
      /\ run'.touched = r.touched /\ run'.pending = p
      /\ p = <<>> => run'.at = "read" /\ run'.todo = run.todo \ {Import!Current}
      /\ p # <<>> => /\ run'.at \in {"stubs", "batch"} /\ run'.todo = run.todo
                     /\ run'.at = "batch" => ~(afresh /\ Import!TableNow(p) \in FkTables)
  BY ProceedIs
<1>3. ImportTyped' BY <1>2 DEF ImportInv, ImportTyped
<1>4. PendingTrue' BY <1>2 DEF PendingTrue
<1>5. SomeToDo' BY <1>2 DEF SomeToDo
<1>6. Import!StubsSuffice'
  <2> SUFFICES ASSUME run'.at = "batch", NEW cell \in DOMAIN p, cell[1] = Import!TableNow(p)
               PROVE  Import!HasGroup(cell)' \/ cell \in r.touched
    BY <1>2 DEF Import!StubsSuffice, Import!TableNow
  <2> QED BY <1>2
<1>7. CurrentComing'
  <2> SUFFICES ASSUME ~run'.dry, run'.at # "read" PROVE CurrentComing' BY DEF CurrentComing
  <2>1. run'.todo = run.todo BY <1>2
  <2>2. Import!Current' = Import!Current BY <2>1 DEF Import!Current
  <2> QED BY <1>2, <2>2 DEF CurrentComing, Usable, Import!CellsOf, Import!Cells
<1>8. \A c \in run.asked : Import!CellsOf(c) \subseteq Import!Cells
  BY <1>1 DEF Imports, Import!ImportAssumption, Import!CellsOf, Import!Cells
<1>9. DoneBrought'
  <2> SUFFICES ASSUME ~run.dry, NEW c \in run.asked \ (run.lost \cup run'.todo),
                      NEW cell \in Import!CellsOf(c),
                      mongo[cell] \in Values, cell \notin r.touched
               PROVE  Brought(cell)'
    BY <1>2 DEF DoneBrought, Usable, Import!CellsOf
  <2>1. CASE c = Import!Current
    <3>1. p = <<>> BY <1>1, <1>2, <2>1
    <3>2. DOMAIN p = {} BY <3>1, PendingIs
    <3> QED BY <2>1, <3>2
  <2>2. CASE c # Import!Current
    <3>1. c \notin run.todo BY <1>2, <2>2
    <3>2. cell \notin Import!CellsOf(Import!Current)
      BY <1>1, <2>2 DEF Imports, Import!ImportAssumption, Import!CellsOf
    <3>3. cell \in Import!Cells BY <1>8
    <3>4. Brought(cell) BY <3>1, <3>2, <3>3 DEF ImportInv, DoneBrought, Usable
    <3> QED BY <3>2, <3>3, <3>4
  <2> QED BY <2>1, <2>2
<1> QED BY <1>3, <1>4, <1>5, <1>6, <1>7, <1>9 DEF ImportInv

LEMMA ImportReads ==
  ASSUME ImportInv, Import!ImportAssumption, run # Import!Idle, Import!Read
  PROVE  ImportInv'
<1> DEFINE D == {cell \in Import!CellsOf(Import!Current) : mongo[cell] \in Values}
           r == [run EXCEPT !.touched = @ \ Import!CellsOf(Import!Current)]
           p == IF run.dry THEN <<>> ELSE [cell \in D |-> mongo[cell]]
<1>1. /\ run.todo # {} /\ run' = Import!Proceed(r, p, TRUE)
      /\ UNCHANGED <<mongo, rows, edited, settled>>
  BY DEF Import!Read
<1>2. run \in Imports /\ Import!Current \in Import!Elems(Collections)
  BY <1>1, ImportIs, CurrentIs DEF ImportInv
<1>3. Import!CellsOf(Import!Current) \subseteq Import!Cells
  BY <1>2 DEF Import!ImportAssumption, Import!CellsOf, Import!Cells
<1>4. /\ r \in Imports /\ r.dry = run.dry /\ r.asked = run.asked /\ r.lost = run.lost
      /\ r.todo = run.todo /\ r.touched = run.touched \ Import!CellsOf(Import!Current)
  BY <1>2 DEF Imports
<1> HIDE DEF r
<1>5. [cell \in D |-> mongo[cell]] \in [D -> Values] /\ D \subseteq Import!Cells BY <1>3
<1>6. p \in Pendings BY <1>5, PendingIs DEF Pendings
<1>7. /\ \A cell \in DOMAIN p : p[cell] = mongo[cell]
      /\ ~run.dry => DOMAIN p = D
  BY PendingIs
<1> HIDE DEF p
<1>8. rows' \in [Import!Cells -> Import!Row \cup {Nothing}] BY <1>1 DEF ImportInv, ImportTyped
<1>9. Import!V2OwnedSurvives' /\ SettledBrought'
  BY <1>1 DEF ImportInv, SettledBrought, Brought, Import!V2OwnedSurvives
<1>10. \A cell \in Import!Cells : Brought(cell) => Brought(cell)' BY <1>1 DEF Brought
<1>11. Import!TableNow(p) \notin FkTables =>
         \A cell \in DOMAIN p : cell[1] = Import!TableNow(p) => Import!HasGroup(cell)'
  BY DEF Import!HasGroup
<1>12. TRUE \in BOOLEAN OBVIOUS
<1>13. ~run.dry => \A cell \in Import!CellsOf(Import!Current) :
                     mongo[cell] \in Values => cell \in DOMAIN p
  BY <1>7
<1> HIDE DEF D
<1> QED BY <1>1, <1>4, <1>6, <1>7, <1>8, <1>9, <1>10, <1>11, <1>12, <1>13, ImportProceeds

LEMMA ImportStubs ==
  ASSUME ImportInv, Import!ImportAssumption, run # Import!Idle, Import!Stubs
  PROVE  ImportInv'
<1>1. run \in Imports BY ImportIs DEF ImportInv
<1>2. /\ run' = [run EXCEPT !.at = "batch"] /\ run.at = "stubs"
      /\ UNCHANGED <<mongo, edited, settled>>
  BY DEF Import!Stubs
<1>3. /\ run' \in Imports /\ run'.at = "batch" /\ run'.dry = run.dry /\ run'.asked = run.asked
      /\ run'.todo = run.todo /\ run'.pending = run.pending /\ run'.lost = run.lost
      /\ run'.touched = run.touched
  BY <1>1, <1>2 DEF Imports
<1>4. DOMAIN run.pending \subseteq Import!Cells BY <1>1, ImportIs, PendingIs
<1>5. Import!NewRow(Nothing) \in Import!Row /\ Import!NewRow(Nothing) # Nothing BY RowsAre
<1>6. /\ rows' \in [Import!Cells -> Import!Row \cup {Nothing}]
      /\ \A cell \in Import!Cells : rows[cell] # Nothing => rows'[cell] = rows[cell]
  BY <1>5 DEF Import!Stubs, ImportInv, ImportTyped
<1>7. Import!Current' = Import!Current BY <1>3 DEF Import!Current
<1>8. ImportTyped' BY <1>2, <1>3, <1>6 DEF ImportInv, ImportTyped
<1>9. SettledBrought' /\ Import!V2OwnedSurvives'
  BY <1>2, <1>6 DEF ImportInv, ImportTyped, SettledBrought, Brought, Import!V2OwnedSurvives
<1>10. PendingTrue' /\ SomeToDo'
  BY <1>2, <1>3 DEF ImportInv, PendingTrue, SomeToDo
<1>11. \A cell \in Import!Cells : Brought(cell) => Brought(cell)' BY <1>2, <1>6 DEF Brought
<1>12. \A c \in run.asked : Import!CellsOf(c) \subseteq Import!Cells
  BY <1>1 DEF Imports, Import!ImportAssumption, Import!CellsOf, Import!Cells
<1>13. DoneBrought'
  BY <1>2, <1>3, <1>11, <1>12 DEF ImportInv, DoneBrought, Usable, Import!CellsOf
<1>14. CurrentComing'
  <2> SUFFICES ASSUME ~run.dry, NEW cell \in Import!Cells,
                      cell \in Import!CellsOf(Import!Current), Usable(cell)
               PROVE  Brought(cell)' \/ cell \in DOMAIN run.pending
    BY <1>2, <1>3, <1>7 DEF CurrentComing, Usable, Import!CellsOf, Import!Cells
  <2> QED BY <1>2, <1>11 DEF ImportInv, CurrentComing
<1>15. Import!StubsSuffice'
  <2> SUFFICES ASSUME NEW cell \in DOMAIN run.pending, cell[1] = Import!TableNow(run.pending),
                      cell[1] \in FkTables
               PROVE  rows'[<<"groups", cell[2]>>] # Nothing
    BY <1>3 DEF Import!StubsSuffice, Import!TableNow, Import!HasGroup
  <2>1. <<"groups", cell[2]>> \in Import!Cells
    BY <1>4 DEF Import!Cells, Import!ImportAssumption
  <2> QED BY <1>5, <2>1 DEF Import!Stubs
<1> QED BY <1>8, <1>9, <1>10, <1>13, <1>14, <1>15 DEF ImportInv

LEMMA ImportWrites ==
  ASSUME ImportInv, Import!ImportAssumption, run # Import!Idle,
         NEW batch \in SUBSET DOMAIN run.pending, Import!Batch(batch)
  PROVE  ImportInv'
<1> DEFINE here == {cell \in DOMAIN run.pending : cell[1] = Import!TableNow(run.pending)}
           p == [cell \in DOMAIN run.pending \ batch |-> run.pending[cell]]
<1>1. run \in Imports BY ImportIs DEF ImportInv
<1>2. run.at = "batch" /\ batch \subseteq here /\ UNCHANGED <<mongo, edited, settled>>
  BY DEF Import!Batch
<1>3. run.todo # {} BY <1>2 DEF ImportInv, SomeToDo
<1>4. CASE ~\A cell \in batch : Import!HasGroup(cell)
  <2>1. rows' = rows /\ run' = Import!Lose(run) BY <1>4 DEF Import!Batch
  <2> QED BY <1>2, <1>3, <2>1, ImportLoses
<1>5. CASE \A cell \in batch : Import!HasGroup(cell)
  <2>1. /\ rows' = [cell \in Import!Cells |-> IF cell \in batch
                      THEN Import!Upsert(rows[cell], cell, run.pending[cell]) ELSE rows[cell]]
        /\ run' = Import!Proceed(run, p, batch = here)
    BY <1>5 DEF Import!Batch
  <2>2. /\ DOMAIN run.pending \subseteq Import!Cells
        /\ \A cell \in DOMAIN run.pending : run.pending[cell] \in Values
    BY <1>1, ImportIs, PendingIs
  <2>3. p \in Pendings
    <3>1. p \in [DOMAIN run.pending \ batch -> Values] BY <2>2
    <3>2. DOMAIN run.pending \ batch \in SUBSET Import!Cells BY <2>2
    <3> HIDE DEF p
    <3> QED BY <3>1, <3>2 DEF Pendings
  <2>4. DOMAIN p = DOMAIN run.pending \ batch /\ \A cell \in DOMAIN p : p[cell] = run.pending[cell]
    OBVIOUS
  <2> HIDE DEF p
  <2>5. ASSUME NEW cell \in Import!Cells
        PROVE  /\ rows'[cell] \in Import!Row \cup {Nothing}
               /\ rows[cell] # Nothing => rows'[cell] # Nothing /\ rows'[cell].own = rows[cell].own
               /\ cell \notin batch => rows'[cell] = rows[cell]
               /\ cell \in batch =>
                    /\ rows'[cell] # Nothing
                    /\ cell[1] \in Updating => rows'[cell].v1 = run.pending[cell]
    <3>1. rows[cell] \in Import!Row \cup {Nothing} BY DEF ImportInv, ImportTyped
    <3>2. CASE cell \notin batch BY <2>1, <3>1, <3>2
    <3>3. CASE cell \in batch
      <4>1. rows'[cell] = Import!Upsert(rows[cell], cell, run.pending[cell])
            /\ run.pending[cell] \in Values
        BY <2>1, <2>2, <3>3
      <4>2. CASE rows[cell] = Nothing BY <3>3, <4>1, <4>2, RowsAre DEF Import!Upsert
      <4>3. CASE rows[cell] # Nothing BY <3>1, <3>3, <4>1, <4>3, RowsAre DEF Import!Upsert
      <4> QED BY <4>2, <4>3
    <3> QED BY <3>2, <3>3
  <2>6. rows' \in [Import!Cells -> Import!Row \cup {Nothing}] BY <2>1, <2>5
  <2>7. Import!V2OwnedSurvives' BY <1>2, <2>5 DEF ImportInv, ImportTyped, Import!V2OwnedSurvives
  <2>8. ASSUME NEW cell \in Import!Cells, Brought(cell),
               cell \in DOMAIN run.pending => run.pending[cell] = mongo[cell]
        PROVE  Brought(cell)'
    BY <1>2, <2>5, <2>8 DEF Brought
  <2>9. SettledBrought'
    <3> SUFFICES ASSUME NEW cell \in settled PROVE mongo[cell] \in Values /\ Brought(cell)'
      BY <1>2 DEF SettledBrought
    <3>1. cell \in Import!Cells /\ mongo[cell] \in Values /\ Brought(cell)
      BY DEF ImportInv, ImportTyped, SettledBrought
    <3> QED BY <2>8, <3>1 DEF ImportInv, PendingTrue
  <2>10. \A cell \in DOMAIN p :
           cell \notin run.touched \/ cell \in settled => p[cell] = mongo[cell]
    BY <2>4 DEF ImportInv, PendingTrue
  <2>11. \A cell \in Import!Cells : cell \notin run.touched /\ Brought(cell) => Brought(cell)'
    BY <2>8 DEF ImportInv, PendingTrue
  <2>12. ~run.dry => \A cell \in Import!CellsOf(Import!Current) :
           mongo[cell] \in Values /\ cell \notin run.touched => Brought(cell)' \/ cell \in DOMAIN p
    <3> SUFFICES ASSUME ~run.dry, NEW cell \in Import!CellsOf(Import!Current),
                        mongo[cell] \in Values, cell \notin run.touched, cell \notin DOMAIN p
                 PROVE  Brought(cell)'
      OBVIOUS
    <3>1. cell \in Import!Cells
      BY <1>1, <1>3, CurrentIs DEF Import!ImportAssumption, Import!CellsOf, Import!Cells
    <3>2. CASE cell \in batch
      <4>1. run.pending[cell] = mongo[cell] BY <3>2 DEF ImportInv, PendingTrue
      <4> QED BY <1>2, <2>5, <3>1, <3>2, <4>1 DEF Brought
    <3>3. CASE cell \notin batch
      <4>1. Brought(cell)
        BY <1>2, <2>4, <3>1, <3>3 DEF ImportInv, CurrentComing, Usable
      <4> QED BY <2>11, <3>1, <4>1
    <3> QED BY <3>2, <3>3
  <2>13. ~(batch = here /\ Import!TableNow(p) \in FkTables) =>
           \A cell \in DOMAIN p :
             cell[1] = Import!TableNow(p) => Import!HasGroup(cell)' \/ cell \in run.touched
    <3>1. CASE Import!TableNow(p) \notin FkTables BY <3>1 DEF Import!HasGroup
    <3>2. CASE batch # here
      <4>1. Import!TableNow(p) = Import!TableNow(run.pending)
        <5> DEFINE S == {cell[1] : cell \in DOMAIN run.pending}
                   rest == {cell[1] : cell \in DOMAIN p}
        <5>1. PICK d \in here : d \notin batch BY <1>2, <3>2
        <5>2. d \in DOMAIN p /\ d \in DOMAIN run.pending /\ d[1] = Import!TableNow(run.pending)
          BY <2>4, <5>1
        <5>3. rest \subseteq S /\ Import!TableNow(run.pending) \in rest /\ d[1] \in S
          BY <2>4, <5>2
        <5>4. \E i \in DOMAIN Tables : Tables[i] = d[1]
          BY <2>2, <5>2 DEF Import!Cells, Import!Elems
        <5>5. Tables \in Seq(Import!Elems(Tables)) BY DEF Import!ImportAssumption
        <5>6. /\ Import!TableNow(run.pending) = Import!First(Tables, S)
              /\ Import!TableNow(p) = Import!First(Tables, rest)
          BY DEF Import!TableNow
        <5> HIDE DEF S, rest
        <5> QED BY <5>3, <5>4, <5>5, <5>6, FirstStays
      <4> SUFFICES ASSUME NEW cell \in DOMAIN p, cell[1] = Import!TableNow(run.pending),
                          cell[1] \in FkTables, cell \notin run.touched
                   PROVE  rows'[<<"groups", cell[2]>>] # Nothing
        BY <4>1 DEF Import!HasGroup
      <4>2. <<"groups", cell[2]>> \in Import!Cells
        BY <2>2, <2>4 DEF Import!Cells, Import!ImportAssumption
      <4>3. rows[<<"groups", cell[2]>>] # Nothing
        BY <1>2, <2>4 DEF ImportInv, Import!StubsSuffice, Import!HasGroup
      <4> QED BY <2>5, <4>2, <4>3
    <3> QED BY <3>1, <3>2
  <2>14. (batch = here) \in BOOLEAN OBVIOUS
  <2> HIDE DEF here
  <2> QED BY <1>1, <1>2, <1>3, <2>1, <2>3, <2>6, <2>7, <2>9, <2>10, <2>11, <2>12, <2>13, <2>14,
             ImportProceeds
<1> QED BY <1>4, <1>5

LEMMA ImportInvNext ==
  ASSUME Import!ImportAssumption
  PROVE  ImportInv /\ [Import!Next]_Import!vars => ImportInv'
<1> SUFFICES ASSUME ImportInv, [Import!Next]_Import!vars PROVE ImportInv' OBVIOUS
<1>1. CASE \/ \E cell \in Import!Cells, v \in Values \cup {Bad, Nothing} : Import!V1Writes(cell, v)
           \/ \E cell \in Import!Cells : Import!V2Writes(cell)
           \/ \E cell \in Import!Cells, v \in Values : Import!V2Overwrites(cell, v)
           \/ \E g \in Keys : Import!Leave(g)
  BY <1>1, ImportMeetsWorld
<1>2. ASSUME NEW asked \in SUBSET Import!Elems(Collections), NEW dry \in BOOLEAN,
             Import!Start(asked, dry)
      PROVE  ImportInv'
  BY <1>2, ImportStarts
<1>3. CASE run # Import!Idle /\ Import!Read BY <1>3, ImportReads
<1>4. CASE run # Import!Idle /\ Import!Stubs BY <1>4, ImportStubs
<1>5. CASE Import!Kill \/ (run # Import!Idle /\ Import!Finish) BY <1>5, ImportEnds
<1>6. ASSUME run # Import!Idle, NEW batch \in SUBSET DOMAIN run.pending, Import!Batch(batch)
      PROVE  ImportInv'
  BY <1>6, ImportWrites
<1>7. CASE Import!Fails
  <2>1. /\ run # Import!Idle /\ run.todo # {} /\ run' = Import!Lose(run)
        /\ UNCHANGED <<mongo, rows, edited, settled>>
    BY <1>7 DEF Import!Fails
  <2> QED BY <2>1, ImportLoses
<1>8. CASE UNCHANGED Import!vars
  <2>1. UNCHANGED <<mongo, rows, run, edited, settled>> BY <1>8 DEF Import!vars
  <2> QED BY <2>1 DEF ImportInv, ImportTyped, SettledBrought, Brought, Import!V2OwnedSurvives,
                      Import!StubsSuffice, Import!TableNow, Import!HasGroup, PendingTrue,
                      DoneBrought, CurrentComing, Usable, SomeToDo, Import!Current,
                      Import!CellsOf, Import!Cells
<1> QED BY <1>1, <1>2, <1>3, <1>4, <1>5, <1>6, <1>7, <1>8 DEF Import!Next

\* With any documents, tables and collections, whatever v1 and v2 write meanwhile and
\* wherever a run fails or is killed: what a run did not report lost is in v2 and stays
\* what v1 says, no run undoes what v2 wrote in its own columns, and a child row lacks
\* its group only where the group was deleted under the run's feet.
THEOREM ImportsKeepTheirWord ==
  ASSUME Import!ImportAssumption
  PROVE  Import!Spec =>
           [](Import!ReportedIsThere /\ Import!V2OwnedSurvives /\ Import!StubsSuffice)
<1>1. ImportInv => Import!ReportedIsThere /\ Import!V2OwnedSurvives /\ Import!StubsSuffice
  BY DEF ImportInv, SettledBrought, Brought, Import!ReportedIsThere
<1> QED BY <1>1, ImportInvInit, ImportInvNext, PTL DEF Import!Spec

-----------------------------------------------------------------------------
(* GroupSettings.                                                          *)
(*                                                                         *)
(* A value that came in where no bound is kept is named in free; any other *)
(* is one that the form, the renderings and the topics can do with.        *)
CONSTANTS DefaultLanguage, Tenants, Numbers, Words, Widest
VARIABLES row, tenant, free, last, writes

Sheet == INSTANCE GroupSettings

Texts == [n : Int \cup {Nothing}, word : Sheet!Heard \cup {Nothing}]

\* The fan-out and the bot take it for the same language.
Spoken(text) == text = Sheet!Word("pt") <=> Sheet!ResolveLanguage(text) = "pt"

Good(c, v) ==
  /\ v \in Sheet!Stored
  /\ c \in Sheet!Counts => v \in Sheet!Bounds[c][1]..Sheet!Bounds[c][2]
  /\ c = "language" => Spoken(v)
  /\ c = "thread_posts" => Sheet!Topic(v) # 9999

SettingsInv ==
  /\ tenant \in Tenants /\ free \subseteq Sheet!Columns \ Sheet!V2Only
  /\ row # Nothing =>
       /\ row \in [Sheet!Columns -> Sheet!Stored]
       /\ \A c \in Sheet!Columns \ free : Good(c, row[c])
  /\ Sheet!OnlyNamedMoves

LEMMA ColumnsAre ==
  /\ Sheet!Counts = {"sticker_spam_limit", "sticker_spam_window_s", "media_restrict_seconds",
                     "captcha_timeout_seconds", "max_posts"}
  /\ Sheet!Columns = Sheet!Switches \cup Sheet!Counts \cup {"language", "thread_posts"}
  /\ Sheet!Switches \cap (Sheet!Counts \cup {"language", "thread_posts"}) = {}
  /\ Sheet!V2Only \subseteq Sheet!Columns /\ "language" \notin Sheet!V2Only
  /\ "thread_posts" \notin Sheet!V2Only
  /\ Sheet!MenuColumns = Sheet!Columns \ Sheet!V2Only
  /\ \A c \in Sheet!Counts : Sheet!Bounds[c][1] \in Nat /\ Sheet!Bounds[c][2] \in Nat
BY SMT DEF Sheet!Counts, Sheet!Bounds, Sheet!Columns, Sheet!Switches, Sheet!V2Only, Sheet!MenuColumns

LEMMA TextsAre ==
  ASSUME Sheet!SettingsAssumption
  PROVE  /\ Sheet!Texts \subseteq Texts /\ Texts \subseteq Sheet!Stored
         /\ Sheet!Number(0) \in Texts /\ Sheet!Word("no") \in Texts
         /\ \A w \in {"en", "eng", "pt", "es", DefaultLanguage} : Sheet!Word(w) \in Texts
         /\ BOOLEAN \subseteq Sheet!Stored /\ Int \subseteq Sheet!Stored /\ Nothing \in Sheet!Stored
         /\ \A t \in Texts : t.n \in Int \cup {Nothing} /\ t.word \in Sheet!Heard \cup {Nothing}
         /\ Nothing \notin Int
BY DEF Sheet!SettingsAssumption, Sheet!Texts, Texts, Sheet!Stored, Sheet!Number, Sheet!Word,
       Sheet!Heard

LEMMA LanguagesSpoken ==
  ASSUME Sheet!SettingsAssumption
  PROVE  \A w \in {"en", "eng", "pt", "es", DefaultLanguage} : Spoken(Sheet!Word(w))
<1> SUFFICES ASSUME NEW w \in {"en", "eng", "pt", "es", DefaultLanguage}
             PROVE  Spoken(Sheet!Word(w))
  OBVIOUS
<1> DEFINE t == Sheet!Word(w)
<1>1. t.word = w /\ (t = Sheet!Word("pt") <=> w = "pt") BY DEF Sheet!Word
<1>2. /\ DOMAIN Sheet!Aliases = {"pt", "es"}
      /\ w \in Sheet!Aliases["pt"] <=> w = "pt"
      /\ \A x : ~(x \in Sheet!Aliases["pt"] /\ x \in Sheet!Aliases["es"])
  BY DEF Sheet!Aliases, Sheet!SettingsAssumption
<1>3. Sheet!ResolveLanguage(t) = "pt" <=> w = "pt"
  <2>1. CASE w = "pt"
    <3>1. "pt" = CHOOSE l \in {"pt", "es"} : w \in Sheet!Aliases[l] BY <1>2, <2>1
    <3> QED BY <1>1, <1>2, <2>1, <3>1 DEF Sheet!ResolveLanguage
  <2>2. CASE w # "pt"
    <3>1. ASSUME \E l \in {"pt", "es"} : w \in Sheet!Aliases[l]
          PROVE  (CHOOSE l \in {"pt", "es"} : w \in Sheet!Aliases[l]) # "pt"
      BY <1>2, <2>2, <3>1
    <3> QED BY <1>1, <1>2, <2>2, <3>1 DEF Sheet!ResolveLanguage
  <2> QED BY <2>1, <2>2
<1> HIDE DEF t
<1> QED BY <1>1, <1>3 DEF Spoken, t

LEMMA DefaultsAreGood ==
  ASSUME Sheet!SettingsAssumption, NEW c \in Sheet!Columns
  PROVE  /\ Good(c, Sheet!SqlDefaults[c]) /\ Good(c, Sheet!Defaults[c])
         /\ c # "language" => Sheet!Defaults[c] = Sheet!SqlDefaults[c]
<1>1. c # "language" => Sheet!Defaults[c] = Sheet!SqlDefaults[c]
  BY DEF Sheet!Defaults, Sheet!SqlDefaults
<1>2. CASE c \in Sheet!Switches
  <2>1. Sheet!SqlDefaults[c] \in BOOLEAN
    BY <1>2, Zenon DEF Sheet!SqlDefaults
  <2> QED BY <1>1, <1>2, <2>1, ColumnsAre, TextsAre DEF Good
<1>3. CASE c \in Sheet!Counts
  <2>1. Sheet!SqlDefaults[c] \in Int
        /\ Sheet!SqlDefaults[c] \in Sheet!Bounds[c][1]..Sheet!Bounds[c][2]
    BY SMT, <1>3, ColumnsAre DEF Sheet!SqlDefaults, Sheet!SqlValues, Sheet!Bounds, Sheet!Switches
  <2> QED BY <1>1, <1>3, <2>1, ColumnsAre, TextsAre DEF Good
<1>4. CASE c = "language"
  <2>1. Sheet!SqlDefaults[c] = Sheet!Word("en") /\ Sheet!Defaults[c] = Sheet!Word(DefaultLanguage)
    BY <1>4, ColumnsAre DEF Sheet!SqlDefaults, Sheet!SqlValues, Sheet!Defaults, Sheet!Switches
  <2> QED BY <1>4, <2>1, ColumnsAre, TextsAre, LanguagesSpoken DEF Good
<1>5. CASE c = "thread_posts"
  <2>1. Sheet!SqlDefaults[c] = Nothing
    BY <1>5, ColumnsAre DEF Sheet!SqlDefaults, Sheet!SqlValues, Sheet!Switches
  <2>2. Sheet!Topic(Nothing) # 9999 BY DEF Sheet!Topic
  <2> QED BY <1>1, <1>5, <2>1, <2>2, ColumnsAre, TextsAre DEF Good
<1> QED BY <1>1, <1>2, <1>3, <1>4, <1>5, ColumnsAre

LEMMA ParsedIsStored ==
  ASSUME Sheet!SettingsAssumption, NEW c \in Sheet!MenuColumns, NEW text \in Texts,
         NEW v \in Sheet!ParseReplyValue(c, text)
  PROVE  v \in Sheet!Stored
<1>1. text \in Sheet!Stored /\ text.n \in Int \cup {Nothing} BY TextsAre
<1>2. c \in Sheet!Switches \cup Sheet!Counts \cup {"language", "thread_posts"} BY ColumnsAre
<1>3. v \in {text, text.n # 0} \cup (IF text.n = Nothing THEN {} ELSE {text.n})
  BY <1>2, ColumnsAre DEF Sheet!ParseReplyValue
<1> QED BY <1>1, <1>3, TextsAre

LEMMA ValidatedIsGood ==
  ASSUME Sheet!SettingsAssumption, NEW c \in Sheet!Columns, NEW text \in Texts,
         NEW v \in Sheet!Validated(c, text)
  PROVE  /\ v \in Sheet!Stored
         /\ c # "thread_posts" => Good(c, v)
<1>1. CASE c \in Sheet!Switches
  <2>1. v \in BOOLEAN
    <3>1. v \in {on \in BOOLEAN : text.n = IF on THEN 1 ELSE 0}
      BY <1>1, Zenon DEF Sheet!Validated
    <3> QED BY <3>1, Zenon
  <2> QED BY <1>1, <2>1, ColumnsAre, TextsAre DEF Good
<1>2. CASE c \in Sheet!Counts
  <2>1. v = text.n /\ text.n # Nothing /\ text.n \in Sheet!Bounds[c][1]..Sheet!Bounds[c][2]
    BY <1>2, ColumnsAre DEF Sheet!Validated
  <2>2. v \in Int BY <2>1, TextsAre
  <2> QED BY <1>2, <2>1, <2>2, ColumnsAre, TextsAre DEF Good
<1>3. CASE c = "language"
  <2>1. v = Sheet!Word(Sheet!ResolveLanguage(text)) BY <1>3, ColumnsAre DEF Sheet!Validated
  <2>2. Sheet!ResolveLanguage(text) \in {"en", "pt", "es"}
    BY DEF Sheet!ResolveLanguage, Sheet!Aliases
  <2> QED BY <1>3, <2>1, <2>2, ColumnsAre, TextsAre, LanguagesSpoken DEF Good
<1>4. CASE c = "thread_posts"
  BY <1>4, ColumnsAre, TextsAre DEF Sheet!Validated
<1> QED BY <1>1, <1>2, <1>3, <1>4, ColumnsAre

LEMMA MappedIsGood ==
  ASSUME Sheet!SettingsAssumption, NEW c \in Sheet!Columns, NEW doc,
         \A x \in DOMAIN doc : doc[x] \in Texts
  PROVE  /\ Sheet!Mapped(c, doc) \in Sheet!Stored
         /\ c \notin DOMAIN doc \/ c = "thread_posts" => Good(c, Sheet!Mapped(c, doc))
<1>1. CASE c \notin DOMAIN doc
  BY <1>1, DefaultsAreGood DEF Sheet!Mapped, Good
<1>2. CASE c \in DOMAIN doc
  <2>1. doc[c] \in Texts /\ doc[c].n \in Int \cup {Nothing} BY <1>2, TextsAre
  <2>2. CASE c = "thread_posts"
    <3>1. Sheet!Mapped(c, doc) = IF doc[c].n = 9999 THEN Nothing ELSE doc[c]
      BY <1>2, <2>2, ColumnsAre DEF Sheet!Mapped
    <3>2. Sheet!Topic(Sheet!Mapped(c, doc)) # 9999 BY <3>1, TextsAre DEF Sheet!Topic
    <3> QED BY <2>1, <2>2, <3>1, <3>2, ColumnsAre, TextsAre DEF Good
  <2>3. CASE c # "thread_posts"
    <3> DEFINE b == doc[c].n # 0
    <3>1. b \in BOOLEAN OBVIOUS
    <3>2. Sheet!Mapped(c, doc) \in {doc[c], b, Sheet!Defaults[c]}
                                   \cup (IF doc[c].n = Nothing THEN {} ELSE {doc[c].n})
      BY <1>2, <2>3, ColumnsAre DEF Sheet!Mapped
    <3> HIDE DEF b
    <3>3. Sheet!Defaults[c] \in Sheet!Stored BY DefaultsAreGood DEF Good
    <3> QED BY <1>2, <2>1, <2>3, <3>1, <3>2, <3>3, TextsAre
  <2> QED BY <2>2, <2>3
<1> QED BY <1>1, <1>2

LEMMA ChangeIsNamed ==
  ASSUME SettingsInv, Sheet!SettingsAssumption, NEW named, last' = Sheet!Change(named),
         UNCHANGED tenant, row' \in [Sheet!Columns -> Sheet!Stored],
         \A c \in Sheet!Columns \ named :
           row'[c] = IF row = Nothing THEN Sheet!SqlDefaults[c] ELSE row[c]
  PROVE  Sheet!OnlyNamedMoves'
<1>1. row' # Nothing BY DEF Sheet!SettingsAssumption
<1>2. Sheet!EffectiveOf(row') = row' /\ Sheet!Effective' = row'
  BY <1>1 DEF Sheet!EffectiveOf, Sheet!Effective
<1>3. /\ last'.moved = {c \in Sheet!Columns : row'[c] # Sheet!Effective[c]}
      /\ last'.named = named /\ (last'.fresh <=> row = Nothing)
  BY <1>2 DEF Sheet!Change
<1> SUFFICES ASSUME NEW c \in last'.moved \ last'.named
             PROVE  /\ last'.fresh /\ c \in DOMAIN tenant \cup {"language"}
                    /\ row'[c] = Sheet!SqlDefaults[c]
  BY <1>2 DEF Sheet!OnlyNamedMoves
<1>4. c \in Sheet!Columns \ named /\ row'[c] # Sheet!Effective[c] BY <1>3
<1>5. row = Nothing
  <2> SUFFICES ASSUME row # Nothing PROVE FALSE OBVIOUS
  <2>1. Sheet!Effective[c] = row[c] BY DEF Sheet!Effective, Sheet!EffectiveOf
  <2> QED BY <1>4, <2>1
<1>6. row'[c] = Sheet!SqlDefaults[c] BY <1>4, <1>5
<1>7. Sheet!Effective[c] = IF c \in DOMAIN tenant THEN tenant[c] ELSE Sheet!Defaults[c]
  BY <1>4, <1>5 DEF Sheet!Effective, Sheet!EffectiveOf, Sheet!Overlaid
<1>8. c \notin DOMAIN tenant => c = "language" BY <1>4, <1>6, <1>7, DefaultsAreGood
<1> QED BY <1>3, <1>5, <1>6, <1>8

LEMMA SettingsInvInit == Sheet!SettingsAssumption /\ Sheet!Init => SettingsInv
BY DEF Sheet!Init, SettingsInv, Sheet!OnlyNamedMoves

\* A write names some columns with what they may hold; those it leaves out of free are
\* good.
LEMMA WriteIsKept ==
  ASSUME SettingsInv, Sheet!SettingsAssumption, NEW values, DOMAIN values \subseteq Sheet!Columns,
         \A c \in DOMAIN values : values[c] \in Sheet!Stored,
         Sheet!SetConfig(values), free' \subseteq Sheet!Columns \ Sheet!V2Only,
         \/ free' = free /\ row' = row
         \/ /\ Sheet!Fits(values) /\ free \ DOMAIN values \subseteq free'
            /\ \A c \in DOMAIN values \ free' : Good(c, values[c])
  PROVE  SettingsInv'
<1>1. UNCHANGED tenant BY DEF Sheet!SetConfig
<1>2. CASE ~Sheet!Fits(values)
  BY <1>1, <1>2 DEF Sheet!SetConfig, SettingsInv, Sheet!OnlyNamedMoves, Sheet!Effective,
                    Sheet!EffectiveOf
<1>3. CASE Sheet!Fits(values)
  <2>1. row' = Sheet!Upsert(values) /\ last' = Sheet!Change(DOMAIN values)
    BY <1>3 DEF Sheet!SetConfig
  <2>2. \A c \in Sheet!Columns :
          /\ row'[c] = IF c \in DOMAIN values THEN values[c]
                       ELSE IF row = Nothing THEN Sheet!SqlDefaults[c] ELSE row[c]
          /\ Sheet!SqlDefaults[c] \in Sheet!Stored
    BY <2>1, DefaultsAreGood DEF Sheet!Upsert, Sheet!Overlaid, Good
  <2>3. row' \in [Sheet!Columns -> Sheet!Stored]
    <3>1. row' = [c \in Sheet!Columns |-> row'[c]] BY <2>1 DEF Sheet!Upsert, Sheet!Overlaid
    <3>2. \A c \in Sheet!Columns : row'[c] \in Sheet!Stored BY <2>2 DEF SettingsInv
    <3> QED BY <3>1, <3>2
  <2>4. row' # Nothing BY <2>3 DEF Sheet!SettingsAssumption
  <2>5. Sheet!OnlyNamedMoves' BY <1>1, <2>1, <2>2, <2>3, ChangeIsNamed
  <2>6. CASE free' = free /\ row' = row
    BY <1>1, <2>4, <2>5, <2>6 DEF SettingsInv
  <2>7. CASE /\ free \ DOMAIN values \subseteq free'
             /\ \A c \in DOMAIN values \ free' : Good(c, values[c])
    <3>1. ASSUME NEW c \in Sheet!Columns \ free' PROVE Good(c, row'[c])
      <4>1. CASE c \in DOMAIN values BY <2>2, <2>7, <4>1
      <4>2. CASE c \notin DOMAIN values
        <5>1. c \notin free BY <2>7, <4>2
        <5> QED BY <2>2, <4>2, <5>1, DefaultsAreGood DEF SettingsInv
      <4> QED BY <4>1, <4>2
    <3> QED BY <1>1, <2>3, <2>5, <3>1 DEF SettingsInv
  <2> QED BY <2>6, <2>7
<1> QED BY <1>2, <1>3

LEMMA PatchIsKept ==
  ASSUME SettingsInv, Sheet!SettingsAssumption, NEW patch, DOMAIN patch \subseteq Sheet!Columns,
         \A c \in DOMAIN patch : patch[c] \in Texts, Sheet!UpdateConfig(patch)
  PROVE  SettingsInv'
<1> DEFINE values == [c \in DOMAIN patch |-> CHOOSE v \in Sheet!Validated(c, patch[c]) : TRUE]
<1>1. /\ Sheet!SetConfig(values)
      /\ free' = (free \ DOMAIN patch) \cup ({"thread_posts"} \cap DOMAIN patch)
  BY DEF Sheet!UpdateConfig
<1>2. ASSUME NEW c \in DOMAIN patch
      PROVE  values[c] \in Sheet!Stored /\ (c # "thread_posts" => Good(c, values[c]))
  <2>1. values[c] \in Sheet!Validated(c, patch[c]) BY DEF Sheet!UpdateConfig
  <2> HIDE DEF values
  <2> QED BY <2>1, ValidatedIsGood
<1>3. DOMAIN values = DOMAIN patch OBVIOUS
<1> HIDE DEF values
<1>4. Sheet!Fits(values)
  <2> SUFFICES ASSUME NEW c \in DOMAIN values \cap Sheet!Counts
               PROVE  values[c] \in (-Widest)..Widest
    BY DEF Sheet!Fits
  <2>1. /\ values[c] \in Sheet!Bounds[c][1]..Sheet!Bounds[c][2]
        /\ Sheet!Bounds[c][1] \in Nat /\ Sheet!Bounds[c][2] \in Nat
    BY <1>2, <1>3, ColumnsAre DEF Good
  <2>2. Sheet!Bounds[c][2] <= Widest /\ Widest \in Nat BY DEF Sheet!SettingsAssumption
  <2> QED BY <2>1, <2>2
<1>5. free' \subseteq Sheet!Columns \ Sheet!V2Only BY <1>1, ColumnsAre DEF SettingsInv
<1>6. free \ DOMAIN values \subseteq free' /\ \A c \in DOMAIN values \ free' : Good(c, values[c])
  BY <1>1, <1>2, <1>3
<1> QED BY <1>1, <1>2, <1>3, <1>4, <1>5, <1>6, WriteIsKept

LEMMA ReplyIsKept ==
  ASSUME SettingsInv, Sheet!SettingsAssumption, NEW c \in Sheet!MenuColumns, NEW text \in Texts,
         Sheet!ApplyConfigReply(c, text)
  PROVE  SettingsInv'
<1>1. PICK v \in Sheet!ParseReplyValue(c, text) :
        /\ Sheet!SetConfig([x \in {c} |-> v])
        /\ free' = IF row' = row THEN free ELSE free \cup {c}
  BY DEF Sheet!ApplyConfigReply
<1>2. v \in Sheet!Stored /\ c \in Sheet!Columns \ Sheet!V2Only BY ParsedIsStored, ColumnsAre
<1>3. PICK values : values = [x \in {c} |-> v] OBVIOUS
<1>4. /\ Sheet!SetConfig(values) /\ DOMAIN values = {c}
      /\ \A x \in DOMAIN values : values[x] \in Sheet!Stored
  BY <1>1, <1>2, <1>3
<1>5. free' \subseteq Sheet!Columns \ Sheet!V2Only BY <1>1, <1>2 DEF SettingsInv
<1>6. row' # row => Sheet!Fits(values) BY <1>4 DEF Sheet!SetConfig
<1> QED BY <1>1, <1>2, <1>4, <1>5, <1>6, WriteIsKept

LEMMA JoinIsKept ==
  ASSUME SettingsInv, Sheet!SettingsAssumption, NEW code, Sheet!ApplyJoinLanguage(code)
  PROVE  SettingsInv'
<1>1. PICK values : values = [x \in {"language"} |-> Sheet!Word(Sheet!DeriveJoinLanguage(code))]
  OBVIOUS
<1>2. Sheet!DeriveJoinLanguage(code) \in {"pt", "es", "eng"} BY DEF Sheet!DeriveJoinLanguage
<1>3. /\ Sheet!SetConfig(values) /\ free' = free \ {"language"} /\ DOMAIN values = {"language"}
      /\ values["language"] = Sheet!Word(Sheet!DeriveJoinLanguage(code))
  BY <1>1 DEF Sheet!ApplyJoinLanguage
<1>4. Good("language", values["language"])
  BY <1>2, <1>3, ColumnsAre, TextsAre, LanguagesSpoken DEF Good
<1>5. Sheet!Fits(values) BY <1>3, ColumnsAre DEF Sheet!Fits
<1>6. values["language"] \in Sheet!Stored BY <1>4 DEF Good
<1> QED BY <1>3, <1>4, <1>5, <1>6, ColumnsAre, WriteIsKept DEF SettingsInv

LEMMA ImportIsKept ==
  ASSUME SettingsInv, Sheet!SettingsAssumption, NEW doc,
         DOMAIN doc \subseteq Sheet!Columns \ Sheet!V2Only,
         \A c \in DOMAIN doc : doc[c] \in Texts, Sheet!MapConfigs(doc)
  PROVE  SettingsInv'
<1> DEFINE values == [c \in Sheet!Columns |-> Sheet!Mapped(c, doc)]
<1>1. UNCHANGED tenant BY DEF Sheet!MapConfigs
<1>2. CASE ~Sheet!Fits(values)
  BY <1>1, <1>2 DEF Sheet!MapConfigs, SettingsInv, Sheet!OnlyNamedMoves, Sheet!Effective,
                    Sheet!EffectiveOf
<1>3. CASE Sheet!Fits(values)
  <2>1. /\ row' = IF row = Nothing THEN values
                  ELSE Sheet!Overlaid(values, Sheet!Restrict(row, Sheet!V2Only))
        /\ last' = Sheet!Change(IF row = Nothing THEN Sheet!Columns
                                ELSE Sheet!Columns \ Sheet!V2Only)
        /\ free' = DOMAIN doc \ {"thread_posts"}
    BY <1>3 DEF Sheet!MapConfigs
  <2>2. \A c \in Sheet!Columns :
          /\ Sheet!Mapped(c, doc) \in Sheet!Stored
          /\ c \notin free' => Good(c, Sheet!Mapped(c, doc))
    BY <2>1, MappedIsGood
  <2>3. /\ row' = [c \in Sheet!Columns |-> row'[c]]
        /\ \A c \in Sheet!Columns :
             row'[c] = IF row # Nothing /\ c \in Sheet!V2Only THEN row[c] ELSE Sheet!Mapped(c, doc)
    BY <2>1, ColumnsAre DEF Sheet!Overlaid, Sheet!Restrict
  <2>4. \A c \in Sheet!Columns : row'[c] \in Sheet!Stored BY <2>2, <2>3 DEF SettingsInv
  <2>5. row' \in [Sheet!Columns -> Sheet!Stored] BY <2>3, <2>4
  <2>6. Sheet!OnlyNamedMoves' BY <1>1, <2>1, <2>3, <2>5, ColumnsAre, ChangeIsNamed
  <2>7. \A c \in Sheet!Columns \ free' : Good(c, row'[c])
    BY <2>2, <2>3, ColumnsAre DEF SettingsInv
  <2>8. free' \subseteq Sheet!Columns \ Sheet!V2Only BY <2>1
  <2> QED BY <1>1, <2>5, <2>6, <2>7, <2>8 DEF SettingsInv
<1> QED BY <1>2, <1>3

LEMMA SettingsInvNext ==
  ASSUME Sheet!SettingsAssumption
  PROVE  SettingsInv /\ [Sheet!Next]_Sheet!settingsVars => SettingsInv'
<1> SUFFICES ASSUME SettingsInv, [Sheet!Next]_Sheet!settingsVars PROVE SettingsInv' OBVIOUS
<1>1. ASSUME NEW c \in Sheet!MenuColumns, NEW text \in Sheet!Texts,
             Sheet!ApplyConfigReply(c, text)
      PROVE  SettingsInv'
  BY <1>1, TextsAre, ReplyIsKept
<1>2. ASSUME NEW c \in Sheet!Columns, NEW text \in Sheet!Texts,
             Sheet!UpdateConfig([x \in {c} |-> text])
      PROVE  SettingsInv'
  <2>1. PICK patch : patch = [x \in {c} |-> text] OBVIOUS
  <2>2. /\ DOMAIN patch \subseteq Sheet!Columns /\ Sheet!UpdateConfig(patch)
        /\ \A x \in DOMAIN patch : patch[x] \in Texts
    BY <1>2, <2>1, TextsAre
  <2> QED BY <2>2, PatchIsKept
<1>3. ASSUME NEW c \in Sheet!Columns, NEW text \in Sheet!Texts,
             NEW other \in {Sheet!Number(0), Sheet!Word("no")},
             Sheet!UpdateConfig([x \in {c, "sfw"} |-> IF x = c THEN text ELSE other])
      PROVE  SettingsInv'
  <2>1. PICK patch : patch = [x \in {c, "sfw"} |-> IF x = c THEN text ELSE other] OBVIOUS
  <2>2. "sfw" \in Sheet!Columns BY DEF Sheet!Columns, Sheet!Switches
  <2>3. /\ DOMAIN patch \subseteq Sheet!Columns /\ Sheet!UpdateConfig(patch)
        /\ \A x \in DOMAIN patch : patch[x] \in Texts
    BY <1>3, <2>1, <2>2, TextsAre
  <2> QED BY <2>3, PatchIsKept
<1>4. ASSUME NEW code, Sheet!ApplyJoinLanguage(code) PROVE SettingsInv' BY <1>4, JoinIsKept
<1>5. ASSUME NEW c \in Sheet!Columns \ Sheet!V2Only, NEW text \in Sheet!Texts,
             Sheet!MapConfigs([x \in {c} |-> text])
      PROVE  SettingsInv'
  <2>1. PICK doc : doc = [x \in {c} |-> text] OBVIOUS
  <2>2. /\ DOMAIN doc \subseteq Sheet!Columns \ Sheet!V2Only /\ Sheet!MapConfigs(doc)
        /\ \A x \in DOMAIN doc : doc[x] \in Texts
    BY <1>5, <2>1, TextsAre
  <2> QED BY <2>2, ImportIsKept
<1>6. CASE Sheet!Forget BY <1>6 DEF Sheet!Forget, SettingsInv, Sheet!OnlyNamedMoves
<1>7. CASE UNCHANGED Sheet!settingsVars
  BY <1>7 DEF Sheet!settingsVars, SettingsInv, Sheet!OnlyNamedMoves, Sheet!Effective,
              Sheet!EffectiveOf
<1> QED BY <1>1, <1>2, <1>3, <1>4, <1>5, <1>6, <1>7 DEF Sheet!Next

\* For any words, numbers, tenants and writes: a change moves what it names, no default
\* is out of the form's bounds, all readers read the same settings and language, and
\* v1's sentinel never becomes a topic.
THEOREM SettingsAgree ==
  ASSUME Sheet!SettingsAssumption
  PROVE  Sheet!Spec => []Sheet!SettingsHold
<1>1. SettingsInv => Sheet!SettingsHold
  <2> SUFFICES ASSUME SettingsInv PROVE Sheet!SettingsHold OBVIOUS
  <2>1. ASSUME NEW c \in Sheet!Columns \ free PROVE Good(c, Sheet!Effective[c]) 
                                                    \/ (row = Nothing /\ c \in DOMAIN tenant)
    <3>1. CASE row # Nothing
      BY <3>1 DEF SettingsInv, Sheet!Effective, Sheet!EffectiveOf
    <3>2. CASE row = Nothing /\ c \notin DOMAIN tenant
      BY <3>2, DefaultsAreGood DEF Sheet!Effective, Sheet!EffectiveOf, Sheet!Overlaid
    <3> QED BY <3>1, <3>2
  <2>2. DOMAIN tenant \subseteq Sheet!Switches BY DEF SettingsInv, Sheet!SettingsAssumption
  <2>3. Sheet!BoundsKept BY <2>1, <2>2, ColumnsAre DEF Sheet!BoundsKept, Good
  <2>4. Sheet!NoSentinel BY <2>1, <2>2, ColumnsAre DEF Sheet!NoSentinel, Good
  <2>5. Sheet!ReadersAgree
    <3> DEFINE read == {"publisher_post", "sfw", "publisher_members_only", "max_posts", "language"}
    <3>1. /\ DOMAIN Sheet!Targeted = read /\ read \subseteq Sheet!Columns
          /\ \A c \in read :
               Sheet!Targeted[c] = IF row = Nothing THEN Sheet!SqlDefaults[c] ELSE row[c]
      BY DEF Sheet!Targeted, Sheet!Columns, Sheet!Switches, Sheet!Counts, Sheet!Bounds
    <3> HIDE DEF read
    <3>2. row # Nothing => \A c \in read : Sheet!Targeted[c] = Sheet!Effective[c]
      BY <3>1 DEF Sheet!Effective, Sheet!EffectiveOf
    <3>3. ASSUME NEW c \in read, c # "language", c \notin DOMAIN tenant
          PROVE  Sheet!Targeted[c] = Sheet!Effective[c]
      BY <3>1, <3>3, DefaultsAreGood DEF Sheet!Effective, Sheet!EffectiveOf, Sheet!Overlaid
    <3>4. ASSUME row # Nothing, "language" \notin free
          PROVE  (Sheet!Version = "pt") <=> (Sheet!ResolveLanguage(Sheet!Effective["language"]) = "pt")
      <4>1. "language" \in read BY DEF read
      <4>2. Spoken(Sheet!Effective["language"]) BY <2>1, <3>1, <3>4, <4>1 DEF Good
      <4> QED BY <3>2, <3>4, <4>1, <4>2 DEF Sheet!Version, Spoken
    <3> QED BY <3>1, <3>2, <3>3, <3>4 DEF Sheet!ReadersAgree
  <2> QED BY <2>3, <2>4, <2>5 DEF Sheet!SettingsHold, SettingsInv
<1> QED BY <1>1, SettingsInvInit, SettingsInvNext, PTL DEF Sheet!Spec

=============================================================================
