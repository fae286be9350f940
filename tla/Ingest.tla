------------------------------- MODULE Ingest -------------------------------
(***************************************************************************)
(* Updates from Telegram to the handlers, once each: the webhook route of  *)
(* cb_gateway/main.py, DedupeMiddleware, and the ring of recent ids of     *)
(* cb_core/dedupe.py.                                                      *)
(*                                                                         *)
(* Telegram posts an update of some bot (skin) to any replica, again and   *)
(* again until it gets a 200, and may post it again while the first        *)
(* delivery is still being worked on.  A replica, which serves every bot,  *)
(* looks the id up in its one ring, then claims (skin, id) in Valkey, then *)
(* runs the handlers and answers 200 whatever they did.  Each bot counts   *)
(* its updates on its own: two bots may come to the same id.               *)
(***************************************************************************)
EXTENDS Integers, Sequences, FiniteSets

CONSTANTS
  Replicas,    \* gateway processes
  Incoming,    \* updates Telegram has for us: records with a skin and an id
  Capacity,    \* of RecentIds
  Slots,       \* deliveries being served at once
  MaxPosts     \* bound: deliveries

ASSUME IngestAssumptions ==
  /\ Capacity \in Nat \ {0}
  /\ MaxPosts \in Nat

VARIABLES
  owed,       \* updates Telegram has had no 200 for
  posts,      \* deliveries so far
  ring,       \* each replica's RecentIds: its set, its slots and its head
  claimed,    \* cb:upd:<skin>:<id> keys in Valkey
  task,       \* what each slot is doing
  handled,    \* ghost: times the handlers ran for each update
  recorded,   \* ghost: ids each ring recorded, in that order
  met,        \* ghost: updates each replica let past its ring since it started
  mistaken,   \* ghost: updates a ring dropped that had not let them past
  unclaimed,  \* ghost: updates whose claim failed or was gone too early
  dropped     \* ghost: updates a replica died with before their handlers ran

ghosts == <<handled, recorded, met, mistaken, unclaimed, dropped>>
vars   == <<owed, posts, ring, claimed, task, ghosts>>

-----------------------------------------------------------------------------
Ids == {u.id : u \in Incoming}

NoId == 0   \* what the slots of a new ring hold

Places == 0 .. Capacity - 1

Ring == [ids : SUBSET Ids, order : [Places -> Ids \cup {NoId}], head : Places]

NewRing == [ids |-> {}, order |-> [i \in Places |-> NoId], head |-> 0]

Idle == [pc |-> "idle"]

Task == {Idle} \cup [pc : {"claim", "handle", "reply"}, at : Replicas, u : Incoming]

TypeOK ==
  /\ owed \subseteq Incoming
  /\ posts \in 0 .. MaxPosts
  /\ ring \in [Replicas -> Ring]
  /\ claimed \subseteq Incoming
  /\ task \in [Slots -> Task]
  /\ handled \in [Incoming -> 0 .. MaxPosts]
  /\ \A r \in Replicas : Len(recorded[r]) <= MaxPosts
  /\ met \in [Replicas -> SUBSET Incoming]
  /\ mistaken \subseteq Incoming
  /\ unclaimed \subseteq Incoming
  /\ dropped \subseteq Incoming

Init ==
  /\ owed = Incoming
  /\ posts = 0
  /\ ring = [r \in Replicas |-> NewRing]
  /\ claimed = {}
  /\ task = [h \in Slots |-> Idle]
  /\ handled = [u \in Incoming |-> 0]
  /\ recorded = [r \in Replicas |-> <<>>]
  /\ met = [r \in Replicas |-> {}]
  /\ mistaken = {}
  /\ unclaimed = {}
  /\ dropped = {}

\* Some replica has a delivery of u.
Served(u) == \E h \in Slots : task[h] # Idle /\ task[h].u = u

-----------------------------------------------------------------------------
(* A full ring that is cleared, as v1's set was.                           *)
Evict_All(g) == IF Cardinality(g.ids) >= Capacity THEN {} ELSE g.ids

(* The ids a ring keeps when one more is recorded.                         *)
Evict(g) ==
  IF Cardinality(g.ids) >= Capacity THEN g.ids \ {g.order[g.head]} ELSE g.ids

(* A head that runs past the last slot.                                    *)
Record_NoWrap(g, x) ==
  [ids |-> Evict(g) \cup {x}, order |-> [g.order EXCEPT ![g.head] = x],
   head |-> IF g.head + 1 > Capacity THEN 0 ELSE g.head + 1]

(* An id that goes into its slot and not into the set.                     *)
Record_NoAdd(g, x) ==
  [ids |-> Evict(g), order |-> [g.order EXCEPT ![g.head] = x],
   head |-> IF g.head + 1 >= Capacity THEN 0 ELSE g.head + 1]

Record(g, x) ==
  [ids |-> Evict(g) \cup {x}, order |-> [g.order EXCEPT ![g.head] = x],
   head |-> IF g.head + 1 >= Capacity THEN 0 ELSE g.head + 1]

(* Telegram posts u to replica r; seen() answers before anything awaits.   *)
Post(h, r, u) ==
  LET repeat == u.id \in ring[r].ids IN
  /\ task[h] = Idle
  /\ u \in owed
  /\ posts < MaxPosts
  /\ posts' = posts + 1
  /\ ring' = [ring EXCEPT ![r] = IF repeat THEN @ ELSE Record(@, u.id)]
  /\ task' = [task EXCEPT ![h] =
       [pc |-> IF repeat THEN "reply" ELSE "claim", at |-> r, u |-> u]]
  /\ recorded' = [recorded EXCEPT ![r] = IF repeat THEN @ ELSE Append(@, u.id)]
  /\ met' = [met EXCEPT ![r] = IF repeat THEN @ ELSE @ \cup {u}]
  /\ mistaken' = IF repeat /\ u \notin met[r] THEN mistaken \cup {u} ELSE mistaken
  /\ UNCHANGED <<owed, claimed, handled, unclaimed, dropped>>

(* A GET followed by a SET: nobody is turned away.                         *)
Claim_Unconditional(h) ==
  /\ task[h].pc = "claim"
  /\ claimed' = claimed \cup {task[h].u}
  /\ task' = [task EXCEPT ![h].pc = "handle"]
  /\ UNCHANGED <<owed, posts, ring, ghosts>>

(* A SET NX read the wrong way round.                                      *)
Claim_Inverted(h) ==
  /\ task[h].pc = "claim"
  /\ claimed' = claimed \cup {task[h].u}
  /\ task' = [task EXCEPT ![h].pc = IF task[h].u \in claimed THEN "handle" ELSE "reply"]
  /\ UNCHANGED <<owed, posts, ring, ghosts>>

(* SET NX on the update's key.                                             *)
Claim(h) ==
  /\ task[h].pc = "claim"
  /\ claimed' = claimed \cup {task[h].u}
  /\ task' = [task EXCEPT ![h].pc = IF task[h].u \in claimed THEN "reply" ELSE "handle"]
  /\ UNCHANGED <<owed, posts, ring, ghosts>>

(* Valkey raised, with the key set or not: the update goes through.        *)
ClaimFails(h) ==
  /\ task[h].pc = "claim"
  /\ claimed' \in {claimed, claimed \cup {task[h].u}}
  /\ task' = [task EXCEPT ![h].pc = "handle"]
  /\ unclaimed' = unclaimed \cup {task[h].u}
  /\ UNCHANGED <<owed, posts, ring, handled, recorded, met, mistaken, dropped>>

(* The handlers run; an exception of theirs is swallowed by the route.     *)
Handle(h) ==
  /\ task[h].pc = "handle"
  /\ handled' = [handled EXCEPT ![task[h].u] = @ + 1]
  /\ task' = [task EXCEPT ![h].pc = "reply"]
  /\ UNCHANGED <<owed, posts, ring, claimed, recorded, met, mistaken, unclaimed, dropped>>

(* The 200, which Telegram may not get.                                    *)
Reply(h) ==
  /\ task[h].pc = "reply"
  /\ owed' \in {owed, owed \ {task[h].u}}
  /\ task' = [task EXCEPT ![h] = Idle]
  /\ UNCHANGED <<posts, ring, claimed, ghosts>>

(* A replica dies and comes back with an empty ring.  What it was serving  *)
(* gets no 200.                                                            *)
Crash(r) ==
  LET serving == {h \in Slots : task[h] # Idle /\ task[h].at = r} IN
  /\ ring' = [ring EXCEPT ![r] = NewRing]
  /\ recorded' = [recorded EXCEPT ![r] = <<>>]
  /\ met' = [met EXCEPT ![r] = {}]
  /\ task' = [h \in Slots |-> IF h \in serving THEN Idle ELSE task[h]]
  /\ dropped' = dropped \cup {task[h].u : h \in {k \in serving : task[k].pc # "reply"}}
  /\ UNCHANGED <<owed, posts, claimed, handled, mistaken, unclaimed>>

(* The ten minutes of a claim are over, in time if Telegram has its 200.   *)
ExpireClaim(u) ==
  /\ u \in claimed
  /\ claimed' = claimed \ {u}
  /\ unclaimed' = IF u \in owed \/ Served(u) THEN unclaimed \cup {u} ELSE unclaimed
  /\ UNCHANGED <<owed, posts, ring, task, handled, recorded, met, mistaken, dropped>>

Deliver(u) == \E h \in Slots, r \in Replicas : Post(h, r, u)

Step(h) == Claim(h) \/ ClaimFails(h) \/ Handle(h) \/ Reply(h)

Next ==
  \/ \E u \in Incoming : Deliver(u) \/ ExpireClaim(u)
  \/ \E h \in Slots : Step(h)
  \/ \E r \in Replicas : Crash(r)

Spec == Init /\ [][Next]_vars

-----------------------------------------------------------------------------
(* "replicas do not both handle the same redelivery" (middlewares.py:142): *)
(* however often and wherever an update is delivered, whatever the rings   *)
(* have forgotten by then and whoever crashes, its handlers run once, as   *)
(* long as Valkey answered its claims and kept them.                       *)
HandledOnce == \A u \in Incoming \ unclaimed : handled[u] <= 1

\* A delivery of u that will still run the handlers, or lose the claim to one.
InHand(u) == \E h \in Slots : task[h] # Idle /\ task[h].u = u /\ task[h].pc # "reply"

(* "Drop repeats" (middlewares.py:139), and only repeats: an update that   *)
(* was answered with a 200 has been handled or is about to be, unless a    *)
(* replica died between knowing or claiming it and its handlers, or the    *)
(* ring, which knows ids and not whose they are (middlewares.py:158), had  *)
(* let past another bot's update of that id.                               *)
NoLoss ==
  \A u \in Incoming \ (owed \cup dropped) :
    \/ handled[u] > 0 \/ InHand(u)
    \/ u \in mistaken /\ \E v \in Incoming \ {u} : v.id = u.id

\* The last n members of s.
Last(s, n) == {s[i] : i \in {k \in DOMAIN s : k > Len(s) - n}}

(* What the ring of slots, head and set amounts to: exactly the Capacity   *)
(* ids recorded last are known, at every fill level and wrap-around.       *)
RecordedWindow == \A r \in Replicas : ring[r].ids = Last(recorded[r], Capacity)

=============================================================================
