---------------------------- MODULE IngestProofs ----------------------------
(***************************************************************************)
(* Proofs about Ingest, for any number of replicas, updates and deliveries.*)
(*                                                                         *)
(* HandledOnce rests on the claim alone: while Telegram may still deliver  *)
(* an update that was handled or is being handled, its claim is held.      *)
(* NoLoss rests on where an update is known: a claim has a handler running *)
(* or done behind it; a ring that let the update past, or a 200, has at    *)
(* least a delivery in hand, or another bot's update of the same id.       *)
(*                                                                         *)
(* UpdatesHaveOneFate, at the end, is about what comes after: one update   *)
(* on its way along the chain of Dispatch.                                 *)
(***************************************************************************)
EXTENDS Ingest, FiniteSetTheorems, WellFoundedInduction, TLAPS

Types ==
  /\ owed \subseteq Incoming
  /\ ring \in [Replicas -> Ring]
  /\ task \in [Slots -> Task]
  /\ handled \in [Incoming -> Nat]

\* Slot h has a delivery of u, at label l.
Doing(h, u, l) == task[h].pc = l /\ task[h].u = u

Handling(u) == \E h \in Slots : Doing(h, u, "handle")

Replying(u) == \E h \in Slots : Doing(h, u, "reply")

\* The handlers of u run once: at most one slot is about to run them, and it
\* or its trace is protected by the claim for as long as u may come again.
OnceFor(u) ==
  u \notin unclaimed =>
    /\ handled[u] <= 1
    /\ Handling(u) => u \in claimed /\ handled[u] = 0
    /\ \A g, h \in Slots : Doing(g, u, "handle") /\ Doing(h, u, "handle") => g = h
    /\ handled[u] > 0 /\ (u \in owed \/ Served(u)) => u \in claimed

Once == \A u \in Incoming : OnceFor(u)

\* A delivery that Task says is there is at one of the three labels.
LEMMA BusyTask ==
  ASSUME Types, NEW h \in Slots, task[h] # Idle
  PROVE  task[h] \in [pc : {"claim", "handle", "reply"}, at : Replicas, u : Incoming]
BY DEF Types, Task

\* A step that only moves slot h from one label to another.
LEMMA MoveTypes ==
  ASSUME Types, NEW h \in Slots, task[h].pc # "idle",
         NEW l \in {"claim", "handle", "reply"}, task' = [task EXCEPT ![h].pc = l]
  PROVE  /\ task' \in [Slots -> Task]
         /\ task'[h].pc = l
         /\ task'[h].u = task[h].u
         /\ task[h].u \in Incoming
         /\ task'[h] # Idle
         /\ \A g \in Slots \ {h} : task'[g] = task[g]
<1>1. task[h] \in [pc : {"claim", "handle", "reply"}, at : Replicas, u : Incoming]
  BY BusyTask DEF Idle
<1>2. task'[h] = [task[h] EXCEPT !.pc = l]
  BY DEF Types
<1>3. task'[h] \in [pc : {"claim", "handle", "reply"}, at : Replicas, u : Incoming]
  BY <1>1, <1>2
<1>4. task'[h].pc = l /\ task'[h].u = task[h].u
  BY <1>1, <1>2
<1>5. task' \in [Slots -> Task]
  BY <1>3 DEF Types, Task
<1>6. \A g \in Slots \ {h} : task'[g] = task[g]
  BY DEF Types
<1> QED
  BY <1>1, <1>4, <1>5, <1>6 DEF Idle

LEMMA RecordType ==
  ASSUME NEW g \in Ring, NEW x \in Ids
  PROVE  /\ Record(g, x) \in Ring
         /\ Record(g, x).ids \subseteq g.ids \cup {x}
<1>1. Evict(g) \subseteq g.ids
  BY DEF Evict
<1>2. g.head \in Places /\ g.order \in [Places -> Ids \cup {NoId}]
  BY DEF Ring
<1>3. (IF g.head + 1 >= Capacity THEN 0 ELSE g.head + 1) \in Places
  BY <1>2, IngestAssumptions DEF Places
<1>4. [g.order EXCEPT ![g.head] = x] \in [Places -> Ids \cup {NoId}]
  BY <1>2
<1> QED
  BY <1>1, <1>3, <1>4 DEF Record, Ring

-----------------------------------------------------------------------------
LEMMA StepTypes == Types /\ [Next]_vars => Types'
<1> SUFFICES ASSUME Types, [Next]_vars PROVE Types'
  OBVIOUS
<1>1. ASSUME NEW h \in Slots, NEW r \in Replicas, NEW u \in Incoming, Post(h, r, u)
      PROVE  Types'
  <2>1. u.id \in Ids
    BY DEF Ids
  <2>2. ring' \in [Replicas -> Ring]
    BY <1>1, <2>1, RecordType DEF Post, Types
  <2>3. task' \in [Slots -> Task]
    BY <1>1 DEF Post, Types, Task
  <2> QED
    BY <1>1, <2>2, <2>3 DEF Post, Types
<1>2. ASSUME NEW h \in Slots, Claim(h) \/ ClaimFails(h)
      PROVE  Types'
  BY <1>2, MoveTypes DEF Claim, ClaimFails, Types, ghosts
<1>3. ASSUME NEW h \in Slots, Handle(h)
      PROVE  Types'
  <2>1. task' \in [Slots -> Task] /\ task[h].u \in Incoming
    BY <1>3, MoveTypes DEF Handle
  <2>2. handled' \in [Incoming -> Nat]
    BY <1>3, <2>1 DEF Handle, Types
  <2> QED
    BY <1>3, <2>1, <2>2 DEF Handle, Types
<1>4. ASSUME NEW h \in Slots, Reply(h)
      PROVE  Types'
  BY <1>4 DEF Reply, Types, Task, ghosts
<1>5. ASSUME NEW r \in Replicas, Crash(r)
      PROVE  Types'
  <2>1. NewRing \in Ring
    BY IngestAssumptions DEF NewRing, Ring, Places
  <2> QED
    BY <1>5, <2>1 DEF Crash, Types, Task
<1>6. ASSUME NEW u \in Incoming, ExpireClaim(u)
      PROVE  Types'
  BY <1>6 DEF ExpireClaim, Types
<1>7. CASE UNCHANGED vars
  BY <1>7 DEF vars, ghosts, Types
<1> QED
  BY <1>1, <1>2, <1>3, <1>4, <1>5, <1>6, <1>7 DEF Next, Deliver, Step

(* A step that starts no handler keeps OnceFor(u), if what may still be    *)
(* delivered of u and its claim stay, or the ghost says they do not.       *)
LEMMA QuietOnce ==
  ASSUME NEW u \in Incoming, OnceFor(u),
         unclaimed' = unclaimed, claimed \subseteq claimed', handled' = handled,
         \A h \in Slots : Doing(h, u, "handle")' => Doing(h, u, "handle"),
         (u \in owed \/ Served(u))' => (u \in owed \/ Served(u))
  PROVE  OnceFor(u)'
BY DEF OnceFor, Handling

LEMMA PostOnce ==
  ASSUME Types, NEW u \in Incoming, OnceFor(u),
         NEW h \in Slots, NEW r \in Replicas, NEW v \in Incoming, Post(h, r, v)
  PROVE  OnceFor(u)'
<1>1. /\ task'[h].pc \in {"claim", "reply"}
      /\ task'[h].u = v
      /\ \A g \in Slots \ {h} : task'[g] = task[g]
  BY DEF Post, Types
<1>2. \A g \in Slots : Doing(g, u, "handle")' => Doing(g, u, "handle")
  BY <1>1 DEF Doing
<1>3. Served(u)' => Served(u) \/ u = v
  BY <1>1 DEF Served
<1>4. v \in owed
  BY DEF Post
<1> QED
  BY <1>2, <1>3, <1>4, QuietOnce DEF Post

LEMMA ClaimOnce ==
  ASSUME Types, NEW u \in Incoming, OnceFor(u), NEW h \in Slots, Claim(h)
  PROVE  OnceFor(u)'
<1> DEFINE l == IF task[h].u \in claimed THEN "reply" ELSE "handle"
<1>1. /\ task'[h].pc = l
      /\ task'[h].u = task[h].u
      /\ task'[h] # Idle
      /\ \A g \in Slots \ {h} : task'[g] = task[g]
  BY MoveTypes DEF Claim
<1>2. task[h].pc = "claim" /\ task[h] # Idle
  BY DEF Claim, Idle
<1>3. Served(u)' => Served(u)
  BY <1>1, <1>2 DEF Served
<1>4. CASE u # task[h].u \/ u \in claimed
  <2>1. \A g \in Slots : Doing(g, u, "handle")' => Doing(g, u, "handle")
    BY <1>1, <1>4 DEF Doing
  <2> QED
    BY <1>3, <2>1, QuietOnce DEF Claim, ghosts
<1>5. CASE u = task[h].u /\ u \notin claimed
  <2>1. u \notin unclaimed => ~ Handling(u) /\ ~ handled[u] > 0
    BY <1>2, <1>5 DEF OnceFor, Served
  <2>2. handled[u] \in Nat
    BY DEF Types
  <2>3. \A g \in Slots : Doing(g, u, "handle")' => Doing(g, u, "handle") \/ g = h
    BY <1>1 DEF Doing
  <2> QED
    BY <1>5, <2>1, <2>2, <2>3 DEF Claim, ghosts, OnceFor, Handling
<1> QED
  BY <1>4, <1>5

LEMMA ClaimFailsOnce ==
  ASSUME Types, NEW u \in Incoming, OnceFor(u), NEW h \in Slots, ClaimFails(h)
  PROVE  OnceFor(u)'
<1>1. /\ task'[h].u = task[h].u
      /\ \A g \in Slots \ {h} : task'[g] = task[g]
  BY MoveTypes DEF ClaimFails
<1>2. CASE u = task[h].u
  BY <1>2 DEF ClaimFails, OnceFor
<1>3. CASE u # task[h].u
  <2>1. \A g \in Slots : Doing(g, u, "handle")' => Doing(g, u, "handle")
    BY <1>1, <1>3 DEF Doing
  <2>2. Served(u)' => Served(u)
    BY <1>1, <1>3 DEF Served
  <2>3. u \in unclaimed' <=> u \in unclaimed
    BY <1>3 DEF ClaimFails
  <2> QED
    BY <2>1, <2>2, <2>3 DEF ClaimFails, OnceFor, Handling
<1> QED
  BY <1>2, <1>3

LEMMA HandleOnce ==
  ASSUME Types, NEW u \in Incoming, OnceFor(u), NEW h \in Slots, Handle(h)
  PROVE  OnceFor(u)'
<1>1. /\ task'[h].pc = "reply"
      /\ task'[h].u = task[h].u
      /\ task'[h] # Idle
      /\ \A g \in Slots \ {h} : task'[g] = task[g]
  BY MoveTypes DEF Handle
<1>2. Doing(h, task[h].u, "handle") /\ task[h] # Idle
  BY DEF Handle, Doing, Idle
<1>3. \A g \in Slots : Doing(g, u, "handle")' => Doing(g, u, "handle") /\ g # h
  BY <1>1 DEF Doing
<1>4. Served(u)' => Served(u)
  BY <1>1, <1>2 DEF Served
<1>5. CASE u # task[h].u
  <2>1. handled'[u] = handled[u]
    BY <1>5 DEF Handle, Types
  <2> QED
    BY <1>3, <1>4, <2>1 DEF Handle, OnceFor, Handling
<1>6. CASE u = task[h].u
  <2>1. handled'[u] = handled[u] + 1
    BY <1>6 DEF Handle, Types
  <2>2. u \notin unclaimed => handled[u] = 0 /\ u \in claimed
    BY <1>2, <1>6 DEF OnceFor, Handling
  <2>3. u \notin unclaimed => ~ Handling(u)'
    BY <1>2, <1>3, <1>6 DEF OnceFor, Handling
  <2> QED
    BY <1>3, <2>1, <2>2, <2>3 DEF Handle, OnceFor, Handling
<1> QED
  BY <1>5, <1>6

LEMMA ReplyOnce ==
  ASSUME Types, NEW u \in Incoming, OnceFor(u), NEW h \in Slots, Reply(h)
  PROVE  OnceFor(u)'
<1>1. /\ task'[h] = Idle
      /\ \A g \in Slots \ {h} : task'[g] = task[g]
  BY DEF Reply, Types
<1>2. \A g \in Slots : Doing(g, u, "handle")' => Doing(g, u, "handle")
  BY <1>1 DEF Doing, Idle
<1>3. (u \in owed \/ Served(u))' => (u \in owed \/ Served(u))
  BY <1>1 DEF Served, Reply
<1> QED
  BY <1>2, <1>3, QuietOnce DEF Reply, ghosts

LEMMA CrashOnce ==
  ASSUME Types, NEW u \in Incoming, OnceFor(u), NEW r \in Replicas, Crash(r)
  PROVE  OnceFor(u)'
<1>1. \A g \in Slots : task'[g] \in {Idle, task[g]}
  BY DEF Crash, Types
<1>2. \A g \in Slots : Doing(g, u, "handle")' => Doing(g, u, "handle")
  BY <1>1 DEF Doing, Idle
<1>3. Served(u)' => Served(u)
  BY <1>1 DEF Served
<1> QED
  BY <1>2, <1>3, QuietOnce DEF Crash

LEMMA ExpireOnce ==
  ASSUME NEW u \in Incoming, OnceFor(u), NEW v \in Incoming, ExpireClaim(v)
  PROVE  OnceFor(u)'
<1>1. \A g \in Slots : Doing(g, u, "handle")' = Doing(g, u, "handle")
  BY DEF ExpireClaim, Doing
<1>2. Served(u)' = Served(u)
  BY DEF ExpireClaim, Served
<1>3. CASE u # v
  BY <1>1, <1>2, <1>3 DEF ExpireClaim, OnceFor, Handling
<1>4. CASE u = v /\ (u \in owed \/ Served(u))
  BY <1>4 DEF ExpireClaim, OnceFor
<1>5. CASE u = v /\ u \notin owed /\ ~ Served(u)
  <2>1. ~ Handling(u)
    BY <1>5 DEF Handling, Doing, Served, Idle
  <2> QED
    BY <1>1, <1>2, <1>5, <2>1 DEF ExpireClaim, OnceFor, Handling
<1> QED
  BY <1>3, <1>4, <1>5

LEMMA StepOnce == Types /\ Once /\ [Next]_vars => Once'
<1> SUFFICES ASSUME Types, NEW u \in Incoming, OnceFor(u), [Next]_vars PROVE OnceFor(u)'
  BY DEF Once
<1>1. CASE UNCHANGED vars
  BY <1>1 DEF vars, ghosts, OnceFor, Handling, Doing, Served
<1> QED
  BY <1>1, PostOnce, ClaimOnce, ClaimFailsOnce, HandleOnce, ReplyOnce, CrashOnce,
     ExpireOnce DEF Next, Deliver, Step

(* The types and the once-invariant hold in every reachable state.         *)
THEOREM OnceInvariance == Spec => [](Types /\ Once)
<1>1. Init => Types
  <2>1. NewRing \in Ring
    BY IngestAssumptions DEF NewRing, Ring, Places
  <2> QED
    BY <2>1 DEF Init, Types, Task
<1>2. Init => Once
  BY DEF Init, Once, OnceFor, Handling, Doing, Idle
<1> QED
  BY <1>1, <1>2, StepTypes, StepOnce, PTL DEF Spec

(* However many replicas get however many deliveries of an update, crash   *)
(* and forget it, its handlers run once, unless its claim failed or was    *)
(* gone while Telegram could still deliver it.                             *)
THEOREM RunOnce == Spec => []HandledOnce
<1>1. Once => HandledOnce
  BY DEF Once, OnceFor, HandledOnce
<1> QED
  BY <1>1, OnceInvariance, PTL

-----------------------------------------------------------------------------
\* What stands behind a 200: handlers that ran or will, or another's id.
Settled(u) ==
  \/ handled[u] > 0 \/ InHand(u)
  \/ u \in mistaken /\ \E v \in Incoming \ {u} : v.id = u.id

\* Where an update that is not dropped is known, and what stands behind it.
KnownFor(u) ==
  u \notin dropped =>
    /\ u \in claimed => handled[u] > 0 \/ Handling(u)
    /\ u \notin owed \/ Replying(u) => Settled(u)
    /\ (\E r \in Replicas : u \in met[r]) => handled[u] > 0 \/ InHand(u)

\* A ring knows the ids of updates it let past, and no others.
RingsMet ==
  /\ met \in [Replicas -> SUBSET Incoming]
  /\ \A r \in Replicas : \A x \in ring[r].ids : \E v \in met[r] : v.id = x

Known == RingsMet /\ \A u \in Incoming : KnownFor(u)

LEMMA StepRingsMet == Types /\ RingsMet /\ [Next]_vars => RingsMet'
<1> SUFFICES ASSUME Types, RingsMet, [Next]_vars PROVE RingsMet'
  OBVIOUS
<1>1. ASSUME NEW h \in Slots, NEW r \in Replicas, NEW u \in Incoming, Post(h, r, u)
      PROVE  RingsMet'
  <2>1. met' \in [Replicas -> SUBSET Incoming] /\ \A q \in Replicas : met[q] \subseteq met'[q]
    BY <1>1 DEF Post, RingsMet
  <2>2. ASSUME NEW q \in Replicas, NEW x \in ring'[q].ids
        PROVE  \E v \in met'[q] : v.id = x
    <3>1. u.id \in Ids /\ ring[q] \in Ring
      BY DEF Ids, Types
    <3>2. \/ ring'[q] = ring[q]
          \/ q = r /\ ring'[q] = Record(ring[q], u.id) /\ u \in met'[q]
      BY <1>1 DEF Post, Types, RingsMet
    <3>3. Record(ring[q], u.id).ids \subseteq ring[q].ids \cup {u.id}
      BY <3>1, RecordType
    <3>4. x \in ring[q].ids \/ (x = u.id /\ u \in met'[q])
      BY <2>2, <3>2, <3>3
    <3>5. x \in ring[q].ids => \E v \in met[q] : v.id = x
      BY DEF RingsMet
    <3> QED
      BY <2>1, <3>4, <3>5
  <2> QED
    BY <2>1, <2>2 DEF RingsMet
<1>2. ASSUME NEW r \in Replicas, Crash(r)
      PROVE  RingsMet'
  BY <1>2 DEF Crash, RingsMet, Types, NewRing
<1>3. ASSUME NEW h \in Slots, Step(h)
      PROVE  RingsMet'
  BY <1>3 DEF Step, Claim, ClaimFails, Handle, Reply, ghosts, RingsMet
<1>4. ASSUME NEW u \in Incoming, ExpireClaim(u)
      PROVE  RingsMet'
  BY <1>4 DEF ExpireClaim, RingsMet
<1>5. CASE UNCHANGED vars
  BY <1>5 DEF vars, ghosts, RingsMet
<1> QED
  BY <1>1, <1>2, <1>3, <1>4, <1>5 DEF Next, Deliver

LEMMA PostKnown ==
  ASSUME Types, RingsMet, NEW u \in Incoming, KnownFor(u),
         NEW h \in Slots, NEW r \in Replicas, NEW v \in Incoming, Post(h, r, v)
  PROVE  KnownFor(u)'
<1> DEFINE repeat == v.id \in ring[r].ids
<1>1. /\ task[h] = Idle
      /\ task'[h] = [pc |-> IF repeat THEN "reply" ELSE "claim", at |-> r, u |-> v]
      /\ \A g \in Slots \ {h} : task'[g] = task[g]
  BY DEF Post, Types
<1>2. Handling(u) => Handling(u)'
  BY <1>1 DEF Handling, Doing, Idle
<1>3. InHand(u) => InHand(u)'
  BY <1>1 DEF InHand
<1>4. Replying(u)' => Replying(u) \/ (u = v /\ repeat)
  BY <1>1 DEF Replying, Doing
<1>5. \A q \in Replicas : u \in met'[q] => u \in met[q] \/ (u = v /\ ~ repeat)
  BY DEF Post, RingsMet
<1>6. u = v /\ ~ repeat => InHand(u)'
  BY <1>1 DEF InHand, Idle
<1>7. mistaken \subseteq mistaken' /\ handled' = handled /\ owed' = owed
      /\ dropped' = dropped /\ claimed' = claimed
  BY DEF Post
<1>8. Settled(u) => Settled(u)'
  BY <1>3, <1>7 DEF Settled
<1>9. CASE u = v /\ repeat /\ u \notin met[r]
  <2>1. PICK w \in met[r] : w.id = u.id
    BY <1>9 DEF RingsMet
  <2>2. w \in Incoming \ {u} /\ u \in mistaken'
    BY <1>9, <2>1 DEF RingsMet, Post
  <2>3. Settled(u)'
    BY <2>1, <2>2 DEF Settled
  <2> QED
    BY <1>2, <1>3, <1>5, <1>6, <1>7, <1>9, <2>3 DEF KnownFor
<1>10. CASE u = v /\ repeat /\ u \in met[r]
  <2>1. u \notin dropped => Settled(u)'
    BY <1>3, <1>7, <1>10 DEF KnownFor, Settled
  <2> QED
    BY <1>2, <1>3, <1>5, <1>6, <1>7, <1>10, <2>1 DEF KnownFor
<1>11. CASE ~ (u = v /\ repeat)
  BY <1>2, <1>3, <1>4, <1>5, <1>6, <1>7, <1>8, <1>11 DEF KnownFor
<1> QED
  BY <1>9, <1>10, <1>11

LEMMA ClaimKnown ==
  ASSUME Types, NEW u \in Incoming, KnownFor(u), NEW h \in Slots, Claim(h)
  PROVE  KnownFor(u)'
<1> DEFINE l == IF task[h].u \in claimed THEN "reply" ELSE "handle"
<1>0. task[h].pc = "claim" /\ task[h] # Idle
  BY DEF Claim, Idle
<1>1. /\ task'[h].pc = l
      /\ task'[h].u = task[h].u
      /\ task'[h] # Idle
      /\ \A g \in Slots \ {h} : task'[g] = task[g]
  BY MoveTypes DEF Claim
<1>2. Handling(u) => Handling(u)'
  BY <1>0, <1>1 DEF Handling, Doing
<1>3. CASE u # task[h].u
  <2>1. InHand(u) => InHand(u)'
    BY <1>0, <1>1, <1>3 DEF InHand
  <2>2. Replying(u)' => Replying(u)
    BY <1>0, <1>1, <1>3 DEF Replying, Doing
  <2> QED
    BY <1>2, <1>3, <2>1, <2>2 DEF KnownFor, Settled, Claim, ghosts
<1>4. CASE u = task[h].u /\ u \in claimed
  <2>1. u \notin dropped => handled[u] > 0 \/ Handling(u)
    BY <1>4 DEF KnownFor, Settled
  <2>2. Handling(u) => InHand(u)'
    BY <1>0, <1>1 DEF Handling, Doing, InHand, Idle
  <2> QED
    BY <1>2, <1>4, <2>1, <2>2 DEF KnownFor, Settled, Claim, ghosts
<1>5. CASE u = task[h].u /\ u \notin claimed
  <2>1. Handling(u)' /\ InHand(u)'
    BY <1>0, <1>1, <1>5 DEF Handling, Doing, InHand
  <2> QED
    BY <2>1 DEF KnownFor, Settled
<1> QED
  BY <1>3, <1>4, <1>5

LEMMA ClaimFailsKnown ==
  ASSUME Types, NEW u \in Incoming, KnownFor(u), NEW h \in Slots, ClaimFails(h)
  PROVE  KnownFor(u)'
<1>0. task[h].pc = "claim" /\ task[h] # Idle
  BY DEF ClaimFails, Idle
<1>1. /\ task'[h].pc = "handle"
      /\ task'[h].u = task[h].u
      /\ task'[h] # Idle
      /\ \A g \in Slots \ {h} : task'[g] = task[g]
  BY MoveTypes DEF ClaimFails
<1>2. Handling(u) => Handling(u)'
  BY <1>0, <1>1 DEF Handling, Doing
<1>3. InHand(u) => InHand(u)'
  BY <1>0, <1>1 DEF InHand
<1>4. Replying(u)' => Replying(u)
  BY <1>0, <1>1 DEF Replying, Doing
<1>5. u \in claimed' => u \in claimed \/ Handling(u)'
  BY <1>0, <1>1 DEF ClaimFails, Handling, Doing
<1> QED
  BY <1>2, <1>3, <1>4, <1>5 DEF KnownFor, Settled, ClaimFails

LEMMA HandleKnown ==
  ASSUME Types, NEW u \in Incoming, KnownFor(u), NEW h \in Slots, Handle(h)
  PROVE  KnownFor(u)'
<1>1. /\ task[h].pc = "handle" /\ task[h].u \in Incoming
      /\ task'[h].pc = "reply"
      /\ task'[h].u = task[h].u
      /\ \A g \in Slots \ {h} : task'[g] = task[g]
  BY MoveTypes DEF Handle
<1>2. handled[u] \in Nat
  BY DEF Types
<1>3. CASE u = task[h].u
  <2>1. handled'[u] > 0
    BY <1>2, <1>3 DEF Handle, Types
  <2> QED
    BY <2>1 DEF KnownFor, Settled
<1>4. CASE u # task[h].u
  <2>1. handled'[u] = handled[u]
    BY <1>1, <1>4 DEF Handle, Types
  <2>2. Handling(u) => Handling(u)'
    BY <1>1, <1>4 DEF Handling, Doing
  <2>3. InHand(u) => InHand(u)'
    BY <1>1, <1>4 DEF InHand
  <2>4. Replying(u)' => Replying(u)
    BY <1>1, <1>4 DEF Replying, Doing
  <2> QED
    BY <2>1, <2>2, <2>3, <2>4 DEF KnownFor, Settled, Handle
<1> QED
  BY <1>3, <1>4

LEMMA ReplyKnown ==
  ASSUME Types, NEW u \in Incoming, KnownFor(u), NEW h \in Slots, Reply(h)
  PROVE  KnownFor(u)'
<1>1. /\ task[h].pc = "reply"
      /\ task'[h] = Idle
      /\ \A g \in Slots \ {h} : task'[g] = task[g]
  BY DEF Reply, Types
<1>2. Handling(u) => Handling(u)'
  BY <1>1 DEF Handling, Doing
<1>3. InHand(u) => InHand(u)'
  BY <1>1 DEF InHand
<1>4. Replying(u)' => Replying(u)
  BY <1>1 DEF Replying, Doing, Idle
<1>5. u \notin owed' => u \notin owed \/ Replying(u)
  BY <1>1 DEF Reply, Replying, Doing
<1> QED
  BY <1>2, <1>3, <1>4, <1>5 DEF KnownFor, Settled, Reply, ghosts

LEMMA CrashKnown ==
  ASSUME Types, RingsMet, NEW u \in Incoming, KnownFor(u), NEW r \in Replicas, Crash(r)
  PROVE  KnownFor(u)'
<1> DEFINE serving == {g \in Slots : task[g] # Idle /\ task[g].at = r}
<1>1. task' = [g \in Slots |-> IF g \in serving THEN Idle ELSE task[g]]
  BY DEF Crash
<1>2. SUFFICES ASSUME u \notin dropped' PROVE KnownFor(u)'
  BY DEF KnownFor, Settled
<1>3. \A g \in serving : task[g].pc # "reply" => task[g].u # u
  BY <1>2 DEF Crash
<1>4. u \notin dropped
  BY <1>2 DEF Crash
<1>5. Handling(u) => Handling(u)'
  BY <1>1, <1>3 DEF Handling, Doing
<1>6. InHand(u) => InHand(u)'
  BY <1>1, <1>3 DEF InHand
<1>7. Replying(u)' => Replying(u)
  BY <1>1 DEF Replying, Doing, Idle
<1>8. \A q \in Replicas : u \in met'[q] => u \in met[q]
  BY DEF Crash, RingsMet
<1> QED
  BY <1>4, <1>5, <1>6, <1>7, <1>8 DEF KnownFor, Settled, Crash

LEMMA ExpireKnown ==
  ASSUME NEW u \in Incoming, KnownFor(u), NEW v \in Incoming, ExpireClaim(v)
  PROVE  KnownFor(u)'
BY DEF ExpireClaim, KnownFor, Settled, Handling, Replying, InHand, Doing

LEMMA StepKnown == Types /\ Known /\ [Next]_vars => Known'
<1> SUFFICES ASSUME Types, Known, [Next]_vars PROVE Known'
  OBVIOUS
<1>1. ASSUME NEW u \in Incoming PROVE KnownFor(u)'
  <2>1. RingsMet /\ KnownFor(u)
    BY DEF Known
  <2>2. CASE UNCHANGED vars
    BY <2>1, <2>2 DEF vars, ghosts, KnownFor, Settled, Handling, Replying, InHand, Doing
  <2> QED
    BY <2>1, <2>2, PostKnown, ClaimKnown, ClaimFailsKnown, HandleKnown, ReplyKnown, CrashKnown,
       ExpireKnown DEF Next, Deliver, Step
<1> QED
  BY <1>1, StepRingsMet DEF Known

(* However many bots a process serves, an update Telegram got a 200 for    *)
(* was handled, is in hand, or died with a replica that knew it; or a ring *)
(* took its id for that of another bot's update.  Where no two bots reach  *)
(* one id, the last cannot be.                                             *)
THEOREM NothingLost == Spec => []NoLoss
<1>1. Init => Known
  BY DEF Init, Known, KnownFor, RingsMet, NewRing, Replying, Doing, Idle
<1>2. Known => NoLoss
  BY DEF Known, KnownFor, Settled, NoLoss
<1> QED
  BY <1>1, <1>2, StepKnown, OnceInvariance, PTL DEF Spec

-----------------------------------------------------------------------------
\* Where in s the id in place p of the ring was recorded; 0 or less: nowhere.
Index(g, s, p) ==
  IF p < g.head THEN Len(s) - g.head + 1 + p ELSE Len(s) - g.head + 1 + p - Capacity

\* Ring g has recorded s: its places hold the last ids of s in order, oldest
\* at the head once it is full, no two alike, and its set has the same ids.
Window(g, s) ==
  /\ Len(s) < Capacity => g.head = Len(s)
  /\ \A p \in Places : Index(g, s, p) > 0 => g.order[p] = s[Index(g, s, p)]
  /\ g.ids = Last(s, Capacity)
  /\ \A i, j \in DOMAIN s :
       i > Len(s) - Capacity /\ j > Len(s) - Capacity /\ s[i] = s[j] => i = j
  /\ IsFiniteSet(g.ids)
  /\ Cardinality(g.ids) = IF Len(s) < Capacity THEN Len(s) ELSE Capacity

Windows ==
  /\ recorded \in [Replicas -> Seq(Ids)]
  /\ \A r \in Replicas : Window(ring[r], recorded[r])

LEMMA EmptyWindow == NewRing \in Ring /\ Window(NewRing, <<>>)
<1>1. NewRing \in Ring
  BY IngestAssumptions DEF NewRing, Ring, Places
<1>2. Last(<<>>, Capacity) = {}
  BY DEF Last
<1>3. \A p \in Places : ~ Index(NewRing, <<>>, p) > 0
  BY IngestAssumptions DEF Index, NewRing, Places
<1>4. NewRing.ids = {} /\ NewRing.head = 0
  BY DEF NewRing
<1>5. Len(<<>>) = 0 /\ DOMAIN <<>> = {}
  OBVIOUS
<1>6. Len(<<>>) < Capacity
  BY <1>5, IngestAssumptions
<1> QED
  BY <1>1, <1>2, <1>3, <1>4, <1>5, <1>6, FS_EmptySet DEF Window

(* The ring of dedupe.py at every fill level: recording one more id moves  *)
(* its window along by one.                                                *)
LEMMA WindowMoves ==
  ASSUME NEW g \in Ring, NEW s \in Seq(Ids), Window(g, s), NEW x \in Ids, x \notin g.ids
  PROVE  Window(Record(g, x), Append(s, x))
<1> DEFINE n == Len(s)
           t == Append(s, x)
           f == Record(g, x)
<1> SUFFICES Window(f, t)
  OBVIOUS
<1>1. /\ n \in Nat /\ Capacity \in Nat /\ Capacity > 0
      /\ g.head \in Nat /\ g.head < Capacity
      /\ g.order \in [Places -> Ids \cup {NoId}]
      /\ DOMAIN s = 1 .. n
  BY IngestAssumptions DEF Ring, Places
<1>2. /\ Len(t) = n + 1
      /\ t[n + 1] = x
      /\ \A i \in 1 .. n : t[i] = s[i]
      /\ DOMAIN t = 1 .. n + 1
  BY <1>1
<1>3. /\ f.head = IF g.head + 1 >= Capacity THEN 0 ELSE g.head + 1
      /\ f.order = [g.order EXCEPT ![g.head] = x]
      /\ f.ids = Evict(g) \cup {x}
  BY DEF Record
<1> HIDE DEF f, t
<1>4. Len(t) < Capacity => f.head = Len(t)
  BY <1>1, <1>2, <1>3 DEF Window
<1>5. ASSUME NEW p \in Places, Index(f, t, p) > 0
      PROVE  f.order[p] = t[Index(f, t, p)]
  <2>1. p \in Nat /\ p < Capacity
    BY <1>1, <1>5 DEF Places
  <2>2. CASE p = g.head
    <3>1. Index(f, t, p) = n + 1
      BY <1>1, <1>2, <1>3, <2>1, <2>2 DEF Index
    <3> QED
      BY <1>1, <1>2, <1>3, <2>2, <3>1
  <2>3. CASE p # g.head
    <3>1. Index(f, t, p) = Index(g, s, p)
      <4>1. CASE g.head + 1 >= Capacity
        <5>1. g.head = Capacity - 1 /\ f.head = 0
          BY <1>1, <1>3, <4>1
        <5>2. p < g.head /\ ~ p < f.head
          BY <1>1, <2>1, <2>3, <5>1
        <5>3. Index(f, t, p) = n + 1 - 0 + 1 + p - Capacity
          BY <1>2, <5>1, <5>2 DEF Index
        <5>4. Index(g, s, p) = n - (Capacity - 1) + 1 + p
          BY <5>1, <5>2 DEF Index
        <5> QED
          BY <1>1, <2>1, <5>3, <5>4
      <4>2. CASE g.head + 1 < Capacity
        <5>0. n \in Int /\ g.head \in Int /\ Capacity \in Int /\ p \in Int
          BY <1>1, <2>1
        <5>1. f.head = g.head + 1
          BY <1>1, <1>3, <4>2
        <5>2. (p < f.head) <=> (p < g.head)
          BY <1>1, <2>1, <2>3, <5>1
        <5>3. CASE p < g.head
          <6>1. Index(f, t, p) = (n + 1) - (g.head + 1) + 1 + p
            BY <1>2, <5>1, <5>2, <5>3 DEF Index
          <6>2. Index(g, s, p) = n - g.head + 1 + p
            BY <5>3 DEF Index
          <6> QED
            BY <5>0, <6>1, <6>2
        <5>4. CASE ~ (p < g.head)
          <6>1. Index(f, t, p) = (n + 1) - (g.head + 1) + 1 + p - Capacity
            BY <1>2, <5>1, <5>2, <5>4 DEF Index
          <6>2. Index(g, s, p) = n - g.head + 1 + p - Capacity
            BY <5>4 DEF Index
          <6> QED
            BY <5>0, <6>1, <6>2
        <5> QED
          BY <5>3, <5>4
      <4> QED
        BY <1>1, <4>1, <4>2
    <3>2. Index(g, s, p) \in 1 .. n
      BY <1>1, <1>5, <2>1, <3>1 DEF Index
    <3>3. f.order[p] = g.order[p]
      BY <1>1, <1>3, <2>3
    <3>4. g.order[p] = s[Index(g, s, p)]
      BY <3>2 DEF Window
    <3> QED
      BY <1>2, <3>1, <3>2, <3>3, <3>4
  <2> QED
    BY <2>2, <2>3
<1>6. \A i \in 1 .. n : i > n - Capacity => s[i] \in g.ids
  BY <1>1 DEF Window, Last
<1>7. ASSUME NEW i \in DOMAIN t, NEW j \in DOMAIN t,
             i > Len(t) - Capacity, j > Len(t) - Capacity, t[i] = t[j]
      PROVE  i = j
  <2>1. i > n - Capacity /\ j > n - Capacity
    BY <1>1, <1>2, <1>7
  <2>2. CASE i \in 1 .. n /\ j \in 1 .. n
    BY <1>1, <1>2, <1>7, <2>1, <2>2 DEF Window
  <2>3. CASE i = n + 1 \/ j = n + 1
    BY <1>1, <1>2, <1>6, <1>7, <2>1, <2>3
  <2> QED
    BY <1>1, <1>2, <2>2, <2>3
<1>8. CASE n < Capacity
  <2>1. Evict(g) = g.ids
    BY <1>1, <1>8 DEF Evict, Window
  <2>2. Last(t, Capacity) = Last(s, Capacity) \cup {x}
    <3>1. Last(t, Capacity) = {t[i] : i \in 1 .. n + 1}
      BY <1>1, <1>2, <1>8 DEF Last
    <3>2. Last(s, Capacity) = {s[i] : i \in 1 .. n}
      BY <1>1, <1>8 DEF Last
    <3> QED
      BY <1>1, <1>2, <3>1, <3>2
  <2>3. IsFiniteSet(f.ids) /\ Cardinality(f.ids) = n + 1
    <3>1. f.ids = g.ids \cup {x} /\ IsFiniteSet(g.ids) /\ Cardinality(g.ids) = n
      BY <1>3, <1>8, <2>1 DEF Window
    <3> QED
      BY <3>1, FS_AddElement
  <2>4. f.ids = Last(t, Capacity)
    BY <1>3, <2>1, <2>2 DEF Window
  <2>5. Cardinality(f.ids) = IF Len(t) < Capacity THEN Len(t) ELSE Capacity
    BY <1>1, <1>2, <1>8, <2>3
  <2> QED
    BY <1>4, <1>5, <1>7, <2>3, <2>4, <2>5 DEF Window
<1>9. CASE n >= Capacity
  <2> DEFINE old == s[n - Capacity + 1]
  <2>1. g.order[g.head] = old /\ old \in g.ids
    <3>1. g.head \in Places /\ Index(g, s, g.head) = n - Capacity + 1
      BY <1>1 DEF Index, Places
    <3>2. n - Capacity + 1 > 0 /\ n - Capacity + 1 \in 1 .. n
      BY <1>1, <1>9
    <3> QED
      BY <1>1, <1>6, <3>1, <3>2 DEF Window
  <2>2. Evict(g) = g.ids \ {old}
    BY <1>1, <1>9, <2>1 DEF Evict, Window
  <2>3. Last(t, Capacity) = (Last(s, Capacity) \ {old}) \cup {x}
    <3>1. Last(t, Capacity) = {t[i] : i \in {k \in 1 .. n + 1 : k > n + 1 - Capacity}}
      <4>1. Len(t) - Capacity = n + 1 - Capacity /\ DOMAIN t = 1 .. n + 1
        BY <1>1, <1>2
      <4> QED
        BY <4>1, Zenon DEF Last
    <3>2. Last(s, Capacity) = {s[i] : i \in {k \in 1 .. n : k > n - Capacity}}
      BY <1>1 DEF Last
    <3>3. ASSUME NEW i \in 1 .. n, i > n - Capacity
          PROVE  s[i] # old <=> i > n + 1 - Capacity
      BY <1>1, <1>9, <3>3 DEF Window
    <3>4. \A i \in 1 .. n : i > n + 1 - Capacity => i > n - Capacity
      BY <1>1
    <3>5. n + 1 > n + 1 - Capacity /\ n + 1 \in 1 .. n + 1
      BY <1>1
    <3>6. ASSUME NEW y
          PROVE  y \in Last(t, Capacity) <=> y = x \/ (y \in Last(s, Capacity) /\ y # old)
      <4>1. ASSUME y \in Last(t, Capacity), y # x
            PROVE  y \in Last(s, Capacity) /\ y # old
        <5>1. PICK i \in 1 .. n + 1 : i > n + 1 - Capacity /\ y = t[i]
          BY <3>1, <4>1
        <5>2. i \in 1 .. n /\ y = s[i]
          BY <1>1, <1>2, <4>1, <5>1
        <5> QED
          BY <3>2, <3>3, <3>4, <5>1, <5>2
      <4>2. ASSUME y \in Last(s, Capacity), y # old
            PROVE  y \in Last(t, Capacity)
        <5>1. PICK i \in 1 .. n : i > n - Capacity /\ y = s[i]
          BY <3>2, <4>2
        <5>2. i \in 1 .. n + 1 /\ i > n + 1 - Capacity /\ y = t[i]
          BY <1>1, <1>2, <3>3, <4>2, <5>1
        <5> QED
          BY <3>1, <5>2
      <4>3. x \in Last(t, Capacity)
        BY <1>2, <3>1, <3>5
      <4> QED
        BY <4>1, <4>2, <4>3
    <3> QED
      BY <3>6
  <2>4. IsFiniteSet(f.ids) /\ Cardinality(f.ids) = Capacity
    <3>1. IsFiniteSet(g.ids \ {old}) /\ Cardinality(g.ids \ {old}) = Capacity - 1
      BY <1>1, <1>9, <2>1, FS_RemoveElement DEF Window
    <3>2. f.ids = (g.ids \ {old}) \cup {x} /\ x \notin g.ids \ {old}
      BY <1>3, <2>2
    <3>3. /\ IsFiniteSet((g.ids \ {old}) \cup {x})
          /\ Cardinality((g.ids \ {old}) \cup {x}) = Capacity - 1 + 1
      BY <3>1, <3>2, FS_AddElement
    <3> QED
      BY <1>1, <3>2, <3>3
  <2>5. f.ids = Last(t, Capacity)
    BY <1>3, <2>2, <2>3 DEF Window
  <2>6. Cardinality(f.ids) = IF Len(t) < Capacity THEN Len(t) ELSE Capacity
    BY <1>1, <1>2, <1>9, <2>4
  <2> QED
    BY <1>4, <1>5, <1>7, <2>4, <2>5, <2>6 DEF Window
<1> QED
  BY <1>1, <1>8, <1>9

LEMMA StepWindows == Types /\ Windows /\ [Next]_vars => Windows'
<1> SUFFICES ASSUME Types, Windows, [Next]_vars PROVE Windows'
  OBVIOUS
<1>1. ASSUME NEW h \in Slots, NEW r \in Replicas, NEW u \in Incoming, Post(h, r, u)
      PROVE  Windows'
  <2>1. u.id \in Ids
    BY DEF Ids
  <2>2. recorded' \in [Replicas -> Seq(Ids)]
    BY <1>1, <2>1 DEF Post, Windows
  <2>3. ASSUME NEW q \in Replicas
        PROVE  Window(ring[q], recorded[q])'
    <3>1. ring[q] \in Ring /\ recorded[q] \in Seq(Ids) /\ Window(ring[q], recorded[q])
      BY DEF Types, Windows
    <3>2. CASE q # r \/ u.id \in ring[r].ids
      <4>1. ring'[q] = ring[q] /\ recorded'[q] = recorded[q]
        BY <1>1, <3>2 DEF Post, Types, Windows
      <4> QED
        BY <3>1, <4>1 DEF Window, Index, Last
    <3>3. CASE q = r /\ u.id \notin ring[r].ids
      <4>1. ring'[q] = Record(ring[q], u.id) /\ recorded'[q] = Append(recorded[q], u.id)
        BY <1>1, <3>3 DEF Post, Types, Windows
      <4>2. Window(Record(ring[q], u.id), Append(recorded[q], u.id))
        BY <2>1, <3>1, <3>3, WindowMoves
      <4> QED
        BY <4>1, <4>2
    <3> QED
      BY <3>2, <3>3
  <2> QED
    BY <2>2, <2>3 DEF Windows
<1>2. ASSUME NEW r \in Replicas, Crash(r)
      PROVE  Windows'
  <2>1. recorded' \in [Replicas -> Seq(Ids)]
    BY <1>2 DEF Crash, Windows
  <2>2. ASSUME NEW q \in Replicas
        PROVE  Window(ring[q], recorded[q])'
    <3>1. CASE q = r
      <4>1. ring'[q] = NewRing /\ recorded'[q] = <<>>
        BY <1>2, <3>1 DEF Crash, Types, Windows
      <4> QED
        BY <4>1, EmptyWindow DEF Window, Index, Last
    <3>2. CASE q # r
      <4>1. ring'[q] = ring[q] /\ recorded'[q] = recorded[q]
        BY <1>2, <3>2 DEF Crash, Types, Windows
      <4> QED
        BY <4>1 DEF Windows, Window, Index, Last
    <3> QED
      BY <3>1, <3>2
  <2> QED
    BY <2>1, <2>2 DEF Windows
<1>3. ASSUME NEW h \in Slots, Step(h)
      PROVE  UNCHANGED <<ring, recorded>>
  BY <1>3 DEF Step, Claim, ClaimFails, Handle, Reply, ghosts
<1>4. ASSUME NEW u \in Incoming, ExpireClaim(u)
      PROVE  UNCHANGED <<ring, recorded>>
  BY <1>4 DEF ExpireClaim
<1>5. CASE UNCHANGED <<ring, recorded>>
  BY <1>5 DEF Windows, Window, Index, Last
<1>6. CASE UNCHANGED vars
  BY <1>5, <1>6 DEF vars, ghosts
<1> QED
  BY <1>1, <1>2, <1>3, <1>4, <1>5, <1>6 DEF Next, Deliver

(* The set a ring answers from is exactly the Capacity ids it recorded     *)
(* last, for every capacity, at every fill level and wrap-around.          *)
THEOREM RingIsWindow == Spec => []RecordedWindow
<1>1. Init => Windows
  <2> SUFFICES ASSUME Init PROVE Windows
    OBVIOUS
  <2>1. recorded \in [Replicas -> Seq(Ids)]
    BY DEF Init
  <2>2. \A r \in Replicas : ring[r] = NewRing /\ recorded[r] = <<>>
    BY DEF Init
  <2> QED
    BY <2>1, <2>2, EmptyWindow DEF Windows
<1>2. Windows => RecordedWindow
  BY DEF Windows, Window, RecordedWindow
<1> QED
  BY <1>1, <1>2, StepWindows, OnceInvariance, PTL DEF Spec

-----------------------------------------------------------------------------
(* Dispatch, for any updates and configurations: what each handler may come   *)
(* to, once for all of it, and what an update has met so far on its way along *)
(* the chain.                                                                 *)
CONSTANTS Updates, Settings, Nothing
VARIABLES update, config, seen, place, taker, said, deeds, jobs, mark

Way == INSTANCE Dispatch WITH at <- place

\* What is nothing is no word.
Apart == Nothing \notin {"answer", "notice", "answered", "refused", "silent", "error"}

\* An outcome by its parts.
Outcome(o, says, marks, job, does) ==
  /\ DOMAIN o = {"says", "mark", "job", "deeds", "on"}
  /\ o.says = says /\ o.mark = marks /\ o.job = job /\ o.deeds = does

LEMMA OutcomeShapes ==
  /\ Outcome(Way!Unsaid, Nothing, Nothing, Nothing, {}) /\ ~Way!Unsaid.on
  /\ Outcome(Way!Answer, "answer", Nothing, Nothing, {}) /\ ~Way!Answer.on
  /\ Outcome(Way!Notice, "notice", Nothing, Nothing, {}) /\ ~Way!Notice.on
  /\ Outcome(Way!Refusal, "notice", "refused", Nothing, {}) /\ ~Way!Refusal.on
  /\ Outcome(Way!Silence, Nothing, "silent", Nothing, {}) /\ ~Way!Silence.on
  /\ Outcome(Way!Skip, Nothing, Nothing, Nothing, {}) /\ Way!Skip.on
  /\ Outcome(Way!Fetch, "answer", Nothing, Nothing, {}) /\ Way!Fetch.on
<1>1. Outcome(Way!Unsaid, Nothing, Nothing, Nothing, {}) /\ ~Way!Unsaid.on
  BY DEF Outcome, Way!Unsaid
<1>2. Outcome(Way!Answer, "answer", Nothing, Nothing, {}) /\ ~Way!Answer.on
  BY <1>1 DEF Outcome, Way!Answer
<1>3. Outcome(Way!Notice, "notice", Nothing, Nothing, {}) /\ ~Way!Notice.on
  BY <1>1 DEF Outcome, Way!Notice
<1>4. Outcome(Way!Refusal, "notice", "refused", Nothing, {}) /\ ~Way!Refusal.on
  BY <1>3 DEF Outcome, Way!Refusal
<1>5. Outcome(Way!Silence, Nothing, "silent", Nothing, {}) /\ ~Way!Silence.on
  BY <1>1 DEF Outcome, Way!Silence
<1>6. Outcome(Way!Skip, Nothing, Nothing, Nothing, {}) /\ Way!Skip.on
  BY <1>1 DEF Outcome, Way!Skip
<1>7. Outcome(Way!Fetch, "answer", Nothing, Nothing, {}) /\ Way!Fetch.on
  BY <1>2 DEF Outcome, Way!Fetch
<1> QED BY <1>1, <1>2, <1>3, <1>4, <1>5, <1>6, <1>7

\* Which handler does what, and which one leaves it to the workers.
Does ==
  {<<"register", "sender">>, <<"reload", "config dropped">>, <<"reload", "admins read">>,
   <<"newrules", "rules prompt">>, <<"rules reply", "rules">>, <<"calladms", "call prompt">>,
   <<"call press", "prompt deleted">>, <<"deletereposts", "posts removed">>,
   <<"complaint reply", "caption deleted">>, <<"complaint reply", "answer later">>,
   <<"fortune", "answer later">>, <<"config", "menu">>, <<"config reply", "setting">>,
   <<"config press", "config prompt">>, <<"publish", "post cached">>,
   <<"publish", "sent for approval">>, <<"repost", "repost">>, <<"giveaway", "prize">>,
   <<"leave", "blacklisted">>, <<"leave", "forgotten">>, <<"leave", "left">>,
   <<"blacklist", "blacklisted">>, <<"unblacklist", "cleared">>, <<"search", "quota charged">>,
   <<"join record", "joined">>, <<"bot added", "language">>, <<"doomlist", "listed">>,
   <<"doomlist", "banned">>, <<"captcha join", "challenged">>,
   <<"captcha reply", "message deleted">>, <<"captcha reply", "solved">>,
   <<"captcha reply", "welcomed">>, <<"captcha reply", "attempt">>, <<"captcha reply", "kicked">>,
   <<"captcha press", "solved">>, <<"captcha press", "welcomed">>,
   <<"captcha press", "attempt">>, <<"captcha press", "kicked">>,
   <<"welcome join", "welcomed">>, <<"newwelcome", "welcome prompt">>,
   <<"welcome reply", "welcome">>, <<"restriction", "message deleted">>,
   <<"sticker", "sticker pooled">>, <<"sticker spam", "message deleted">>, <<"relay", "relayed">>,
   <<"share", "post cached">>, <<"pool", "pooled">>, <<"ai", "window charged">>,
   <<"ai", "streak spent">>, <<"replenish", "replenished">>, <<"voice ai", "window charged">>}
May(h, ds) == \A d \in ds : <<h, d>> \in Does
Delegates ==
  {<<"call press", "call admins">>, <<"everyone", "everyone">>, <<"meme", "meme">>,
   <<"destroy", "distort">>, <<"birthday", "collage">>, <<"youtube", "youtube">>,
   <<"searchsource", "reverse search">>, <<"search", "image search">>,
   <<"broadcast", "broadcast">>, <<"music", "identify music">>}
Passing ==
  {"register", "search", "join record", "restriction", "bot added", "doomlist", "captcha join",
   "sticker", "relay", "replenish", "music", "embedder", "share", "sticker reply", "pool"}
PassedDeeds == {"sender", "joined", "sticker pooled", "replenished", "pooled"}

\* The words of an outcome and its mark agree, and what passes an update on leaves
\* the trace alone.
Fits(h, o) ==
  /\ DOMAIN o = {"says", "mark", "job", "deeds", "on"}
  /\ o.says \in {Nothing, "answer", "notice"} /\ o.mark \in {Nothing, "refused", "silent"}
  /\ o.mark = "silent" => o.says = Nothing /\ o.job = Nothing
  /\ o.mark = "refused" => o.says = "notice" /\ o.job = Nothing
  /\ \A d \in o.deeds : <<h, d>> \in Does
  /\ o.job = Nothing \/ <<h, o.job>> \in Delegates
  /\ o.on => /\ h \in Passing /\ o.mark = Nothing /\ o.deeds \subseteq PassedDeeds
             /\ o.says = Nothing \/ (o.says = "answer" /\ h \in {"sticker", "sticker reply"})
             /\ o.job = Nothing \/ h = "music"

\* It fits, and the update goes no further.
Stops(h, o) == Fits(h, o) /\ ~o.on
AllStop(h, outcomes) == \A o \in outcomes : Stops(h, o)
AllFit(h, outcomes) == \A o \in outcomes : Fits(h, o)

PlainOnes == {Way!Unsaid, Way!Answer, Way!Notice, Way!Refusal, Way!Silence}

LEMMA PlainFits ==
  ASSUME Apart, NEW h
  PROVE  /\ AllStop(h, PlainOnes)
         /\ \A o \in PlainOnes \ {Way!Refusal, Way!Silence} : o.mark = Nothing
         /\ h \in Passing => Fits(h, Way!Skip) /\ Way!Skip.on /\ Way!Skip.mark = Nothing
         /\ h \in {"sticker", "sticker reply"} => Fits(h, Way!Fetch) /\ Way!Fetch.on
BY OutcomeShapes DEF Outcome, Fits, Apart, Passing, AllStop, Stops, PlainOnes

LEMMA HavingFits ==
  ASSUME NEW h, NEW o, Fits(h, o), NEW D, May(h, D), o.on => D \subseteq PassedDeeds
  PROVE  Fits(h, Way!Having(D, o)) /\ (Way!Having(D, o).on <=> o.on)
BY DEF Fits, Way!Having, May

\* All of some outcomes, with more done.
HavingAll(D, outcomes) == {Way!Having(D, a) : a \in outcomes}

LEMMA HavingStops ==
  ASSUME NEW h, NEW S, AllStop(h, S), NEW D, May(h, D)
  PROVE  AllStop(h, HavingAll(D, S))
BY HavingFits DEF AllStop, Stops, HavingAll

LEMMA EnqueuedFits ==
  ASSUME Apart, NEW h, NEW o, Fits(h, o), NEW J, <<h, J>> \in Delegates,
         NEW p \in Way!Enqueued(J, o), o.mark = Nothing, o.on => h = "music"
  PROVE  Fits(h, p) /\ (p.on <=> o.on)
<1>1. p = o \/ p = [o EXCEPT !.job = J]
  BY DEF Way!Enqueued
<1>2. CASE p = [o EXCEPT !.job = J]
  <2>1. /\ DOMAIN p = {"says", "mark", "job", "deeds", "on"} /\ p.says = o.says
        /\ p.mark = o.mark /\ p.job = J /\ p.deeds = o.deeds /\ (p.on <=> o.on)
    BY <1>2 DEF Fits
  <2> QED BY <2>1 DEF Fits, Apart
<1> QED BY <1>1, <1>2

LEMMA EnqueuedStops ==
  ASSUME Apart, NEW h, NEW o \in PlainOnes, o.mark = Nothing, NEW J, <<h, J>> \in Delegates
  PROVE  AllStop(h, Way!Enqueued(J, o))
BY PlainFits, EnqueuedFits DEF AllStop, Stops

LEMMA GateStops ==
  ASSUME Apart, NEW h, NEW S, AllStop(h, S), NEW on
  PROVE  AllStop(h, Way!Soft(on, S)) /\ AllStop(h, Way!Loud(on, S))
BY PlainFits DEF AllStop, PlainOnes, Way!Soft, Way!Loud

\* The same, as the handlers say it.
LEMMA DoneBy ==
  /\ \A h : May(h, {})
  /\ May("reload", {"config dropped"})
  /\ May("reload", {"config dropped", "admins read"})
  /\ May("newrules", {"rules prompt"})
  /\ May("rules reply", {"rules"})
  /\ May("calladms", {"call prompt"})
  /\ May("call press", {"prompt deleted"})
  /\ May("deletereposts", {"posts removed"})
  /\ May("complaint reply", {"caption deleted", "answer later"})
  /\ May("fortune", {"answer later"})
  /\ May("config", {"menu"})
  /\ May("config reply", {"setting"})
  /\ May("config press", {"config prompt"})
  /\ May("publish", {"post cached", "sent for approval"})
  /\ May("repost", {"repost"})
  /\ May("giveaway", {"prize"})
  /\ May("leave", {"blacklisted", "forgotten"})
  /\ May("leave", {"blacklisted", "forgotten", "left"})
  /\ May("blacklist", {"blacklisted"})
  /\ May("unblacklist", {"cleared"})
  /\ May("search", {"quota charged"})
  /\ May("join record", {"joined"})
  /\ May("bot added", {"language"})
  /\ May("doomlist", {"banned"})
  /\ May("doomlist", {"listed", "banned"})
  /\ May("captcha join", {"challenged"})
  /\ May("captcha reply", {"message deleted"})
  /\ May("captcha reply", {"solved"})
  /\ May("captcha reply", {"welcomed"})
  /\ May("captcha reply", {"attempt"})
  /\ May("captcha reply", {"kicked"})
  /\ May("captcha press", {"solved"})
  /\ May("captcha press", {"welcomed"})
  /\ May("captcha press", {"attempt"})
  /\ May("captcha press", {"kicked"})
  /\ May("welcome join", {"welcomed"})
  /\ May("newwelcome", {"welcome prompt"})
  /\ May("welcome reply", {"welcome"})
  /\ May("restriction", {"message deleted"})
  /\ May("sticker", {"sticker pooled"})
  /\ May("sticker spam", {"message deleted"})
  /\ May("relay", {"relayed"})
  /\ May("share", {"post cached"})
  /\ May("pool", {"pooled"})
  /\ May("ai", {"window charged"})
  /\ May("ai", {"streak spent"})
  /\ May("voice ai", {"window charged"})
  /\ May("replenish", {"replenished"})
  /\ May("register", {"sender"})
BY DEF Does, May

\* Those that only speak.
Speakers ==
  {"isalive", "privacy", "analysis", "commands", "rules", "complaint", "death", "ship",
   "firecracker", "unearth", "battle", "con", "age", "gender", "custom", "dice", "drawingidea",
   "nextbirthday", "anything", "groups", "stop", "transcribe", "random"}

LEMMA SpeakersStop ==
  ASSUME Apart, NEW h \in Speakers, NEW m, NEW c
  PROVE  Way!Outcomes(h, m, c) \subseteq PlainOnes
<1> USE DEF PlainOnes, Way!Outcomes
<1>1. CASE h \in {"isalive", "privacy", "analysis", "commands", "rules"}
  BY <1>1 DEF Way!IsAlive, Way!Privacy, Way!Analysis, Way!ListCommands, Way!Rules
<1>2. CASE h \in {"complaint", "death", "ship", "firecracker", "unearth"}
  BY <1>2 DEF Way!Complaint, Way!Death, Way!Ship, Way!Firecracker, Way!Unearth, Way!FromPool,
              Way!Soft, Way!Loud
<1>3. CASE h = "battle"
  BY <1>3 DEF Way!Battle, Way!BattleOfTwo, Way!FighterBattle, Way!FromPool, Way!Loud
<1>4. CASE h \in {"con", "age", "gender", "custom", "dice"}
  BY <1>4 DEF Way!EventCountdown, Way!AgeGuess, Way!GenderGuess, Way!GuessOf, Way!CustomCommand,
              Way!RollDice, Way!FromPool, Way!Soft, Way!Loud
<1>5. CASE h \in {"drawingidea", "nextbirthday", "anything", "groups", "stop", "random"}
  BY <1>5 DEF Way!DrawingIdea, Way!NextBirthday, Way!AnythingPrompt, Way!GroupList,
              Way!ProcessControl, Way!SendRandom, Way!FromPool, Way!Soft, Way!Loud
<1>6. CASE h = "transcribe"
  BY <1>6 DEF Way!TranscribeCommand, Way!Loud
<1> QED BY <1>1, <1>2, <1>3, <1>4, <1>5, <1>6 DEF Speakers

LEMMA DoneStops ==
  ASSUME Apart, NEW h, NEW D, May(h, D), NEW o \in PlainOnes
  PROVE  Stops(h, Way!Having(D, o))
BY PlainFits, HavingFits DEF AllStop, Stops

\* Those that do something, and keep the update.
Doers ==
  {"reload", "newrules", "rules reply", "calladms", "deletereposts", "complaint reply",
   "fortune", "config", "config reply", "config press", "publish", "repost", "giveaway",
   "leave", "blacklist", "unblacklist", "newwelcome", "welcome reply", "welcome join",
   "sticker spam"}

LEMMA DoersStop ==
  ASSUME Apart, NEW h \in Doers, NEW m, NEW c
  PROVE  AllStop(h, Way!Outcomes(h, m, c))
<1>0. \A x : AllStop(x, PlainOnes)
  BY PlainFits
<1> USE DEF AllStop, Way!Outcomes, PlainOnes
<1>1. CASE h = "reload"
  <2>1. /\ Stops("reload", Way!Having({"config dropped"}, Way!Answer))
        /\ Stops("reload", Way!Having({"config dropped", "admins read"}, Way!Answer))
    BY DoneStops, DoneBy
  <2> QED BY <1>0, <1>1, <2>1 DEF Way!Reload
<1>2. CASE h = "newrules"
  <2>1. Stops("newrules", Way!Having({"rules prompt"}, Way!Answer))
    BY DoneStops, DoneBy
  <2> QED BY <1>0, <1>2, <2>1 DEF Way!NewRules
<1>3. CASE h = "rules reply"
  <2>1. Stops("rules reply", Way!Having({"rules"}, Way!Answer))
    BY DoneStops, DoneBy
  <2> QED BY <1>0, <1>3, <2>1 DEF Way!CaptureRules
<1>4. CASE h = "calladms"
  <2>1. Stops("calladms", Way!Having({"call prompt"}, Way!Answer))
    BY DoneStops, DoneBy
  <2> QED BY <1>0, <1>4, <2>1 DEF Way!AskAdmins
<1>5. CASE h = "deletereposts"
  <2>1. Stops("deletereposts", Way!Having({"posts removed"}, Way!Answer))
    BY DoneStops, DoneBy
  <2> QED BY <1>0, <1>5, <2>1 DEF Way!DeleteReposts
<1>6. CASE h = "complaint reply"
  <2>1. Stops("complaint reply", Way!Having({"caption deleted", "answer later"}, Way!Answer))
    BY DoneStops, DoneBy
  <2> QED BY <1>0, <1>6, <2>1 DEF Way!ComplaintReply, Way!Loud
<1>7. CASE h = "fortune"
  <2>1. Stops("fortune", Way!Having({"answer later"}, Way!Answer))
    BY DoneStops, DoneBy
  <2> QED BY <1>0, <1>7, <2>1 DEF Way!Fortune, Way!Soft
<1>8. CASE h = "config"
  <2>1. Stops("config", Way!Having({"menu"}, Way!Answer))
    BY DoneStops, DoneBy
  <2> QED BY <1>0, <1>8, <2>1 DEF Way!OpenMenu
<1>9. CASE h = "config reply"
  <2>1. Stops("config reply", Way!Having({"setting"}, Way!Answer))
    BY DoneStops, DoneBy
  <2> QED BY <1>0, <1>9, <2>1 DEF Way!ConfigReply
<1>10. CASE h = "config press"
  <2>1. Stops("config press", Way!Having({"config prompt"}, Way!Answer))
    BY DoneStops, DoneBy
  <2> QED BY <1>0, <1>10, <2>1 DEF Way!ConfigPress
<1>11. CASE h = "publish"
  <2>1. Stops("publish", Way!Having({"post cached", "sent for approval"}, Way!Answer))
    BY DoneStops, DoneBy
  <2> QED BY <1>0, <1>11, <2>1 DEF Way!SubmitPost
<1>12. CASE h = "repost"
  <2>1. Stops("repost", Way!Having({"repost"}, Way!Answer))
    BY DoneStops, DoneBy
  <2> QED BY <1>0, <1>12, <2>1 DEF Way!ScheduleRepost
<1>13. CASE h = "giveaway"
  <2>1. Stops("giveaway", Way!Having({"prize"}, Way!Answer))
    BY DoneStops, DoneBy
  <2> QED BY <1>0, <1>13, <2>1 DEF Way!AskGiveaway, Way!Loud
<1>14. CASE h = "leave"
  <2>1. /\ Stops("leave", Way!Having({"blacklisted", "forgotten"}, Way!Answer))
        /\ Stops("leave", Way!Having({"blacklisted", "forgotten", "left"}, Way!Answer))
    BY DoneStops, DoneBy
  <2> QED BY <1>0, <1>14, <2>1 DEF Way!LeaveGroup
<1>15. CASE h = "blacklist"
  <2>1. Stops("blacklist", Way!Having({"blacklisted"}, Way!Answer))
    BY DoneStops, DoneBy
  <2> QED BY <1>0, <1>15, <2>1 DEF Way!Blacklist
<1>16. CASE h = "unblacklist"
  <2>1. Stops("unblacklist", Way!Having({"cleared"}, Way!Answer))
    BY DoneStops, DoneBy
  <2> QED BY <1>0, <1>16, <2>1 DEF Way!Unblacklist
<1>17. CASE h = "newwelcome"
  <2>1. Stops("newwelcome", Way!Having({"welcome prompt"}, Way!Answer))
    BY DoneStops, DoneBy
  <2> QED BY <1>0, <1>17, <2>1 DEF Way!NewWelcome
<1>18. CASE h = "welcome reply"
  <2>1. Stops("welcome reply", Way!Having({"welcome"}, Way!Answer))
    BY DoneStops, DoneBy
  <2> QED BY <1>0, <1>18, <2>1 DEF Way!CaptureWelcome
<1>19. CASE h = "welcome join"
  <2>1. Stops("welcome join", Way!Having({"welcomed"}, Way!Answer))
    BY DoneStops, DoneBy
  <2> QED BY <1>0, <1>19, <2>1 DEF Way!WelcomeJoin, Way!SendWelcome
<1>20. CASE h = "sticker spam"
  <2>1. Stops("sticker spam", Way!Having({"message deleted"}, Way!Unsaid))
    BY DoneStops, DoneBy
  <2> QED BY <1>0, <1>20, <2>1 DEF Way!AntiSpam
<1> QED BY <1>1, <1>2, <1>3, <1>4, <1>5, <1>6, <1>7, <1>8, <1>9, <1>10, <1>11, <1>12, <1>13,
       <1>14, <1>15, <1>16, <1>17, <1>18, <1>19, <1>20 DEF Doers

\* Those that leave something to the workers.
LEMMA DelegatorsStop ==
  ASSUME Apart, NEW h \in {"everyone", "meme", "destroy", "birthday", "youtube", "searchsource"},
         NEW m, NEW c
  PROVE  AllStop(h, Way!Outcomes(h, m, c))
<1>1. \A x : AllStop(x, PlainOnes)
  BY PlainFits
<1>2. Way!Answer.mark = Nothing /\ Way!Unsaid.mark = Nothing
  BY OutcomeShapes DEF Outcome
<1>3. /\ AllStop("everyone", Way!Enqueued("everyone", Way!Answer))
      /\ AllStop("meme", Way!Enqueued("meme", Way!Unsaid))
      /\ AllStop("destroy", Way!Enqueued("distort", Way!Unsaid))
      /\ AllStop("birthday", Way!Enqueued("collage", Way!Unsaid))
      /\ AllStop("youtube", Way!Enqueued("youtube", Way!Unsaid))
      /\ AllStop("searchsource", Way!Enqueued("reverse search", Way!Unsaid))
  <2>1. /\ <<"everyone", "everyone">> \in Delegates /\ <<"meme", "meme">> \in Delegates
        /\ <<"destroy", "distort">> \in Delegates /\ <<"birthday", "collage">> \in Delegates
        /\ <<"youtube", "youtube">> \in Delegates
        /\ <<"searchsource", "reverse search">> \in Delegates
    BY DEF Delegates
  <2>2. Way!Answer \in PlainOnes /\ Way!Unsaid \in PlainOnes
    BY DEF PlainOnes
  <2> QED BY <1>2, <2>1, <2>2, EnqueuedStops
<1> USE <1>1, <1>3 DEF AllStop, PlainOnes, Way!Outcomes
<1>4. CASE h \in {"everyone", "meme"}
  BY <1>4 DEF Way!Everyone, Way!Meme, Way!Soft
<1>5. CASE h = "destroy"
  BY <1>5 DEF Way!Destroy, Way!DestroyOwnPhoto, Way!Soft
<1>6. CASE h \in {"birthday", "youtube", "searchsource"}
  BY <1>6 DEF Way!Birthday, Way!YouTube, Way!SearchSource, Way!Soft, Way!Loud
<1> QED BY <1>4, <1>5, <1>6

LEMMA CallPressStops ==
  ASSUME Apart, NEW m, NEW c
  PROVE  AllStop("call press", Way!Outcomes("call press", m, c))
<1>1. AllStop("call press", PlainOnes)
  BY PlainFits
<1>2. AllStop("call press", Way!Enqueued("call admins", Way!Answer))
  <2>1. Way!Answer \in PlainOnes /\ <<"call press", "call admins">> \in Delegates
    BY DEF PlainOnes, Delegates
  <2>2. Way!Answer.mark = Nothing
    BY OutcomeShapes DEF Outcome
  <2> QED BY <2>1, <2>2, EnqueuedStops
<1> DEFINE S == {Way!Refusal, Way!Notice} \cup Way!Enqueued("call admins", Way!Answer)
<1>3. AllStop("call press", {Way!Having({"prompt deleted"}, a) : a \in S})
  <2>1. AllStop("call press", S)
    BY <1>1, <1>2 DEF AllStop, PlainOnes
  <2> HIDE DEF S
  <2>2. AllStop("call press", HavingAll({"prompt deleted"}, S))
    BY <2>1, HavingStops, DoneBy
  <2> QED BY <2>2 DEF HavingAll
<1> QED BY <1>3 DEF AllStop, Way!Outcomes, Way!ConfirmCall

\* The one that marks its answer with the job.
LEMMA BroadcastStops ==
  ASSUME Apart, NEW m, NEW c
  PROVE  AllStop("broadcast", Way!Outcomes("broadcast", m, c))
<1>1. AllStop("broadcast", PlainOnes)
  BY PlainFits
<1>2. [Way!Answer EXCEPT !.job = "broadcast"] \in Way!Enqueued("broadcast", Way!Answer)
  BY DEF Way!Enqueued
<1>3. Stops("broadcast", [Way!Answer EXCEPT !.job = "broadcast"])
  <2>1. AllStop("broadcast", Way!Enqueued("broadcast", Way!Answer))
    <3>1. Way!Answer \in PlainOnes /\ <<"broadcast", "broadcast">> \in Delegates
      BY DEF PlainOnes, Delegates
    <3>2. Way!Answer.mark = Nothing
      BY OutcomeShapes DEF Outcome
    <3> QED BY <3>1, <3>2, EnqueuedStops
  <2> QED BY <1>2, <2>1 DEF AllStop
<1> QED BY <1>1, <1>3 DEF AllStop, PlainOnes, Way!Outcomes, Way!Broadcast

LEMMA CaptchaStops ==
  ASSUME Apart, NEW h \in {"captcha reply", "captcha press"}, NEW m, NEW c
  PROVE  AllStop(h, Way!Outcomes(h, m, c))
<1>1. AllStop(h, PlainOnes)
  BY PlainFits
<1>2. AllStop(h, Way!SendWelcome)
  <2>1. Stops(h, Way!Having({"welcomed"}, Way!Answer))
    BY DoneStops, DoneBy DEF PlainOnes
  <2> QED BY <1>1, <2>1 DEF AllStop, PlainOnes, Way!SendWelcome
<1>3. AllStop(h, HavingAll({"solved"}, Way!SendWelcome))
  <2>1. May(h, {"solved"})
    BY DoneBy
  <2> QED BY <1>2, <2>1, HavingStops
<1>4. Stops(h, Way!Having({"attempt"}, Way!Notice)) /\ Stops(h, Way!Kicked)
  BY DoneStops, DoneBy DEF PlainOnes, Way!Kicked
<1>5. AllStop(h, Way!ResolveAttempt)
  BY <1>3, <1>4 DEF AllStop, Way!ResolveAttempt, HavingAll
<1>6. CASE h = "captcha reply"
  <2>1. May(h, {"message deleted"})
    BY <1>6, DoneBy
  <2>2. AllStop(h, HavingAll({"message deleted"}, Way!ResolveAttempt))
    BY <1>5, <2>1, HavingStops
  <2> QED BY <1>6, <2>2 DEF HavingAll, Way!Outcomes, Way!CaptchaReply
<1>7. CASE h = "captcha press"
  BY <1>1, <1>5, <1>7 DEF AllStop, PlainOnes, Way!Outcomes, Way!CaptchaPress
<1> QED BY <1>6, <1>7

LEMMA AssistantStops ==
  ASSUME Apart, NEW h \in {"ai", "voice ai"}, NEW m, NEW c
  PROVE  AllStop(h, Way!Outcomes(h, m, c))
<1>1. AllStop(h, PlainOnes)
  BY PlainFits
<1>2. AllStop(h, Way!ReplyWithAi \cup {Way!Silence})
  BY <1>1 DEF AllStop, PlainOnes, Way!ReplyWithAi
<1>3. ASSUME NEW S, AllStop(h, S) PROVE AllStop(h, Way!Windowed(S))
  <2> DEFINE T == {Way!Refusal, Way!Silence} \cup S
  <2>1. AllStop(h, T)
    BY <1>1, <1>3 DEF AllStop, PlainOnes
  <2>2. AllStop(h, HavingAll({"window charged"}, T))
    <3>1. May(h, {"window charged"})
      BY DoneBy
    <3> HIDE DEF T
    <3> QED BY <2>1, <3>1, HavingStops
  <2> QED BY <1>3, <2>2 DEF AllStop, Way!Windowed, HavingAll
<1>4. CASE h = "ai"
  <2> DEFINE S == {Way!Silence} \cup Way!ReplyWithAi
  <2>1. AllStop(h, HavingAll({"streak spent"}, S))
    <3>1. AllStop(h, S)
      BY <1>2 DEF AllStop
    <3>2. May(h, {"streak spent"})
      BY <1>4, DoneBy
    <3> HIDE DEF S
    <3> QED BY <3>1, <3>2, HavingStops
  <2>2. AllStop(h, {Way!Having({"streak spent"}, a) : a \in S} \cup Way!ReplyWithAi)
    BY <1>2, <2>1 DEF AllStop, HavingAll
  <2> QED BY <1>3, <1>4, <2>2 DEF Way!Outcomes, Way!AiReply
<1>5. CASE h = "voice ai"
  <2>1. AllStop(h, UNION {IF t = Nothing THEN {Way!Refusal} ELSE Way!ReplyWithAi :
                            t \in Way!Transcript})
    BY <1>1, <1>2 DEF AllStop, PlainOnes
  <2> QED BY <1>3, <1>5, <2>1 DEF Way!Outcomes, Way!VoiceAi
<1> QED BY <1>4, <1>5

LEMMA SkipsFit ==
  ASSUME Apart, NEW h \in Passing, NEW D, May(h, D), D \subseteq PassedDeeds
  PROVE  Fits(h, Way!Having(D, Way!Skip))
BY PlainFits, HavingFits

\* Those that may pass the update on.
LEMMA PassersFit ==
  ASSUME Apart, NEW h \in Passing, NEW m, NEW c
  PROVE  AllFit(h, Way!Outcomes(h, m, c))
<1>1. \A o \in PlainOnes : Fits(h, o)
  BY PlainFits DEF AllStop, Stops
<1>2. Fits(h, Way!Skip)
  BY PlainFits
<1>3. ASSUME NEW D, May(h, D), NEW o \in PlainOnes
      PROVE  Fits(h, Way!Having(D, o))
  BY <1>3, DoneStops DEF Stops
<1> USE DEF AllFit, Way!Outcomes
<1>4. CASE h = "register"
  <2>1. Fits(h, Way!Having({"sender"}, Way!Skip))
    <3>1. May(h, {"sender"}) /\ {"sender"} \subseteq PassedDeeds
      BY <1>4, DoneBy DEF PassedDeeds
    <3> QED BY <3>1, SkipsFit
  <2> QED BY <1>2, <1>4, <2>1 DEF Way!RegisterSender
<1>5. CASE h = "search"
  <2>1. AllFit(h, {Way!Skip}) /\ AllFit(h, {Way!Silence})
    BY <1>1, <1>2 DEF PlainOnes
  <2> DEFINE S == UNION {IF within THEN {Way!Silence} \cup Way!Enqueued("image search", Way!Unsaid)
                         ELSE {Way!Notice} : within \in Way!WithinQuota}
  <2>2. AllFit(h, {Way!Having({"quota charged"}, a) : a \in S})
    <3>1. AllStop(h, S)
      <4>1. AllStop(h, PlainOnes)
        BY PlainFits
      <4>2. AllStop(h, Way!Enqueued("image search", Way!Unsaid))
        <5>1. <<h, "image search">> \in Delegates /\ Way!Unsaid \in PlainOnes
          BY <1>5 DEF Delegates, PlainOnes
        <5>2. Way!Unsaid.mark = Nothing
          BY OutcomeShapes DEF Outcome
        <5> QED BY <5>1, <5>2, EnqueuedStops
      <4> QED BY <4>1, <4>2 DEF AllStop, PlainOnes
    <3>2. May(h, {"quota charged"})
      BY <1>5, DoneBy
    <3> HIDE DEF S
    <3>3. AllStop(h, HavingAll({"quota charged"}, S))
      BY <3>1, <3>2, HavingStops
    <3> QED BY <3>3 DEF HavingAll, AllStop, Stops
  <2> QED BY <1>5, <2>1, <2>2 DEF Way!CatchAllSearch
<1>6. CASE h = "join record"
  <2>1. Fits(h, Way!Having({"joined"}, Way!Skip))
    <3>1. May(h, {"joined"}) /\ {"joined"} \subseteq PassedDeeds
      BY <1>6, DoneBy DEF PassedDeeds
    <3> QED BY <3>1, SkipsFit
  <2> QED BY <1>2, <1>6, <2>1 DEF Way!RecordJoin
<1>7. CASE h = "restriction"
  <2>1. Fits(h, Way!Having({"message deleted"}, Way!Notice)) /\ Fits(h, Way!Notice)
    BY <1>1, <1>3, <1>7, DoneBy DEF PlainOnes
  <2> QED BY <1>2, <1>7, <2>1 DEF Way!EnforceRestriction
<1>8. CASE h = "bot added"
  <2>1. May(h, {}) /\ May(h, {"language"})
    BY <1>8, DoneBy
  <2>2. ASSUME NEW d \in {{}, {"language"}}, NEW a \in {Way!Unsaid, Way!Answer}
        PROVE  Fits(h, Way!Having(d, a))
    BY <1>3, <2>1, <2>2 DEF PlainOnes
  <2>3. AllFit(h, Way!BotAdded(m))
    <3>1. SUFFICES ASSUME NEW o \in Way!BotAdded(m) PROVE Fits(h, o)
      OBVIOUS
    <3>2. CASE o = Way!Skip
      BY <1>2, <3>2
    <3>3. CASE o # Way!Skip
      <4>1. PICK d \in {{}, {"language"}}, a \in {Way!Unsaid, Way!Answer} : o = Way!Having(d, a)
        BY <3>1, <3>3 DEF Way!BotAdded
      <4> QED BY <2>2, <4>1
    <3> QED BY <3>2, <3>3
  <2> QED BY <1>8, <2>3
<1>9. CASE h = "doomlist"
  <2>1. /\ Fits(h, Way!Having({"listed", "banned"}, Way!Answer))
        /\ Fits(h, Way!Having({"banned"}, Way!Answer))
    BY <1>3, <1>9, DoneBy DEF PlainOnes
  <2> QED BY <1>2, <1>9, <2>1 DEF Way!DoomJoin
<1>10. CASE h = "captcha join"
  <2>1. Fits(h, Way!Having({"challenged"}, Way!Answer))
    BY <1>3, <1>10, DoneBy DEF PlainOnes
  <2> QED BY <1>2, <1>10, <2>1 DEF Way!GuardJoin
<1>11. CASE h \in {"sticker", "sticker reply"}
  <2>1. Fits(h, Way!Fetch)
    BY <1>11, PlainFits
  <2>2. AllFit(h, Way!Stickered(m, c))
    BY <1>2, <2>1 DEF Way!Stickered
  <2>3. CASE h = "sticker"
    <3>1. May(h, {"sticker pooled"}) /\ {"sticker pooled"} \subseteq PassedDeeds
      BY <2>3, DoneBy DEF PassedDeeds
    <3>2. \A a \in Way!Stickered(m, c) : Fits(h, Way!Having({"sticker pooled"}, a))
      BY <2>2, <3>1, HavingFits
    <3> QED BY <2>2, <2>3, <3>2 DEF Way!StickerUpdate
  <2>4. CASE h = "sticker reply"
    BY <2>2, <2>4 DEF Way!StickerReply
  <2> QED BY <1>11, <2>3, <2>4
<1>12. CASE h = "relay"
  <2>1. Fits(h, Way!Having({"relayed"}, Way!Answer)) /\ Fits(h, Way!Answer)
    BY <1>1, <1>3, <1>12, DoneBy DEF PlainOnes
  <2> QED BY <1>2, <1>12, <2>1 DEF Way!RelayReply
<1>13. CASE h = "replenish"
  <2>1. Fits(h, Way!Having({"replenished"}, Way!Skip))
    <3>1. May(h, {"replenished"}) /\ {"replenished"} \subseteq PassedDeeds
      BY <1>13, DoneBy DEF PassedDeeds
    <3> QED BY <3>1, SkipsFit
  <2> QED BY <1>13, <2>1 DEF Way!Replenish
<1>14. CASE h = "music"
  <2>1. <<h, "identify music">> \in Delegates
    BY <1>14 DEF Delegates
  <2>2. Way!Skip.mark = Nothing
    BY OutcomeShapes DEF Outcome
  <2>3. \A p \in Way!Enqueued("identify music", Way!Skip) : Fits(h, p)
    BY <1>2, <1>14, <2>1, <2>2, EnqueuedFits
  <2> QED BY <1>2, <1>14, <2>3 DEF Way!IdentifyMusic
<1>15. CASE h = "embedder"
  BY <1>1, <1>2, <1>15 DEF Way!EmbedLinks, PlainOnes
<1>16. CASE h = "share"
  <2>1. Fits(h, Way!Having({"post cached"}, Way!Answer))
    BY <1>3, <1>16, DoneBy DEF PlainOnes
  <2> QED BY <1>2, <1>16, <2>1 DEF Way!OfferToShare
<1>17. CASE h = "pool"
  <2>1. Fits(h, Way!Having({"pooled"}, Way!Skip))
    <3>1. May(h, {"pooled"}) /\ {"pooled"} \subseteq PassedDeeds
      BY <1>17, DoneBy DEF PassedDeeds
    <3> QED BY <3>1, SkipsFit
  <2> QED BY <1>2, <1>17, <2>1 DEF Way!PoolMedia
<1> QED BY <1>4, <1>5, <1>6, <1>7, <1>8, <1>9, <1>10, <1>11, <1>12, <1>13, <1>14, <1>15, <1>16,
           <1>17 DEF Passing

\* The others among those who keep the update.
Delegators == {"everyone", "meme", "destroy", "birthday", "youtube", "searchsource"}
Asked == {"call press", "broadcast", "captcha reply", "captcha press", "ai", "voice ai"}

\* Who stands in the chain, and where those stand whose place matters.
LEMMA Stations ==
  ASSUME NEW i \in 1..70
  PROVE  /\ Way!Chain[i] \in Speakers \cup Doers \cup Passing \cup Delegators \cup Asked
         /\ Way!Chain[i] = "restriction" => i = 49
         /\ Way!Chain[i] = "sticker" => i = 58
         /\ Way!Chain[i] = "sticker spam" => i = 59
         /\ Way!Chain[i] = "ai" => i = 61
         /\ Way!Chain[i] = "replenish" => i = 62
         /\ Way!Chain[i] = "music" => i = 63
         /\ Way!Chain[i] = "voice ai" => i = 64
         /\ Way!Chain[i] = "share" => i = 67
         /\ Way!Chain[i] = "sticker reply" => i = 68
         /\ Way!Chain[i] = "pool" => i = 69
         /\ Way!Chain[i] = "random" => i = 70
<1>1. \/ i \in 1..10 \/ i \in 11..20 \/ i \in 21..30 \/ i \in 31..40 \/ i \in 41..50
      \/ i \in 51..60 \/ i \in 61..70
  OBVIOUS
<1>2. CASE i \in 1..10
  <2>1. \/ i = 1 \/ i = 2 \/ i = 3 \/ i = 4 \/ i = 5 \/ i = 6 \/ i = 7 \/ i = 8 \/ i = 9
        \/ i = 10
    BY <1>2
  <2>2. /\ Way!Chain[1] = "register" /\ Way!Chain[2] = "isalive" /\ Way!Chain[3] = "privacy"
        /\ Way!Chain[4] = "analysis" /\ Way!Chain[5] = "reload" /\ Way!Chain[6] = "commands"
        /\ Way!Chain[7] = "config" /\ Way!Chain[8] = "config press"
        /\ Way!Chain[9] = "config reply" /\ Way!Chain[10] = "rules"
    BY DEF Way!Chain
  <2>3. /\ Way!Chain[2] \in Speakers /\ Way!Chain[3] \in Speakers
        /\ Way!Chain[4] \in Speakers /\ Way!Chain[6] \in Speakers
        /\ Way!Chain[10] \in Speakers
    BY <2>2 DEF Speakers
  <2>4. /\ Way!Chain[5] \in Doers /\ Way!Chain[7] \in Doers /\ Way!Chain[8] \in Doers
        /\ Way!Chain[9] \in Doers
    BY <2>2 DEF Doers
  <2>5. /\ Way!Chain[1] \in Passing
    BY <2>2 DEF Passing
  <2>6. Way!Chain[i] \in Speakers \cup Doers \cup Passing \cup Delegators \cup Asked
    BY <2>1, <2>3, <2>4, <2>5
  <2> QED BY <2>1, <2>2, <2>6
<1>3. CASE i \in 11..20
  <2>1. \/ i = 11 \/ i = 12 \/ i = 13 \/ i = 14 \/ i = 15 \/ i = 16 \/ i = 17 \/ i = 18
        \/ i = 19 \/ i = 20
    BY <1>3
  <2>2. /\ Way!Chain[11] = "newrules" /\ Way!Chain[12] = "rules reply"
        /\ Way!Chain[13] = "calladms" /\ Way!Chain[14] = "call press"
        /\ Way!Chain[15] = "complaint" /\ Way!Chain[16] = "complaint reply"
        /\ Way!Chain[17] = "death" /\ Way!Chain[18] = "dice" /\ Way!Chain[19] = "ship"
        /\ Way!Chain[20] = "firecracker"
    BY DEF Way!Chain
  <2>3. /\ Way!Chain[15] \in Speakers /\ Way!Chain[17] \in Speakers
        /\ Way!Chain[18] \in Speakers /\ Way!Chain[19] \in Speakers
        /\ Way!Chain[20] \in Speakers
    BY <2>2 DEF Speakers
  <2>4. /\ Way!Chain[11] \in Doers /\ Way!Chain[12] \in Doers /\ Way!Chain[13] \in Doers
        /\ Way!Chain[16] \in Doers
    BY <2>2 DEF Doers
  <2>5. /\ Way!Chain[14] \in Asked
    BY <2>2 DEF Asked
  <2>6. Way!Chain[i] \in Speakers \cup Doers \cup Passing \cup Delegators \cup Asked
    BY <2>1, <2>3, <2>4, <2>5
  <2> QED BY <2>1, <2>2, <2>6
<1>4. CASE i \in 21..30
  <2>1. \/ i = 21 \/ i = 22 \/ i = 23 \/ i = 24 \/ i = 25 \/ i = 26 \/ i = 27 \/ i = 28
        \/ i = 29 \/ i = 30
    BY <1>4
  <2>2. /\ Way!Chain[21] = "everyone" /\ Way!Chain[22] = "battle" /\ Way!Chain[23] = "meme"
        /\ Way!Chain[24] = "unearth" /\ Way!Chain[25] = "con" /\ Way!Chain[26] = "age"
        /\ Way!Chain[27] = "gender" /\ Way!Chain[28] = "fortune"
        /\ Way!Chain[29] = "drawingidea" /\ Way!Chain[30] = "youtube"
    BY DEF Way!Chain
  <2>3. /\ Way!Chain[22] \in Speakers /\ Way!Chain[24] \in Speakers
        /\ Way!Chain[25] \in Speakers /\ Way!Chain[26] \in Speakers
        /\ Way!Chain[27] \in Speakers /\ Way!Chain[29] \in Speakers
    BY <2>2 DEF Speakers
  <2>4. /\ Way!Chain[28] \in Doers
    BY <2>2 DEF Doers
  <2>5. /\ Way!Chain[21] \in Delegators /\ Way!Chain[23] \in Delegators
        /\ Way!Chain[30] \in Delegators
    BY <2>2 DEF Delegators
  <2>6. Way!Chain[i] \in Speakers \cup Doers \cup Passing \cup Delegators \cup Asked
    BY <2>1, <2>3, <2>4, <2>5
  <2> QED BY <2>1, <2>2, <2>6
<1>5. CASE i \in 31..40
  <2>1. \/ i = 31 \/ i = 32 \/ i = 33 \/ i = 34 \/ i = 35 \/ i = 36 \/ i = 37 \/ i = 38
        \/ i = 39 \/ i = 40
    BY <1>5
  <2>2. /\ Way!Chain[31] = "birthday" /\ Way!Chain[32] = "nextbirthday"
        /\ Way!Chain[33] = "publish" /\ Way!Chain[34] = "repost"
        /\ Way!Chain[35] = "deletereposts" /\ Way!Chain[36] = "searchsource"
        /\ Way!Chain[37] = "destroy" /\ Way!Chain[38] = "giveaway"
        /\ Way!Chain[39] = "groups" /\ Way!Chain[40] = "leave"
    BY DEF Way!Chain
  <2>3. /\ Way!Chain[32] \in Speakers /\ Way!Chain[39] \in Speakers
    BY <2>2 DEF Speakers
  <2>4. /\ Way!Chain[33] \in Doers /\ Way!Chain[34] \in Doers /\ Way!Chain[35] \in Doers
        /\ Way!Chain[38] \in Doers /\ Way!Chain[40] \in Doers
    BY <2>2 DEF Doers
  <2>5. /\ Way!Chain[31] \in Delegators /\ Way!Chain[36] \in Delegators
        /\ Way!Chain[37] \in Delegators
    BY <2>2 DEF Delegators
  <2>6. Way!Chain[i] \in Speakers \cup Doers \cup Passing \cup Delegators \cup Asked
    BY <2>1, <2>3, <2>4, <2>5
  <2> QED BY <2>1, <2>2, <2>6
<1>6. CASE i \in 41..50
  <2>1. \/ i = 41 \/ i = 42 \/ i = 43 \/ i = 44 \/ i = 45 \/ i = 46 \/ i = 47 \/ i = 48
        \/ i = 49 \/ i = 50
    BY <1>6
  <2>2. /\ Way!Chain[41] = "blacklist" /\ Way!Chain[42] = "unblacklist"
        /\ Way!Chain[43] = "broadcast" /\ Way!Chain[44] = "stop" /\ Way!Chain[45] = "custom"
        /\ Way!Chain[46] = "anything" /\ Way!Chain[47] = "search"
        /\ Way!Chain[48] = "join record" /\ Way!Chain[49] = "restriction"
        /\ Way!Chain[50] = "bot added"
    BY DEF Way!Chain
  <2>3. /\ Way!Chain[44] \in Speakers /\ Way!Chain[45] \in Speakers
        /\ Way!Chain[46] \in Speakers
    BY <2>2 DEF Speakers
  <2>4. /\ Way!Chain[41] \in Doers /\ Way!Chain[42] \in Doers
    BY <2>2 DEF Doers
  <2>5. /\ Way!Chain[47] \in Passing /\ Way!Chain[48] \in Passing
        /\ Way!Chain[49] \in Passing /\ Way!Chain[50] \in Passing
    BY <2>2 DEF Passing
  <2>6. /\ Way!Chain[43] \in Asked
    BY <2>2 DEF Asked
  <2>7. Way!Chain[i] \in Speakers \cup Doers \cup Passing \cup Delegators \cup Asked
    BY <2>1, <2>3, <2>4, <2>5, <2>6
  <2> QED BY <2>1, <2>2, <2>7
<1>7. CASE i \in 51..60
  <2>1. \/ i = 51 \/ i = 52 \/ i = 53 \/ i = 54 \/ i = 55 \/ i = 56 \/ i = 57 \/ i = 58
        \/ i = 59 \/ i = 60
    BY <1>7
  <2>2. /\ Way!Chain[51] = "doomlist" /\ Way!Chain[52] = "captcha join"
        /\ Way!Chain[53] = "captcha reply" /\ Way!Chain[54] = "captcha press"
        /\ Way!Chain[55] = "welcome join" /\ Way!Chain[56] = "newwelcome"
        /\ Way!Chain[57] = "welcome reply" /\ Way!Chain[58] = "sticker"
        /\ Way!Chain[59] = "sticker spam" /\ Way!Chain[60] = "relay"
    BY DEF Way!Chain
  <2>3. /\ Way!Chain[55] \in Doers /\ Way!Chain[56] \in Doers /\ Way!Chain[57] \in Doers
        /\ Way!Chain[59] \in Doers
    BY <2>2 DEF Doers
  <2>4. /\ Way!Chain[51] \in Passing /\ Way!Chain[52] \in Passing
        /\ Way!Chain[58] \in Passing /\ Way!Chain[60] \in Passing
    BY <2>2 DEF Passing
  <2>5. /\ Way!Chain[53] \in Asked /\ Way!Chain[54] \in Asked
    BY <2>2 DEF Asked
  <2>6. Way!Chain[i] \in Speakers \cup Doers \cup Passing \cup Delegators \cup Asked
    BY <2>1, <2>3, <2>4, <2>5
  <2> QED BY <2>1, <2>2, <2>6
<1>8. CASE i \in 61..70
  <2>1. \/ i = 61 \/ i = 62 \/ i = 63 \/ i = 64 \/ i = 65 \/ i = 66 \/ i = 67 \/ i = 68
        \/ i = 69 \/ i = 70
    BY <1>8
  <2>2. /\ Way!Chain[61] = "ai" /\ Way!Chain[62] = "replenish" /\ Way!Chain[63] = "music"
        /\ Way!Chain[64] = "voice ai" /\ Way!Chain[65] = "transcribe"
        /\ Way!Chain[66] = "embedder" /\ Way!Chain[67] = "share"
        /\ Way!Chain[68] = "sticker reply" /\ Way!Chain[69] = "pool"
        /\ Way!Chain[70] = "random"
    BY DEF Way!Chain
  <2>3. /\ Way!Chain[65] \in Speakers /\ Way!Chain[70] \in Speakers
    BY <2>2 DEF Speakers
  <2>4. /\ Way!Chain[62] \in Passing /\ Way!Chain[63] \in Passing
        /\ Way!Chain[66] \in Passing /\ Way!Chain[67] \in Passing
        /\ Way!Chain[68] \in Passing /\ Way!Chain[69] \in Passing
    BY <2>2 DEF Passing
  <2>5. /\ Way!Chain[61] \in Asked /\ Way!Chain[64] \in Asked
    BY <2>2 DEF Asked
  <2>6. Way!Chain[i] \in Speakers \cup Doers \cup Passing \cup Delegators \cup Asked
    BY <2>1, <2>3, <2>4, <2>5
  <2> QED BY <2>1, <2>2, <2>6
<1> QED BY <1>1, <1>2, <1>3, <1>4, <1>5, <1>6, <1>7, <1>8

LEMMA ChainLength == DOMAIN Way!Chain = 1..70 /\ Len(Way!Chain) = 70
BY DEF Way!Chain

LEMMA Guards == Way!Chain[49] = "restriction" /\ Way!Chain[53] = "captcha reply"
BY DEF Way!Chain

\* Whoever is asked comes to what the table says of it.
LEMMA EverybodyFits ==
  ASSUME Apart, NEW h \in Speakers \cup Doers \cup Passing \cup Delegators \cup Asked, NEW m, NEW c
  PROVE  AllFit(h, Way!Outcomes(h, m, c))
<1>1. CASE AllStop(h, Way!Outcomes(h, m, c))
  BY <1>1 DEF AllStop, AllFit, Stops
<1>2. CASE h \in Speakers
  <2>1. AllStop(h, PlainOnes) /\ Way!Outcomes(h, m, c) \subseteq PlainOnes
    BY <1>2, PlainFits, SpeakersStop
  <2> QED BY <1>1, <2>1 DEF AllStop
<1>3. CASE h \in Passing
  BY <1>3, PassersFit
<1>4. CASE h \in Delegators
  BY <1>1, <1>4, DelegatorsStop DEF Delegators
<1>5. CASE h \in {"captcha reply", "captcha press", "ai", "voice ai"}
  BY <1>1, <1>5, CaptchaStops, AssistantStops
<1>6. CASE h \in {"call press", "broadcast"}
  BY <1>1, <1>6, CallPressStops, BroadcastStops
<1>7. CASE h \in Doers
  BY <1>1, <1>7, DoersStop
<1> QED BY <1>2, <1>3, <1>4, <1>5, <1>6, <1>7 DEF Asked

LEMMA LateStations ==
  ASSUME NEW i \in 60..70
  PROVE  Way!Chain[i] \in {"relay", "ai", "replenish", "music", "voice ai", "transcribe", "embedder",
                           "share", "sticker reply", "pool", "random"}
<1>1. \/ i = 60 \/ i = 61 \/ i = 62 \/ i = 63 \/ i = 64 \/ i = 65 \/ i = 66 \/ i = 67 \/ i = 68
      \/ i = 69 \/ i = 70
  OBVIOUS
<1>2. /\ Way!Chain[60] = "relay" /\ Way!Chain[61] = "ai" /\ Way!Chain[62] = "replenish"
      /\ Way!Chain[63] = "music" /\ Way!Chain[64] = "voice ai" /\ Way!Chain[65] = "transcribe"
      /\ Way!Chain[66] = "embedder" /\ Way!Chain[67] = "share" /\ Way!Chain[68] = "sticker reply"
      /\ Way!Chain[69] = "pool" /\ Way!Chain[70] = "random"
  BY DEF Way!Chain
<1> DEFINE S == {"relay", "ai", "replenish", "music", "voice ai", "transcribe", "embedder", "share",
                 "sticker reply", "pool", "random"}
<1>3. /\ Way!Chain[60] \in S /\ Way!Chain[61] \in S /\ Way!Chain[62] \in S /\ Way!Chain[63] \in S
      /\ Way!Chain[64] \in S /\ Way!Chain[65] \in S /\ Way!Chain[66] \in S /\ Way!Chain[67] \in S
      /\ Way!Chain[68] \in S /\ Way!Chain[69] \in S /\ Way!Chain[70] \in S
  BY <1>2
<1>4. Way!Chain[i] \in S
  <2> HIDE DEF S
  <2> QED BY <1>1, <1>3
<1> QED BY <1>4

\* An update as it may arrive: what has a name is a command, and what has a text
\* was written.
Arriving(m) ==
  /\ m.name \in Way!CanonicalCommands \cup {Nothing}
  /\ m.name # Nothing => m.text = "command" /\ m.body = "text"
  /\ m.text \in {"plain", "link", "command", "@adm", "@everyone", "folder", "unknown", "other"}
     => m.body = "text"

\* What is nothing is the name of no command and of no handler.
Nameless ==
  /\ Nothing \notin Way!CanonicalCommands
  /\ \A i \in 1..70 : Way!Chain[i] # Nothing
  /\ Nothing \notin {"gate", "nobody"}

\* What a command's own handler takes is that command.
LEMMA OwnCommands ==
  ASSUME NEW m, NEW c, NEW h \in Way!Unaliased, Way!Claims(h, m, c)
  PROVE  m.name = h
<1>1. \/ h \in {"isalive", "privacy", "analysis", "reload", "commands", "config"}
      \/ h \in {"rules", "newrules", "complaint", "death", "dice", "ship"}
      \/ h \in {"firecracker", "battle", "meme", "unearth", "age", "gender"}
      \/ h \in {"fortune", "drawingidea", "youtube", "birthday", "nextbirthday", "publish"}
      \/ h \in {"repost", "deletereposts", "searchsource", "destroy", "giveaway", "anything"}
      \/ h \in {"newwelcome", "transcribe", "random"}
  BY DEF Way!Unaliased
<1>2. CASE h \in {"isalive", "privacy", "analysis", "reload", "commands", "config"}
  BY <1>2 DEF Way!Claims, Way!Takes, Way!Unaliased
<1>3. CASE h \in {"rules", "newrules", "complaint", "death", "dice", "ship"}
  BY <1>3 DEF Way!Claims, Way!Takes, Way!Unaliased
<1>4. CASE h \in {"firecracker", "battle", "meme", "unearth", "age", "gender"}
  BY <1>4 DEF Way!Claims, Way!Takes, Way!Unaliased
<1>5. CASE h \in {"fortune", "drawingidea", "youtube", "birthday", "nextbirthday", "publish"}
  BY <1>5 DEF Way!Claims, Way!Takes, Way!Unaliased
<1>6. CASE h \in {"repost", "deletereposts", "searchsource", "destroy", "giveaway", "anything"}
  BY <1>6 DEF Way!Claims, Way!Takes, Way!Unaliased
<1>7. CASE h \in {"newwelcome", "transcribe", "random"}
  BY <1>7 DEF Way!Claims, Way!Takes, Way!Unaliased
<1> QED BY <1>1, <1>2, <1>3, <1>4, <1>5, <1>6, <1>7

\* What the others take.
LEMMA Takings ==
  ASSUME NEW m, NEW c
  PROVE  /\ Way!Claims("everyone", m, c) => m.name = "everyone" \/ m.text = "@everyone"
         /\ Way!Claims("rules reply", m, c) => m.body = "text" /\ m.text # "command"
         /\ Way!Claims("welcome reply", m, c) => m.body = "text" /\ m.text # "command"
         /\ Way!Claims("join record", m, c) => m.body = "join"
         /\ Way!Claims("call press", m, c) => m.body = "callback"
         /\ Way!Claims("broadcast", m, c) => m.name = "broadcast"
         /\ Way!Claims("sticker", m, c) => m.body = "sticker"
         /\ Way!Claims("replenish", m, c) => m.body = "text"
         /\ Way!Claims("music", m, c) => m.body = "voice"
         /\ Way!Claims("sticker reply", m, c) => m.body \in {"document", "animation"}
         /\ Way!Claims("pool", m, c) => m.body \in {"photo", "video"}
<1> USE DEF Way!Claims, Way!Takes, Way!Unaliased, Way!OwnersCommands
<1>1. Way!Claims("everyone", m, c) => m.name = "everyone" \/ m.text = "@everyone"
  BY DEF Way!IsEveryoneMention
<1>2. Way!Claims("rules reply", m, c) => m.body = "text" /\ m.text # "command"
  BY DEF Way!IsNewRulesReply, Way!Says, Way!Slash
<1>3. Way!Claims("welcome reply", m, c) => m.body = "text" /\ m.text # "command"
  BY DEF Way!IsWelcomeReply, Way!Says, Way!Slash
<1>4. Way!Claims("join record", m, c) => m.body = "join"
  BY DEF Way!Joins
<1>5. Way!Claims("call press", m, c) => m.body = "callback"
  OBVIOUS
<1>6. Way!Claims("broadcast", m, c) => m.name = "broadcast"
  OBVIOUS
<1>7. Way!Claims("sticker", m, c) => m.body = "sticker"
  OBVIOUS
<1>8. Way!Claims("replenish", m, c) => m.body = "text"
  BY DEF Way!Says
<1>9. Way!Claims("music", m, c) => m.body = "voice"
  OBVIOUS
<1>10. Way!Claims("sticker reply", m, c) => m.body \in {"document", "animation"}
  OBVIOUS
<1>11. Way!Claims("pool", m, c) => m.body \in {"photo", "video"}
  OBVIOUS
<1> QED BY <1>1, <1>2, <1>3, <1>4, <1>5, <1>6, <1>7, <1>8, <1>9, <1>10, <1>11

\* Past the spam filter nobody takes a sticker, and past the pictures' replies
\* nobody takes a document.
LEMMA NobodyElse ==
  ASSUME NEW m, NEW c, Arriving(m), Nameless, NEW i \in 60..70, Way!Claims(Way!Chain[i], m, c)
  PROVE  /\ m.body # "sticker"
         /\ i > 68 => m.body \notin {"document", "animation"}
<1> DEFINE h == Way!Chain[i]
<1>1. h \in {"relay", "ai", "replenish", "music", "voice ai", "transcribe", "embedder", "share",
             "sticker reply", "pool", "random"}
  BY LateStations
<1>2. i > 68 => h \in {"pool", "random"}
  <2>1. i > 68 => i = 69 \/ i = 70
    OBVIOUS
  <2>2. Way!Chain[69] = "pool" /\ Way!Chain[70] = "random"
    BY DEF Way!Chain
  <2> QED BY <2>1, <2>2
<1>3. CASE h \in {"transcribe", "random"}
  <2>1. m.name = h
    BY <1>3, OwnCommands DEF Way!Unaliased
  <2>2. h # Nothing
    BY DEF Nameless
  <2> QED BY <2>1, <2>2 DEF Arriving
<1>4. CASE h \in {"relay", "ai", "replenish", "embedder"}
  <2>1. m.body = "text"
    BY <1>4 DEF Way!Claims, Way!Takes, Way!Unaliased, Way!OwnersCommands, Way!IsPostReply, Way!Says
  <2> QED BY <2>1
<1>5. CASE h \in {"music", "voice ai", "share", "sticker reply"}
  <2>1. m.body # "sticker"
    BY <1>5 DEF Way!Claims, Way!Takes, Way!Unaliased, Way!OwnersCommands, Way!IsAd
  <2> QED BY <1>2, <1>5, <2>1
<1>6. CASE h = "pool"
  <2>1. m.body \in {"photo", "video"}
    BY <1>6, Takings
  <2> QED BY <2>1
<1> QED BY <1>1, <1>3, <1>4, <1>5, <1>6

\* A newcomer's picture, sound or document, in a group that does not use it.
Restricted ==
  /\ update.by = "newcomer" /\ update.body \in Way!RestrictedContent /\ config.restrict
  /\ update.to # "config" /\ update.chat = "group"

\* What somebody writes whose challenge is open.
Pending ==
  /\ update.by = "pending" /\ update.text \in {"plain", "link"} /\ update.to = "nothing"
  /\ config.captcha

\* Before the restriction nobody takes it but the register.
LEMMA RestrictedFirst ==
  ASSUME NEW m, NEW c, Arriving(m), Nameless, m.body \in Way!RestrictedContent, m.to # "config",
         NEW i \in 1..48, Way!Claims(Way!Chain[i], m, c)
  PROVE  Way!Chain[i] = "register"
<1> DEFINE h == Way!Chain[i]
<1>1. m.body \notin {"text", "join", "callback"} /\ m.name = Nothing
  BY DEF Way!RestrictedContent, Arriving
<1>2. m.text \notin {"plain", "link", "command", "@adm", "@everyone", "folder", "unknown", "other"}
  BY <1>1 DEF Arriving
<1>3. h \notin Way!Unaliased
  BY <1>1, OwnCommands DEF Nameless
<1>4. /\ h \in Speakers \cup Doers \cup Passing \cup Delegators \cup Asked
      /\ h \notin {"restriction", "sticker", "sticker spam", "ai", "replenish", "music", "voice ai",
                   "share", "sticker reply", "pool"}
  <2>1. /\ i \in 1..70
        /\ i # 49 /\ i # 58 /\ i # 59 /\ i # 61 /\ i # 62 /\ i # 63 /\ i # 64 /\ i # 67
        /\ i # 68 /\ i # 69
    OBVIOUS
  <2>2. h \in Speakers \cup Doers \cup Passing \cup Delegators \cup Asked
    BY <2>1, Stations
  <2>3. /\ h # "restriction" /\ h # "sticker" /\ h # "sticker spam" /\ h # "ai" /\ h # "replenish"
        /\ h # "music" /\ h # "voice ai" /\ h # "share" /\ h # "sticker reply" /\ h # "pool"
    <3>1. /\ h = "restriction" => i = 49
          /\ h = "sticker" => i = 58
          /\ h = "sticker spam" => i = 59
          /\ h = "ai" => i = 61
          /\ h = "replenish" => i = 62
          /\ h = "music" => i = 63
          /\ h = "voice ai" => i = 64
          /\ h = "share" => i = 67
          /\ h = "sticker reply" => i = 68
          /\ h = "pool" => i = 69
      BY <2>1, Stations
    <3> HIDE DEF h
    <3> QED BY <2>1, <3>1
  <2> QED BY <2>2, <2>3
<1>5. CASE h \in Speakers
  <2>1. h \in {"con", "custom", "groups", "stop"}
    BY <1>3, <1>5 DEF Speakers, Way!Unaliased
  <2>2. h # "con"
    BY <1>1 DEF Way!Claims, Way!Takes, Way!Unaliased, Nameless, Way!CanonicalCommands
  <2>3. h \notin {"custom", "groups", "stop"}
    BY <1>1, <1>2 DEF Way!Claims, Way!Takes, Way!Unaliased, Way!OwnersCommands, Nameless,
                 Way!CanonicalCommands, Way!CustomCommandName
  <2> QED BY <2>1, <2>2, <2>3
<1>6. CASE h \in Doers
  <2>1. h \in {"rules reply", "calladms", "complaint reply", "config reply", "config press", "leave",
               "blacklist", "unblacklist", "welcome reply", "welcome join", "sticker spam"}
    BY <1>3, <1>6 DEF Doers, Way!Unaliased
  <2>2. h # "sticker spam"
    BY <1>4
  <2>3. h \notin {"rules reply", "complaint reply", "config reply", "config press", "welcome reply",
                  "welcome join"}
    BY <1>1 DEF Way!Claims, Way!Takes, Way!Unaliased, Way!OwnersCommands, Way!IsConfigReply,
           Way!IsNewRulesReply, Way!IsWelcomeReply, Way!IsMiltonReply, Way!Says, Way!Joins
  <2>4. h \notin {"calladms", "leave", "blacklist", "unblacklist"}
    BY <1>1, <1>2 DEF Way!Claims, Way!Takes, Way!Unaliased, Way!OwnersCommands, Nameless,
                 Way!CanonicalCommands, Way!IsAdminMention
  <2> QED BY <2>1, <2>2, <2>3, <2>4
<1>7. CASE h \in Passing
  <2>1. h \in {"register", "search", "join record", "bot added", "doomlist", "captcha join", "relay",
               "embedder"}
    BY <1>4, <1>7 DEF Passing
  <2>2. h \notin {"search", "join record", "bot added", "doomlist", "captcha join", "relay", "embedder"}
    BY <1>1, <1>2 DEF Way!Claims, Way!Takes, Way!Unaliased, Way!OwnersCommands, Way!Slash,
                 Way!Joins, Way!IsPostReply, Way!Says
  <2> QED BY <2>1, <2>2
<1>8. CASE h \in Delegators
  <2>1. h = "everyone"
    BY <1>3, <1>8 DEF Delegators, Way!Unaliased
  <2> QED BY <1>1, <1>2, <2>1, Takings DEF Nameless, Way!CanonicalCommands
<1>9. CASE h \in Asked
  <2>1. h \in {"call press", "broadcast", "captcha reply", "captcha press"}
    BY <1>4, <1>9 DEF Asked
  <2>2. h # "broadcast"
    BY <1>1, Takings DEF Nameless, Way!CanonicalCommands, Way!OwnersCommands
  <2>3. h \notin {"call press", "captcha reply", "captcha press"}
    BY <1>1 DEF Way!Claims, Way!Takes, Way!Unaliased, Way!OwnersCommands, Way!IsCaptchaReply, Way!Says
  <2> QED BY <2>1, <2>2, <2>3
<1> QED BY <1>4, <1>5, <1>6, <1>7, <1>8, <1>9

\* An area that is off comes to a notice.
LEMMA OffComesToNotice ==
  ASSUME NEW h, NEW m, NEW c,
         \/ h \in Way!FunCommands /\ ~c.fun
         \/ h \in Way!UtilityCommands /\ ~c.utility
  PROVE  Way!Outcomes(h, m, c) \subseteq {Way!Notice, Way!Refusal}
<1> USE DEF Way!Outcomes
<1>1. CASE h \in {"ship", "death", "meme", "battle"} /\ ~c.fun
  BY <1>1 DEF Way!Ship, Way!Death, Way!Meme, Way!Battle, Way!Soft, Way!Loud
<1>2. CASE h \in {"random", "firecracker", "complaint", "birthday", "nextbirthday"} /\ ~c.fun
  BY <1>2 DEF Way!SendRandom, Way!Firecracker, Way!Complaint, Way!Birthday, Way!NextBirthday,
              Way!Soft, Way!Loud
<1>3. CASE h \in {"dice", "youtube"} /\ ~c.utility
  BY <1>3 DEF Way!RollDice, Way!YouTube, Way!Loud
<1> QED BY <1>1, <1>2, <1>3 DEF Way!FunCommands, Way!UtilityCommands

\* So does an administrators' command for anybody else.
LEMMA OthersGetNotice ==
  ASSUME NEW m, NEW c, ~Way!IsAdmin(m)
  PROVE  /\ Way!Outcomes("config", m, c) \subseteq {Way!Notice, Way!Refusal}
         /\ Way!Outcomes("everyone", m, c) \subseteq {Way!Notice, Way!Refusal}
         /\ Way!Outcomes("deletereposts", m, c) \subseteq {Way!Notice, Way!Refusal}
         /\ m.by # "owner" => Way!Outcomes("repost", m, c) \subseteq {Way!Notice, Way!Refusal}
<1>1. /\ Way!Outcomes("config", m, c) \subseteq {Way!Notice, Way!Refusal}
      /\ Way!Outcomes("everyone", m, c) \subseteq {Way!Notice, Way!Refusal}
  BY DEF Way!Outcomes, Way!OpenMenu, Way!Everyone
<1>2. /\ Way!Outcomes("deletereposts", m, c) \subseteq {Way!Notice, Way!Refusal}
      /\ m.by # "owner" => Way!Outcomes("repost", m, c) \subseteq {Way!Notice, Way!Refusal}
  BY DEF Way!Outcomes, Way!DeleteReposts, Way!ScheduleRepost
<1> QED BY <1>1, <1>2

\* A search leaves commands alone.
LEMMA SearchSkips ==
  ASSUME NEW m, NEW c, m.name # Nothing
  PROVE  Way!Outcomes("search", m, c) = {Way!Skip}
BY DEF Way!Outcomes, Way!CatchAllSearch

\* A restricted newcomer is stopped, and so is who has a challenge to answer.
LEMMA GuardsStop ==
  ASSUME Apart, NEW m, NEW c
  PROVE  /\ c.restrict /\ m.by = "newcomer"
            => AllStop("restriction", Way!Outcomes("restriction", m, c))
         /\ AllStop("captcha reply", Way!Outcomes("captcha reply", m, c))
<1>1. ASSUME c.restrict, m.by = "newcomer"
      PROVE  AllStop("restriction", Way!Outcomes("restriction", m, c))
  <2>1. Stops("restriction", Way!Having({"message deleted"}, Way!Notice))
    BY DoneStops, DoneBy DEF PlainOnes
  <2>2. Stops("restriction", Way!Notice)
    BY PlainFits DEF AllStop, PlainOnes
  <2>3. Way!Outcomes("restriction", m, c) = {Way!Having({"message deleted"}, Way!Notice), Way!Notice}
    BY <1>1 DEF Way!Outcomes, Way!EnforceRestriction, Way!IsAdmin, Way!InWindow
  <2> QED BY <2>1, <2>2, <2>3 DEF AllStop
<1> QED BY <1>1, CaptchaStops

\* A sticker marks the trace of nothing, and one too many neither.
LEMMA StickersMarkNothing ==
  ASSUME Apart, NEW m, NEW c, NEW o
  PROVE  /\ o \in Way!Outcomes("sticker", m, c) => o.on
         /\ o \in Way!Outcomes("sticker spam", m, c) => o.mark = Nothing
<1>1. Way!Skip.on /\ Way!Fetch.on
  BY OutcomeShapes
<1>2. ASSUME o \in Way!Outcomes("sticker", m, c) PROVE o.on
  <2>1. \A a \in Way!Stickered(m, c) : Fits("sticker", a) /\ a.on
    BY <1>1, PlainFits DEF Way!Stickered, Passing
  <2>2. May("sticker", {"sticker pooled"}) /\ {"sticker pooled"} \subseteq PassedDeeds
    BY DoneBy DEF PassedDeeds
  <2>3. \A a \in Way!Stickered(m, c) : Way!Having({"sticker pooled"}, a).on
    BY <2>1, <2>2, HavingFits
  <2> QED BY <1>2, <2>1, <2>3 DEF Way!Outcomes, Way!StickerUpdate
<1>3. ASSUME o \in Way!Outcomes("sticker spam", m, c) PROVE o.mark = Nothing
  <2>1. /\ Way!Unsaid.mark = Nothing /\ Way!Notice.mark = Nothing
        /\ DOMAIN Way!Unsaid = {"says", "mark", "job", "deeds", "on"}
    BY OutcomeShapes DEF Outcome
  <2>2. Way!Having({"message deleted"}, Way!Unsaid).mark = Nothing
    BY <2>1 DEF Way!Having
  <2> QED BY <1>3, <2>1, <2>2 DEF Way!Outcomes, Way!AntiSpam
<1> QED BY <1>2, <1>3

\* By whom a deed is done.
LEMMA DoerOf ==
  ASSUME NEW h
  PROVE  /\ <<h, "joined">> \in Does => h = "join record"
         /\ <<h, "sticker pooled">> \in Does => h = "sticker"
         /\ <<h, "replenished">> \in Does => h = "replenish"
         /\ <<h, "pooled">> \in Does => h = "pool"
         /\ <<h, "relayed">> \in Does => h = "relay"
         /\ <<h, "post cached">> \in Does => h \in {"publish", "share"}
         /\ <<h, "menu">> \in Does => h = "config"
         /\ <<h, "posts removed">> \in Does => h = "deletereposts"
         /\ <<h, "repost">> \in Does => h = "repost"
         /\ <<h, "rules">> \in Does => h = "rules reply"
         /\ <<h, "welcome">> \in Does => h = "welcome reply"
         /\ <<h, "streak spent">> \in Does => h = "ai"
         /\ <<h, "window charged">> \in Does => h \in {"ai", "voice ai"}
         /\ <<h, "banned">> \in Does => h = "doomlist"
         /\ <<h, "challenged">> \in Does => h = "captcha join"
         /\ <<h, "welcomed">> \in Does => h \in {"captcha reply", "captcha press", "welcome join"}
         /\ <<h, "language">> \in Does => h = "bot added"
<1>1. <<h, "joined">> \in Does => h = "join record"
  BY DEF Does
<1>2. <<h, "sticker pooled">> \in Does => h = "sticker"
  BY DEF Does
<1>3. <<h, "replenished">> \in Does => h = "replenish"
  BY DEF Does
<1>4. <<h, "pooled">> \in Does => h = "pool"
  BY DEF Does
<1>5. <<h, "relayed">> \in Does => h = "relay"
  BY DEF Does
<1>6. <<h, "post cached">> \in Does => h \in {"publish", "share"}
  BY DEF Does
<1>7. <<h, "menu">> \in Does => h = "config"
  BY DEF Does
<1>8. <<h, "posts removed">> \in Does => h = "deletereposts"
  BY DEF Does
<1>9. <<h, "repost">> \in Does => h = "repost"
  BY DEF Does
<1>10. <<h, "rules">> \in Does => h = "rules reply"
  BY DEF Does
<1>11. <<h, "welcome">> \in Does => h = "welcome reply"
  BY DEF Does
<1>12. <<h, "streak spent">> \in Does => h = "ai"
  BY DEF Does
<1>13. <<h, "window charged">> \in Does => h \in {"ai", "voice ai"}
  BY DEF Does
<1>14. <<h, "banned">> \in Does => h = "doomlist"
  BY DEF Does
<1>15. <<h, "challenged">> \in Does => h = "captcha join"
  BY DEF Does
<1>16. <<h, "welcomed">> \in Does => h \in {"captcha reply", "captcha press", "welcome join"}
  BY DEF Does
<1>17. <<h, "language">> \in Does => h = "bot added"
  BY DEF Does
<1> QED BY <1>1, <1>2, <1>3, <1>4, <1>5, <1>6, <1>7, <1>8, <1>9, <1>10, <1>11, <1>12, <1>13,
           <1>14, <1>15, <1>16, <1>17

\* A restricted newcomer's handlers do nothing else, and leave nothing.
LEMMA LittleDone ==
  /\ \A d : <<"register", d>> \in Does => d = "sender"
  /\ \A d : <<"restriction", d>> \in Does => d = "message deleted"
  /\ \A d : <<"register", d>> \notin Delegates /\ <<"restriction", d>> \notin Delegates
<1>1. \A d : <<"register", d>> \in Does => d = "sender"
  BY DEF Does
<1>2. \A d : <<"restriction", d>> \in Does => d = "message deleted"
  BY DEF Does
<1>3. \A d : <<"register", d>> \notin Delegates /\ <<"restriction", d>> \notin Delegates
  BY DEF Delegates
<1> QED BY <1>1, <1>2, <1>3

\* What is read on the way.
InWay ==
  /\ Arriving(update)
  /\ config \in [{"fun", "utility", "restrict", "captcha", "doomlist", "ask", "sfw"} -> BOOLEAN]
  /\ config \in seen
  /\ place \in 0..70

\* What an update that nobody kept so far has met: what may have been done, by its
\* body and by how far it came.
OnWay ==
  /\ deeds \subseteq PassedDeeds
  /\ "joined" \in deeds => update.body = "join"
  /\ "sticker pooled" \in deeds => update.body = "sticker" /\ place >= 58
  /\ "replenished" \in deeds => update.body = "text" /\ place >= 62
  /\ "pooled" \in deeds => update.body \in {"photo", "video"} /\ place >= 69
  /\ jobs \subseteq {"identify music"}
  /\ jobs # {} => update.body = "voice" /\ place >= 63
  /\ said # {} => \/ update.body = "sticker" /\ place >= 58
                  \/ update.body \in {"document", "animation"} /\ place >= 68
  /\ update.body # "sticker" => \A s, t \in said : s = t
  /\ Restricted => place < 49
  /\ Pending => place < 53

\* The trace says nothing yet, or what the middleware wrote on it.
Quiet == mark \in {Nothing, "answered"} \/ (taker = "gate" /\ mark = "silent" /\ said = {})

LEMMA AtMostOne ==
  ASSUME NEW S, \A x, y \in S : x = y
  PROVE  Way!Cardinality(S) <= 1
<1>1. Way!Cardinality(S) = Cardinality(S)
  BY DEF Way!Cardinality, Cardinality, Way!IsFiniteSet, IsFiniteSet
<1>2. CASE S = {}
  BY <1>1, <1>2, FS_EmptySet
<1>3. CASE S # {}
  <2>1. PICK x \in S : TRUE
    BY <1>3
  <2>2. S = {x}
    BY <2>1
  <2>3. Cardinality({x}) = 1
    BY FS_Singleton
  <2> QED BY <1>1, <2>2, <2>3
<1> QED BY <1>2, <1>3

\* What a command finds when it is its turn.
LEMMA CommandsBring ==
  ASSUME InWay, OnWay, update.name # Nothing
  PROVE  said = {} /\ jobs = {} /\ deeds \subseteq Way!Bookkeeping /\ update.text = "command"
         /\ update.body = "text"
<1>1. update.text = "command" /\ update.body = "text"
  BY DEF InWay, Arriving
<1>2. deeds \subseteq Way!Bookkeeping
  BY <1>1 DEF OnWay, PassedDeeds, Way!Bookkeeping
<1>3. said = {} /\ jobs = {}
  BY <1>1 DEF OnWay
<1> QED BY <1>1, <1>2, <1>3

\* Neither a guarded newcomer nor a guarded answer has come far.
LEMMA GuardedSoFar ==
  ASSUME InWay, OnWay
  PROVE  /\ Restricted => deeds \subseteq {"sender"} /\ jobs = {}
         /\ Pending => deeds \cap {"streak spent", "window charged", "replenished"} = {}
<1>1. ASSUME Restricted PROVE deeds \subseteq {"sender"} /\ jobs = {}
  <2>1. ~(place >= 58) /\ ~(place >= 62) /\ ~(place >= 69) /\ ~(place >= 63)
    <3>1. place < 49
      BY <1>1 DEF OnWay
    <3>2. place \in 0..70
      BY DEF InWay
    <3> QED BY <3>1, <3>2
  <2>2. update.body # "join"
    BY <1>1 DEF Restricted, Way!RestrictedContent
  <2> QED BY <2>1, <2>2 DEF OnWay, PassedDeeds
<1>2. ASSUME Pending
      PROVE  deeds \cap {"streak spent", "window charged", "replenished"} = {}
  <2>1. ~(place >= 62)
    <3>1. place < 53
      BY <1>2 DEF OnWay
    <3>2. place \in 0..70
      BY DEF InWay
    <3> QED BY <3>1, <3>2
  <2> QED BY <2>1 DEF OnWay, PassedDeeds
<1> QED BY <1>1, <1>2

\* Nobody has kept it.
LEMMA UnderWay ==
  Apart /\ Nameless /\ InWay /\ OnWay /\ Quiet /\ taker \in {Nothing, "gate", "nobody"}
  => Way!DispatchHolds
<1> SUFFICES ASSUME Apart, Nameless, InWay, OnWay, Quiet, taker \in {Nothing, "gate", "nobody"}
             PROVE  Way!DispatchHolds
  OBVIOUS
<1>1. Way!OffIsOff
  <2>1. taker \notin Way!FunCommands /\ taker \notin Way!UtilityCommands
    BY DEF Nameless, Way!CanonicalCommands, Way!FunCommands, Way!UtilityCommands, Way!Unaliased
  <2> QED BY <2>1 DEF Way!OffIsOff
<1>2. Way!AdminsOnly
  <2>1. SUFFICES ASSUME update.name \in Way!AdminCommands
                 PROVE  /\ deeds \cap {"menu", "posts removed", "repost", "rules", "welcome"} = {}
                        /\ jobs = {}
    BY DEF Way!AdminsOnly
  <2>2. update.name # Nothing
    BY <2>1 DEF Nameless, Way!CanonicalCommands, Way!AdminCommands, Way!Unaliased
  <2> QED BY <2>2, CommandsBring DEF Way!Bookkeeping
<1>3. Way!OneFate
  <2>1. deeds \cap Way!Fates = {}
    BY DEF OnWay, PassedDeeds, Way!Fates
  <2> QED BY <2>1, AtMostOne DEF Way!OneFate
<1>4. Way!RestrictedUnused
  BY GuardedSoFar DEF Way!RestrictedUnused, Restricted
<1>5. Way!AdsUnpooled /\ Way!RelayedUnanswered
  BY DEF Way!AdsUnpooled, Way!RelayedUnanswered, OnWay, PassedDeeds
<1>6. Way!PendingUnheard
  BY GuardedSoFar DEF Way!PendingUnheard, Pending
<1>7. Way!AnsweredOnce
  BY AtMostOne DEF Way!AnsweredOnce, OnWay
<1>8. Way!TraceHonest
  BY DEF Way!TraceHonest, OnWay, Quiet, Apart
<1> QED BY <1>1, <1>2, <1>3, <1>4, <1>5, <1>6, <1>7, <1>8 DEF Way!DispatchHolds

\* The next to be asked, and what it comes to.
Facing(i, o) ==
  /\ i \in 1..70 /\ place < i
  /\ Way!Claims(Way!Chain[i], update, config)
  /\ o \in Way!Outcomes(Way!Chain[i], update, config)
  /\ Fits(Way!Chain[i], o)
  /\ Restricted => i <= 49
  /\ Pending => i <= 53

\* It keeps the update: all it came to is done, or it fails halfway.
Kept(i, o) ==
  /\ place' = i /\ taker' = Way!Chain[i]
  /\ \/ /\ said' = said \cup (IF o.says = Nothing THEN {} ELSE {<<Way!Chain[i], o.says>>})
        /\ deeds' = deeds \cup o.deeds
        /\ jobs' = jobs \cup (IF o.job = Nothing THEN {} ELSE {o.job})
        /\ mark' = IF o.mark = Nothing THEN mark ELSE o.mark
     \/ /\ said' = said \cup {<<"telemetry", "notice">>}
        /\ deeds' \in {deeds, deeds \cup o.deeds}
        /\ jobs' = jobs /\ mark' = "error"
  /\ update' = update /\ config' = config /\ seen' = seen

\* A refusal does nothing.
LEMMA NoticesDoNothing ==
  ASSUME Apart, NEW o \in {Way!Notice, Way!Refusal}
  PROVE  o.deeds = {} /\ o.job = Nothing /\ o.says = "notice"
BY OutcomeShapes DEF Outcome

LEMMA KeptOff ==
  ASSUME Apart, Nameless, InWay, OnWay, NEW i, NEW o, Facing(i, o), Kept(i, o)
  PROVE  Way!OffIsOff'
<1> DEFINE h == Way!Chain[i]
<1>1. SUFFICES ASSUME NEW area \in {"fun", "utility"},
                      taker' \in (IF area = "fun" THEN Way!FunCommands ELSE Way!UtilityCommands),
                      \A c \in seen : ~c[area]
               PROVE  /\ \A s \in said' : s[2] # "answer"
                      /\ deeds' \subseteq Way!Bookkeeping /\ jobs' = {}
  BY DEF Way!OffIsOff, Kept
<1>2. taker' = h
  BY DEF Kept
<1>3. ~config[area]
  BY <1>1 DEF InWay
<1>4. h \in Way!Unaliased
  BY <1>1, <1>2 DEF Way!FunCommands, Way!UtilityCommands, Way!Unaliased
<1>5. update.name = h /\ h # Nothing
  BY <1>4, OwnCommands DEF Facing, Nameless
<1>6. o \in {Way!Notice, Way!Refusal}
  BY <1>1, <1>2, <1>3, OffComesToNotice DEF Facing
<1>7. o.deeds = {} /\ o.job = Nothing /\ o.says = "notice"
  BY <1>6, NoticesDoNothing
<1>8. said = {} /\ jobs = {} /\ deeds \subseteq Way!Bookkeeping
  BY <1>5, CommandsBring
<1> HIDE DEF h
<1> QED BY <1>7, <1>8 DEF Kept

LEMMA KeptAdmins ==
  ASSUME Apart, Nameless, InWay, OnWay, NEW i, NEW o, Facing(i, o), Kept(i, o)
  PROVE  Way!AdminsOnly'
<1> DEFINE h == Way!Chain[i]
<1>1. SUFFICES ASSUME update.name \in Way!AdminCommands, ~Way!IsAdmin(update), update.by # "owner"
               PROVE  /\ deeds' \cap {"menu", "posts removed", "repost", "rules", "welcome"} = {}
                      /\ jobs' = {}
  BY DEF Way!AdminsOnly, Way!IsAdmin, Kept
<1>2. update.name # Nothing
  BY <1>1 DEF Nameless, Way!CanonicalCommands, Way!AdminCommands, Way!Unaliased
<1>3. /\ jobs = {} /\ deeds \subseteq Way!Bookkeeping
      /\ update.text = "command" /\ update.body = "text"
  BY <1>2, CommandsBring
<1>4. h \in {"config", "everyone", "deletereposts", "repost"} => o.deeds = {} /\ o.job = Nothing
  BY <1>1, OthersGetNotice, NoticesDoNothing DEF Facing
<1>5. h # "rules reply" /\ h # "welcome reply"
  BY <1>3, Takings DEF Facing
<1>6. \A d \in o.deeds : d \notin {"menu", "posts removed", "repost", "rules", "welcome"}
  <2>1. ASSUME NEW d \in o.deeds PROVE <<h, d>> \in Does
    BY <2>1 DEF Facing, Fits
  <2> HIDE DEF h
  <2> QED BY <1>4, <1>5, <2>1, DoerOf
<1>7. o.job = Nothing
  <2>1. o.job = Nothing \/ <<h, o.job>> \in Delegates
    BY DEF Facing, Fits
  <2>2. CASE h = "search"
    BY <1>2, <2>2, SearchSkips, OutcomeShapes DEF Facing, Outcome
  <2>3. h \notin {"call press", "broadcast", "music"}
    BY <1>1, <1>3, Takings DEF Facing, Way!AdminCommands
  <2>4. h \notin {"meme", "destroy", "birthday", "youtube", "searchsource"}
    BY <1>1, OwnCommands DEF Facing, Way!AdminCommands, Way!Unaliased
  <2>5. <<h, o.job>> \in Delegates
        => h \in {"call press", "everyone", "meme", "destroy", "birthday", "youtube", "searchsource",
                  "search", "broadcast", "music"}
    BY DEF Delegates
  <2> HIDE DEF h
  <2> QED BY <1>4, <2>1, <2>2, <2>3, <2>4, <2>5
<1>8. deeds \cap {"menu", "posts removed", "repost", "rules", "welcome"} = {}
  BY <1>3 DEF Way!Bookkeeping
<1> HIDE DEF h
<1> QED BY <1>3, <1>6, <1>7, <1>8 DEF Kept

LEMMA KeptFate ==
  ASSUME OnWay, NEW i, NEW o, Facing(i, o), Kept(i, o)
  PROVE  Way!OneFate'
<1> DEFINE h == Way!Chain[i]
<1>1. deeds \cap Way!Fates = {}
  BY DEF OnWay, PassedDeeds, Way!Fates
<1>2. ASSUME NEW d \in o.deeds \cap Way!Fates, NEW e \in o.deeds \cap Way!Fates PROVE d = e
  <2>1. <<h, d>> \in Does /\ <<h, e>> \in Does
    BY <1>2 DEF Facing, Fits
  <2>2. /\ d \in {"banned", "challenged", "welcomed", "language"}
        /\ e \in {"banned", "challenged", "welcomed", "language"}
    BY <1>2 DEF Way!Fates
  <2> HIDE DEF h
  <2> QED BY <2>1, <2>2, DoerOf
<1>3. \A d, e \in deeds' \cap Way!Fates : d = e
  BY <1>1, <1>2 DEF Kept
<1> QED BY <1>3, AtMostOne DEF Way!OneFate, Way!Fates

LEMMA KeptRestricted ==
  ASSUME Apart, Nameless, InWay, OnWay, NEW i, NEW o, Facing(i, o), Kept(i, o)
  PROVE  Way!RestrictedUnused'
<1> DEFINE h == Way!Chain[i]
<1>1. SUFFICES ASSUME Restricted
               PROVE  deeds' \subseteq {"sender", "message deleted"} /\ jobs' = {}
  BY DEF Way!RestrictedUnused, Way!RestrictedContent, Restricted, Kept
<1>2. deeds \subseteq {"sender"} /\ jobs = {}
  BY <1>1, GuardedSoFar
<1>3. h \in {"register", "restriction"}
  <2>1. CASE i = 49
    BY <2>1, Guards
  <2>2. CASE i # 49
    <3>1. i \in 1..48
      BY <1>1, <2>2 DEF Facing
    <3> QED BY <1>1, <3>1, RestrictedFirst DEF Restricted, Facing, InWay
  <2> QED BY <2>1, <2>2
<1>4. \A d \in o.deeds : d \in {"sender", "message deleted"}
  <2>1. \A d \in o.deeds : <<h, d>> \in Does
    BY DEF Facing, Fits
  <2> HIDE DEF h
  <2> QED BY <1>3, <2>1, LittleDone
<1>5. o.job = Nothing
  <2>1. o.job = Nothing \/ <<h, o.job>> \in Delegates
    BY DEF Facing, Fits
  <2> HIDE DEF h
  <2> QED BY <1>3, <2>1, LittleDone
<1> QED BY <1>2, <1>4, <1>5 DEF Kept

LEMMA KeptPosts ==
  ASSUME Apart, Nameless, InWay, OnWay, NEW i, NEW o, Facing(i, o), Kept(i, o)
  PROVE  Way!AdsUnpooled' /\ Way!RelayedUnanswered'
<1> DEFINE h == Way!Chain[i]
<1>1. \A d \in o.deeds : <<h, d>> \in Does
  BY DEF Facing, Fits
<1>2. deeds' \subseteq deeds \cup o.deeds /\ taker' = h
  BY DEF Kept
<1>3. "post cached" \notin deeds /\ "relayed" \notin deeds /\ ("pooled" \in deeds => place >= 69)
  BY DEF OnWay, PassedDeeds
<1>4. ASSUME "post cached" \in deeds' PROVE "pooled" \notin deeds'
  <2>1. h \in {"publish", "share"}
    <3>1. "post cached" \in o.deeds
      BY <1>2, <1>3, <1>4
    <3> HIDE DEF h
    <3> QED BY <1>1, <3>1, DoerOf
  <2>2. "pooled" \notin o.deeds
    <3> HIDE DEF h
    <3> QED BY <1>1, <2>1, DoerOf
  <2>3. "pooled" \notin deeds
    <3>1. SUFFICES ASSUME place >= 69 PROVE FALSE
      BY <1>3
    <3>2. i = 70
      BY <3>1 DEF Facing, InWay
    <3>3. Way!Chain[70] = "random"
      BY DEF Way!Chain
    <3> QED BY <2>1, <3>2, <3>3
  <2> QED BY <1>2, <2>2, <2>3
<1>5. ASSUME "relayed" \in deeds' PROVE taker' = "relay"
  <2>1. "relayed" \in o.deeds
    BY <1>2, <1>3, <1>5
  <2> HIDE DEF h
  <2> QED BY <1>1, <1>2, <2>1, DoerOf
<1> QED BY <1>4, <1>5 DEF Way!AdsUnpooled, Way!RelayedUnanswered

LEMMA KeptPending ==
  ASSUME Apart, Nameless, InWay, OnWay, NEW i, NEW o, Facing(i, o), Kept(i, o)
  PROVE  Way!PendingUnheard'
<1> DEFINE h == Way!Chain[i]
<1>1. SUFFICES ASSUME Pending
               PROVE  deeds' \cap {"streak spent", "window charged", "replenished"} = {}
  BY DEF Way!PendingUnheard, Pending, Kept
<1>2. deeds \cap {"streak spent", "window charged", "replenished"} = {}
  BY <1>1, GuardedSoFar
<1>3. i \in 1..70 /\ i # 61 /\ i # 62 /\ i # 64
  BY <1>1 DEF Facing
<1>4. h # "ai" /\ h # "voice ai" /\ h # "replenish"
  BY <1>3, Stations
<1>5. \A d \in o.deeds : <<h, d>> \in Does
  BY DEF Facing, Fits
<1>6. \A d \in o.deeds : d \notin {"streak spent", "window charged", "replenished"}
  <2> HIDE DEF h
  <2> QED BY <1>4, <1>5, DoerOf
<1> QED BY <1>2, <1>6 DEF Kept

\* Whoever comes next, nothing was said, or it is a sticker too many.
LEMMA SaidBefore ==
  ASSUME Apart, Nameless, InWay, OnWay, NEW i, NEW o, Facing(i, o), said # {}
  PROVE  Way!Chain[i] = "sticker spam" /\ update.body = "sticker"
<1>1. /\ \/ update.body = "sticker" /\ place >= 58
         \/ update.body \in {"document", "animation"} /\ place >= 68
      /\ i \in 1..70 /\ place < i /\ place \in 0..70
  BY DEF OnWay, Facing, InWay
<1>2. CASE i \in 60..70
  <2>1. update.body # "sticker" /\ (i > 68 => update.body \notin {"document", "animation"})
    BY <1>2, NobodyElse DEF Facing, InWay
  <2>2. place >= 68 => i > 68
    BY <1>1
  <2> QED BY <1>1, <2>1, <2>2
<1>3. CASE i = 59
  <2>1. Way!Chain[59] = "sticker spam"
    BY DEF Way!Chain
  <2>2. ~(place >= 68)
    BY <1>1, <1>3
  <2> QED BY <1>1, <1>3, <2>1, <2>2
<1>4. i = 59 \/ i \in 60..70
  BY <1>1
<1> QED BY <1>1, <1>2, <1>3, <1>4

LEMMA KeptTrace ==
  ASSUME Apart, Nameless, InWay, OnWay, mark \in {Nothing, "answered"},
         NEW i, NEW o, Facing(i, o), Kept(i, o)
  PROVE  Way!AnsweredOnce' /\ Way!TraceHonest'
<1> DEFINE h == Way!Chain[i]
<1>1. said # {} => h = "sticker spam" /\ update.body = "sticker"
  BY SaidBefore
<1>2. jobs \subseteq {"identify music"}
  BY DEF OnWay
<1>3. /\ o.says \in {Nothing, "answer", "notice"}
      /\ o.mark = "silent" => o.says = Nothing /\ o.job = Nothing
      /\ o.mark = "refused" => o.says = "notice" /\ o.job = Nothing
  BY DEF Facing, Fits
<1>4. said # {} => o.mark = Nothing
  BY <1>1, StickersMarkNothing DEF Facing
<1>5. ASSUME update.body # "sticker", mark' # "error" PROVE Way!Cardinality(said') <= 1
  <2>1. said = {}
    BY <1>1, <1>5
  <2>2. \A s, t \in said' : s = t
    <3> HIDE DEF h
    <3> QED BY <1>5, <2>1 DEF Kept
  <2> QED BY <2>2, AtMostOne
<1>6. ASSUME mark' = "silent" PROVE said' = {} /\ jobs' \subseteq {"identify music"}
  <2>1. o.mark = "silent"
    BY <1>6 DEF Kept, Apart
  <2>2. said = {} /\ o.says = Nothing /\ o.job = Nothing
    BY <1>3, <1>4, <2>1 DEF Apart
  <2> QED BY <1>2, <1>6, <2>2 DEF Kept
<1>7. ASSUME mark' = "refused"
      PROVE  jobs' \subseteq {"identify music"} /\ \A s \in said' : s[2] = "notice"
  <2>1. o.mark = "refused"
    BY <1>7 DEF Kept, Apart
  <2>2. said = {} /\ o.says = "notice" /\ o.job = Nothing
    BY <1>3, <1>4, <2>1 DEF Apart
  <2>3. said' = {<<h, "notice">>} /\ jobs' = jobs
    BY <1>7, <2>2 DEF Kept, Apart
  <2>4. \A s \in {<<h, "notice">>} : s[2] = "notice"
    OBVIOUS
  <2> QED BY <1>2, <2>3, <2>4
<1>8. update' = update
  BY DEF Kept
<1> QED BY <1>5, <1>6, <1>7, <1>8 DEF Way!AnsweredOnce, Way!TraceHonest

\* It passes the update on: it came to something, but stands aside.
PassedOn(i, o) ==
  /\ o.on /\ place' = i /\ taker' = Nothing
  /\ said' = said \cup (IF o.says = Nothing THEN {} ELSE {<<Way!Chain[i], o.says>>})
  /\ deeds' = deeds \cup o.deeds
  /\ jobs' = jobs \cup (IF o.job = Nothing THEN {} ELSE {o.job})
  /\ mark' = IF o.mark = Nothing THEN mark ELSE o.mark
  /\ update' = update /\ config' = config /\ seen' = seen

LEMMA PassedDeedsKnown ==
  ASSUME Apart, Nameless, InWay, OnWay, NEW i, NEW o, Facing(i, o), PassedOn(i, o)
  PROVE  /\ deeds' \subseteq PassedDeeds
         /\ "joined" \in deeds' => update.body = "join"
         /\ "sticker pooled" \in deeds' => update.body = "sticker" /\ i >= 58
         /\ "replenished" \in deeds' => update.body = "text" /\ i >= 62
         /\ "pooled" \in deeds' => update.body \in {"photo", "video"} /\ i >= 69
<1> DEFINE h == Way!Chain[i]
<1>1. deeds' = deeds \cup o.deeds /\ o.deeds \subseteq PassedDeeds
  BY DEF PassedOn, Facing, Fits
<1>2. place < i /\ i \in 1..70 /\ place \in 0..70
  BY DEF Facing, InWay
<1>3. \A d \in o.deeds : <<h, d>> \in Does
  BY DEF Facing, Fits
<1>4. /\ "joined" \in o.deeds => h = "join record"
      /\ "sticker pooled" \in o.deeds => h = "sticker"
      /\ "replenished" \in o.deeds => h = "replenish"
      /\ "pooled" \in o.deeds => h = "pool"
  <2> HIDE DEF h
  <2> QED BY <1>3, DoerOf
<1>5. /\ h = "join record" => update.body = "join"
      /\ h = "sticker" => update.body = "sticker"
      /\ h = "replenish" => update.body = "text"
      /\ h = "pool" => update.body \in {"photo", "video"}
  BY Takings DEF Facing
<1>6. /\ h = "sticker" => i = 58
      /\ h = "replenish" => i = 62
      /\ h = "pool" => i = 69
  BY <1>2, Stations
<1>7. /\ i = 58 => i >= 58
      /\ i = 62 => i >= 62
      /\ i = 69 => i >= 69
      /\ place >= 58 => i >= 58
      /\ place >= 62 => i >= 62
      /\ place >= 69 => i >= 69
  BY <1>2
<1> HIDE DEF h
<1>8. deeds' \subseteq PassedDeeds
  BY <1>1 DEF OnWay
<1>9. "joined" \in deeds' => update.body = "join"
  BY <1>1, <1>4, <1>5 DEF OnWay
<1>10. "sticker pooled" \in deeds' => update.body = "sticker" /\ i >= 58
  <2>1. "sticker pooled" \in o.deeds => update.body = "sticker" /\ i >= 58
    BY <1>4, <1>5, <1>6, <1>7
  <2>2. "sticker pooled" \in deeds => update.body = "sticker" /\ place >= 58
    BY DEF OnWay
  <2> QED BY <1>1, <1>7, <2>1, <2>2
<1>11. "replenished" \in deeds' => update.body = "text" /\ i >= 62
  <2>1. "replenished" \in o.deeds => update.body = "text" /\ i >= 62
    BY <1>4, <1>5, <1>6, <1>7
  <2>2. "replenished" \in deeds => update.body = "text" /\ place >= 62
    BY DEF OnWay
  <2> QED BY <1>1, <1>7, <2>1, <2>2
<1>12. "pooled" \in deeds' => update.body \in {"photo", "video"} /\ i >= 69
  <2>1. "pooled" \in o.deeds => update.body \in {"photo", "video"} /\ i >= 69
    BY <1>4, <1>5, <1>6, <1>7
  <2>2. "pooled" \in deeds => update.body \in {"photo", "video"} /\ place >= 69
    BY DEF OnWay
  <2> QED BY <1>1, <1>7, <2>1, <2>2
<1> QED BY <1>8, <1>9, <1>10, <1>11, <1>12

LEMMA PassedWordsKnown ==
  ASSUME Apart, Nameless, InWay, OnWay, NEW i, NEW o, Facing(i, o), PassedOn(i, o)
  PROVE  /\ jobs' \subseteq {"identify music"}
         /\ jobs' # {} => update.body = "voice" /\ i >= 63
         /\ said' # {} => \/ update.body = "sticker" /\ i >= 58
                          \/ update.body \in {"document", "animation"} /\ i >= 68
         /\ update.body # "sticker" => \A s, t \in said' : s = t
<1> DEFINE h == Way!Chain[i]
<1>1. place < i /\ i \in 1..70 /\ place \in 0..70
  BY DEF Facing, InWay
<1>2. /\ h \in Passing
      /\ o.says = Nothing \/ (o.says = "answer" /\ h \in {"sticker", "sticker reply"})
      /\ o.job = Nothing \/ h = "music"
      /\ o.job = Nothing \/ <<h, o.job>> \in Delegates
  BY DEF PassedOn, Facing, Fits
<1>3. /\ h = "music" => i = 63 /\ update.body = "voice"
      /\ h = "sticker" => i = 58 /\ update.body = "sticker"
      /\ h = "sticker reply" => i = 68 /\ update.body \in {"document", "animation"}
  BY <1>1, Stations, Takings DEF Facing
<1>4. /\ i = 58 => i >= 58
      /\ i = 63 => i >= 63
      /\ i = 68 => i >= 68
      /\ place >= 63 => i >= 63
  BY <1>1
<1>5. said = {}
  BY <1>2, SaidBefore DEF Passing
<1>6. o.job = Nothing \/ o.job = "identify music"
  BY <1>2 DEF Delegates
<1> HIDE DEF h
<1>7. jobs' = jobs \/ (jobs' = jobs \cup {"identify music"} /\ h = "music")
  BY <1>2, <1>6 DEF PassedOn
<1>8. said' = {} \/ (said' = {<<h, "answer">>} /\ h \in {"sticker", "sticker reply"})
  BY <1>2, <1>5 DEF PassedOn, h
<1>9. jobs' \subseteq {"identify music"}
  BY <1>7 DEF OnWay
<1>10. jobs' # {} => update.body = "voice" /\ i >= 63
  <2>1. jobs # {} => update.body = "voice" /\ place >= 63
    BY DEF OnWay
  <2> QED BY <1>3, <1>7, <1>4, <2>1
<1>11. said' # {} => \/ update.body = "sticker" /\ i >= 58
                     \/ update.body \in {"document", "animation"} /\ i >= 68
  BY <1>3, <1>8, <1>4
<1>12. \A s, t \in said' : s = t
  BY <1>8
<1> QED BY <1>9, <1>10, <1>11, <1>12

LEMMA PassedStillOnWay ==
  ASSUME Apart, Nameless, InWay, OnWay, NEW i, NEW o, Facing(i, o), PassedOn(i, o)
  PROVE  OnWay'
<1>1. update' = update /\ config' = config /\ place' = i
  BY DEF PassedOn
<1>2. (Restricted' <=> Restricted) /\ (Pending' <=> Pending)
  BY <1>1 DEF Restricted, Pending
<1>3. Restricted => i < 49
  <2>1. SUFFICES ASSUME Restricted, i = 49 PROVE FALSE
    BY DEF Facing
  <2>2. AllStop("restriction", Way!Outcomes("restriction", update, config))
    BY <2>1, GuardsStop DEF Restricted
  <2> QED BY <2>1, <2>2, Guards DEF AllStop, Stops, Facing, PassedOn
<1>4. Pending => i < 53
  <2>1. SUFFICES ASSUME Pending, i = 53 PROVE FALSE
    BY DEF Facing
  <2>2. AllStop("captcha reply", Way!Outcomes("captcha reply", update, config))
    BY GuardsStop
  <2> QED BY <2>1, <2>2, Guards DEF AllStop, Stops, Facing, PassedOn
<1>5. /\ deeds' \subseteq PassedDeeds
      /\ "joined" \in deeds' => update.body = "join"
      /\ "sticker pooled" \in deeds' => update.body = "sticker" /\ i >= 58
      /\ "replenished" \in deeds' => update.body = "text" /\ i >= 62
      /\ "pooled" \in deeds' => update.body \in {"photo", "video"} /\ i >= 69
  BY PassedDeedsKnown
<1>6. /\ jobs' \subseteq {"identify music"}
      /\ jobs' # {} => update.body = "voice" /\ i >= 63
      /\ said' # {} => \/ update.body = "sticker" /\ i >= 58
                       \/ update.body \in {"document", "animation"} /\ i >= 68
      /\ update.body # "sticker" => \A s, t \in said' : s = t
  BY PassedWordsKnown
<1> QED BY <1>1, <1>2, <1>3, <1>4, <1>5, <1>6 DEF OnWay

LEMMA LeastOf ==
  ASSUME NEW T, T \subseteq Nat, T # {}
  PROVE  \E x \in T : \A y \in T : x <= y
<1> DEFINE R == OpToRel(<, Nat)
<1>1. \E x \in T : \A y \in T : <<y, x>> \notin R
  BY NatLessThanWellFounded, WFMin
<1>2. \A x, y \in Nat : y < x => <<y, x>> \in R
  BY DEF OpToRel
<1> HIDE DEF R
<1>3. PICK x \in T : \A y \in T : ~(y < x)
  BY <1>1, <1>2
<1> QED BY <1>3

\* The next to be asked is the first below that takes the update: for who is guarded,
\* the guard at the latest.
LEMMA NextFaces ==
  ASSUME Apart, InWay, OnWay, NEW i, i = Way!NextClaim, i # 0,
         NEW o \in Way!Outcomes(Way!Chain[i], update, config)
  PROVE  Facing(i, o)
<1> DEFINE claims == {k \in (place + 1)..70 : Way!Claims(Way!Chain[k], update, config)}
<1>1. claims # {} /\ i = Way!Min(claims)
  BY ChainLength DEF Way!NextClaim, Way!NoClaim
<1>2. \A k \in claims : k \in 1..70 /\ place < k /\ Way!Claims(Way!Chain[k], update, config)
  BY DEF InWay
<1>3. \E k \in claims : \A n \in claims : k =< n
  <2>1. claims \subseteq Nat
    BY <1>2
  <2> HIDE DEF claims
  <2> QED BY <1>1, <2>1, LeastOf
<1>4. i \in claims /\ \A n \in claims : i =< n
  <2> HIDE DEF claims
  <2> QED BY <1>1, <1>3 DEF Way!Min
<1>5. i \in 1..70 /\ place < i /\ Way!Claims(Way!Chain[i], update, config)
  <2> HIDE DEF claims
  <2> QED BY <1>2, <1>4
<1>6. Fits(Way!Chain[i], o)
  <2>1. Way!Chain[i] \in Speakers \cup Doers \cup Passing \cup Delegators \cup Asked
    BY <1>5, Stations
  <2> QED BY <2>1, EverybodyFits DEF AllFit
<1>7. Restricted => i <= 49
  <2>1. SUFFICES ASSUME Restricted PROVE 49 \in claims
    BY <1>4
  <2>2. place < 49 /\ place \in 0..70
    BY <2>1 DEF OnWay, InWay
  <2>3. Way!Claims("restriction", update, config)
    BY <2>1 DEF Restricted, Way!Claims, Way!Takes, Way!Unaliased, Way!OwnersCommands
  <2>4. 49 \in (place + 1)..70
    BY <2>2
  <2> QED BY <2>3, <2>4, Guards
<1>8. Pending => i <= 53
  <2>1. SUFFICES ASSUME Pending PROVE 53 \in claims
    BY <1>4
  <2>2. place < 53 /\ place \in 0..70
    BY <2>1 DEF OnWay, InWay
  <2>3. update.body = "text" /\ ~Way!Slash(update)
    BY <2>1 DEF Pending, InWay, Arriving, Way!Slash
  <2>4. Way!Claims("captcha reply", update, config)
    BY <2>1, <2>3 DEF Pending, Way!Claims, Way!Takes, Way!Unaliased, Way!OwnersCommands, Way!Says,
                      Way!IsCaptchaReply, Way!InGroups
  <2>5. 53 \in (place + 1)..70
    BY <2>2
  <2> QED BY <2>4, <2>5, Guards
<1> QED BY <1>5, <1>6, <1>7, <1>8 DEF Facing

\* Inductive: the update is on its way, or nobody wanted it, or somebody kept it and
\* all that is promised holds of what became of it.
OneFateInv ==
  /\ InWay
  /\ \/ OnWay /\ Quiet /\ taker \in {Nothing, "gate", "nobody"}
     \/ taker # Nothing /\ Way!DispatchHolds

LEMMA AssumedApart ==
  ASSUME Way!DispatchAssumption
  PROVE  /\ Apart /\ Nameless
         /\ \A m \in Updates : Arriving(m)
         /\ Settings \subseteq
              [{"fun", "utility", "restrict", "captcha", "doomlist", "ask", "sfw"} -> BOOLEAN]
<1>1. Apart
  BY DEF Way!DispatchAssumption, Apart
<1>2. Nameless
  BY ChainLength DEF Way!DispatchAssumption, Nameless
<1>3. \A m \in Updates : Arriving(m)
  BY DEF Way!DispatchAssumption, Arriving
<1>4. Settings \subseteq
        [{"fun", "utility", "restrict", "captcha", "doomlist", "ask", "sfw"} -> BOOLEAN]
  BY DEF Way!DispatchAssumption
<1> QED BY <1>1, <1>2, <1>3, <1>4

LEMMA WayStarts ==
  ASSUME Way!DispatchAssumption, Way!Init
  PROVE  OneFateInv
<1>1. InWay
  BY AssumedApart DEF Way!Init, InWay
<1>2. Quiet /\ taker = Nothing
  BY DEF Way!Init, Quiet
<1>3. OnWay
  <2>1. place = 0 /\ said = {} /\ deeds = {} /\ jobs = {}
    BY DEF Way!Init
  <2>2. place < 49 /\ place < 53
    BY <2>1
  <2> QED BY <2>1, <2>2 DEF OnWay
<1> QED BY <1>1, <1>2, <1>3 DEF OneFateInv

\* Switching an area changes nothing of what an update met.
LEMMA SwitchingHarmless ==
  ASSUME OneFateInv, Way!Reconfigure
  PROVE  OneFateInv'
<1>1. PICK area \in {"fun", "utility"} : config' = [config EXCEPT ![area] = ~@]
  BY DEF Way!Reconfigure
<1>2. /\ seen' = seen \cup {config'} /\ update' = update /\ place' = place /\ taker' = taker
      /\ said' = said /\ deeds' = deeds /\ jobs' = jobs /\ mark' = mark
  BY DEF Way!Reconfigure
<1>3. config' \in [{"fun", "utility", "restrict", "captcha", "doomlist", "ask", "sfw"} -> BOOLEAN]
  BY <1>1 DEF OneFateInv, InWay
<1>4. config'["restrict"] = config["restrict"] /\ config'["captcha"] = config["captcha"]
  BY <1>1 DEF OneFateInv, InWay
<1>5. InWay'
  BY <1>2, <1>3 DEF OneFateInv, InWay
<1>6. (Restricted' <=> Restricted) /\ (Pending' <=> Pending)
  BY <1>2, <1>4 DEF Restricted, Pending
<1>7. CASE OnWay /\ Quiet /\ taker \in {Nothing, "gate", "nobody"}
  <2>1. OnWay' /\ Quiet'
    BY <1>2, <1>6, <1>7 DEF OnWay, Quiet
  <2> QED BY <1>2, <1>5, <1>7, <2>1 DEF OneFateInv
<1>8. CASE taker # Nothing /\ Way!DispatchHolds
  <2>1. Way!OffIsOff'
    BY <1>2, <1>8 DEF Way!DispatchHolds, Way!OffIsOff
  <2>2. Way!AdminsOnly' /\ Way!OneFate' /\ Way!AdsUnpooled' /\ Way!RelayedUnanswered'
    BY <1>2, <1>8 DEF Way!DispatchHolds, Way!AdminsOnly, Way!OneFate, Way!AdsUnpooled,
                      Way!RelayedUnanswered, Way!IsAdmin
  <2>3. Way!RestrictedUnused' /\ Way!PendingUnheard'
    BY <1>2, <1>4, <1>8 DEF Way!DispatchHolds, Way!RestrictedUnused, Way!PendingUnheard
  <2>4. Way!AnsweredOnce' /\ Way!TraceHonest'
    BY <1>2, <1>8 DEF Way!DispatchHolds, Way!AnsweredOnce, Way!TraceHonest
  <2> QED BY <1>2, <1>5, <1>8, <2>1, <2>2, <2>3, <2>4 DEF OneFateInv, Way!DispatchHolds
<1> QED BY <1>7, <1>8 DEF OneFateInv

LEMMA KeptHolds ==
  ASSUME Apart, Nameless, InWay, OnWay, mark \in {Nothing, "answered"},
         NEW i, NEW o, Facing(i, o), Kept(i, o)
  PROVE  OneFateInv'
<1>1. InWay'
  BY DEF InWay, Kept, Facing
<1>2. taker' # Nothing
  BY DEF Kept, Facing, Nameless
<1>3. Way!DispatchHolds'
  BY KeptOff, KeptAdmins, KeptFate, KeptRestricted, KeptPosts, KeptPending, KeptTrace
     DEF Way!DispatchHolds
<1> QED BY <1>1, <1>2, <1>3 DEF OneFateInv

LEMMA WayGoesOn ==
  ASSUME Way!DispatchAssumption, OneFateInv, [Way!Next]_Way!dispatchVars
  PROVE  OneFateInv'
<1>1. Apart /\ Nameless
  BY AssumedApart
<1>2. CASE UNCHANGED Way!dispatchVars
  <2>1. /\ update' = update /\ config' = config /\ seen' = seen /\ place' = place /\ taker' = taker
        /\ said' = said /\ deeds' = deeds /\ jobs' = jobs /\ mark' = mark
    BY <1>2 DEF Way!dispatchVars
  <2>2. InWay' /\ (OnWay' <=> OnWay) /\ (Quiet' <=> Quiet)
    BY <2>1 DEF OneFateInv, InWay, OnWay, Quiet, Restricted, Pending
  <2>3. Way!DispatchHolds' <=> Way!DispatchHolds
    BY <2>1 DEF Way!DispatchHolds, Way!OffIsOff, Way!AdminsOnly, Way!OneFate, Way!RestrictedUnused,
                Way!AdsUnpooled, Way!RelayedUnanswered, Way!PendingUnheard, Way!AnsweredOnce,
                Way!TraceHonest, Way!IsAdmin
  <2> QED BY <2>1, <2>2, <2>3 DEF OneFateInv
<1>3. CASE Way!Reconfigure
  BY <1>3, SwitchingHarmless
<1>4. ASSUME Way!Moving PROVE /\ InWay /\ OnWay /\ Quiet /\ mark \in {Nothing, "answered"}
                              /\ taker = Nothing
  BY <1>1, <1>4 DEF OneFateInv, Way!Moving, Quiet, Nameless
<1>5. CASE Way!TenantGate
  <2>1. /\ InWay /\ OnWay /\ place = 0
        /\ taker' = "gate" /\ mark' = "silent" /\ update' = update /\ config' = config
        /\ seen' = seen /\ place' = place /\ said' = said /\ deeds' = deeds /\ jobs' = jobs
    BY <1>4, <1>5 DEF Way!TenantGate
  <2>2. said = {}
    <3>1. ~(place >= 58) /\ ~(place >= 68)
      BY <2>1
    <3> QED BY <2>1, <3>1 DEF OnWay
  <2>3. InWay' /\ OnWay'
    BY <2>1 DEF InWay, OnWay, Restricted, Pending
  <2>4. Quiet'
    BY <2>1, <2>2 DEF Quiet
  <2> QED BY <2>1, <2>3, <2>4 DEF OneFateInv
<1>6. ASSUME NEW i, i = Way!NextClaim, Way!Handle(i) PROVE OneFateInv'
  <2>1. /\ InWay /\ OnWay /\ Quiet /\ mark \in {Nothing, "answered"} /\ taker = Nothing /\ i # 0
    BY <1>4, <1>6 DEF Way!Handle, Way!NoClaim
  <2>2. PICK o \in Way!Outcomes(Way!Chain[i], update, config) :
          /\ place' = i
          /\ taker' = IF o.on THEN Nothing ELSE Way!Chain[i]
          /\ said' = said \cup (IF o.says = Nothing THEN {} ELSE {<<Way!Chain[i], o.says>>})
          /\ deeds' = deeds \cup o.deeds
          /\ jobs' = jobs \cup (IF o.job = Nothing THEN {} ELSE {o.job})
          /\ mark' = IF o.mark = Nothing THEN mark ELSE o.mark
    BY <1>6 DEF Way!Handle
  <2>3. update' = update /\ config' = config /\ seen' = seen
    BY <1>6 DEF Way!Handle
  <2>4. Facing(i, o)
    BY <1>1, <1>6, <2>1, NextFaces
  <2>5. CASE o.on
    <3>1. PassedOn(i, o)
      BY <2>2, <2>3, <2>5 DEF PassedOn
    <3>2. OnWay'
      BY <1>1, <2>1, <2>4, <3>1, PassedStillOnWay
    <3>3. InWay'
      BY <2>1, <2>2, <2>3, <2>4 DEF InWay, Facing
    <3>4. Quiet'
      BY <2>1, <2>4, <3>1 DEF Quiet, PassedOn, Facing, Fits
    <3> QED BY <3>1, <3>2, <3>3, <3>4 DEF OneFateInv, PassedOn
  <2>6. CASE ~o.on
    <3>1. Kept(i, o)
      BY <2>2, <2>3, <2>6 DEF Kept
    <3> QED BY <1>1, <2>1, <2>4, <3>1, KeptHolds
  <2> QED BY <2>5, <2>6
<1>7. ASSUME NEW i, i = Way!NextClaim, Way!Fail(i) PROVE OneFateInv'
  <2>1. /\ InWay /\ OnWay /\ mark \in {Nothing, "answered"} /\ i # 0
    BY <1>4, <1>7 DEF Way!Fail, Way!NoClaim
  <2>2. PICK o \in Way!Outcomes(Way!Chain[i], update, config), wrote \in BOOLEAN :
          deeds' = deeds \cup (IF wrote THEN o.deeds ELSE {})
    BY <1>7 DEF Way!Fail
  <2>3. /\ place' = i /\ taker' = Way!Chain[i] /\ said' = said \cup {<<"telemetry", "notice">>}
        /\ mark' = "error" /\ update' = update /\ config' = config /\ seen' = seen /\ jobs' = jobs
    BY <1>7 DEF Way!Fail
  <2>4. Facing(i, o)
    BY <1>1, <1>7, <2>1, NextFaces
  <2>5. Kept(i, o)
    BY <2>2, <2>3 DEF Kept
  <2> QED BY <1>1, <2>1, <2>4, <2>5, KeptHolds
<1>8. ASSUME NEW i, Way!FallThrough(i) PROVE OneFateInv'
  <2>1. /\ InWay /\ OnWay /\ mark \in {Nothing, "answered"}
        /\ taker' = "nobody" /\ mark' = mark /\ update' = update /\ config' = config
        /\ seen' = seen /\ place' = place /\ said' = said /\ deeds' = deeds /\ jobs' = jobs
    BY <1>4, <1>8 DEF Way!FallThrough
  <2>2. InWay' /\ OnWay' /\ Quiet'
    BY <2>1 DEF InWay, OnWay, Restricted, Pending, Quiet
  <2> QED BY <2>1, <2>2 DEF OneFateInv
<1> QED BY <1>2, <1>3, <1>5, <1>6, <1>7, <1>8 DEF Way!Next

\* An update has one fate, whoever is asked about it and whatever is switched while it
\* is on its way (DispatchHolds): an area that is off does nothing, what the catalogue
\* gives to administrators nobody else does, a newcomer is banned, challenged or
\* welcomed once, guarded answers and pictures go no further, an ad is no picture of
\* the group, an update is answered once, and the trace tells no lie.
THEOREM UpdatesHaveOneFate ==
  ASSUME Way!DispatchAssumption
  PROVE  Way!Spec => []Way!DispatchHolds
<1>1. Way!Init => OneFateInv
  BY WayStarts
<1>2. OneFateInv /\ [Way!Next]_Way!dispatchVars => OneFateInv'
  BY WayGoesOn
<1>3. OneFateInv => Way!DispatchHolds
  BY UnderWay, AssumedApart DEF OneFateInv
<1> QED BY <1>1, <1>2, <1>3, PTL DEF Way!Spec
=============================================================================
