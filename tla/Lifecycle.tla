----------------------------- MODULE Lifecycle -----------------------------
(* How a process of the three services comes up and goes down (the lifespans  *)
(* and startup()/shutdown() of their main.py, with ingest.py, bots.py and the *)
(* init and close functions of cb_core), and what its handlers may still      *)
(* record meanwhile. A step that raises ends the process where it stands. The *)
(* pool of enqueue() is in JobQueue, the flushes one by one in EventRecorder. *)
EXTENDS Integers, Sequences

CONSTANTS Skins, Handlers,
          MaxEvents \* bound: events recorded

LifecycleAssumption == MaxEvents \in Nat

\* What each service does before it serves and after, in order.
Gateway_StoresFirst ==
  [starting |-> <<"schema", "pg", "cache", "storage", "llm", "listener", "recorder", "bots",
                  "names", "ingest">>,
   stopping |-> <<"ingest", "listener", "pg", "recorder", "bots", "llm", "storage", "queue",
                  "cache">>]
Gateway ==
  [starting |-> <<"schema", "pg", "cache", "storage", "llm", "listener", "recorder", "bots",
                  "names", "ingest">>,
   stopping |-> <<"ingest", "listener", "recorder", "bots", "llm", "storage", "queue", "cache",
                  "pg">>]
Worker ==
  [starting |-> <<"schema", "pg", "cache", "storage", "llm", "bots">>,
   stopping |-> <<"bots", "llm", "storage", "cache", "pg">>]
Api ==
  [starting |-> <<"schema", "pg", "cache", "storage">>,
   stopping |-> <<"storage", "cache", "pg">>]
Plans == [gateway |-> Gateway, worker |-> Worker, api |-> Api]
Services == DOMAIN Plans

VARIABLES process,  \* which service it is, how it gets its updates, where it is
          open,     \* what is started and not stopped
          poller,   \* the polling task of each skin
          busy,     \* handlers that run
          buffered, \* events in the recorder's buffer
          events,   \* how many were recorded
          late      \* history: of them, after the recorder was stopped
lifecycleVars == <<process, open, poller, busy, buffered, events, late>>

TypeOK ==
  /\ process \in [service : Services, mode : {"webhook", "polling", "websocket"}, at : Nat,
                  phase : {"starting", "serving", "stopping", "stopped", "failed"}]
  /\ poller \in [Skins -> {"none", "waiting", "polling", "dead"}]
  /\ busy \subseteq Handlers /\ events \in 0..MaxEvents
  /\ buffered \in Nat /\ late \in Nat

Init ==
  /\ process \in [service : Services, mode : {"webhook", "polling", "websocket"}, at : {1},
                  phase : {"starting"}]
  /\ open = {} /\ poller = [s \in Skins |-> "none"] /\ busy = {}
  /\ buffered = 0 /\ events = 0 /\ late = 0

-----------------------------------------------------------------------------
Plan == Plans[process.service][IF process.phase = "starting" THEN "starting" ELSE "stopping"]
Under(phase) == process.phase = phase /\ process.at <= Len(Plan)
Step == Plan[process.at]
Onward(next) ==
  process' = IF process.at < Len(Plan) THEN [process EXCEPT !.at = @ + 1]
             ELSE [process EXCEPT !.at = 1, !.phase = next]

\* Only these leave something behind that has to be stopped.
Handle(step) == {step} \ {"schema", "names"}

\* One polling task per skin, or a webhook that Telegram is told of; there is no
\* websocket.
Start ==
  /\ Under("starting") /\ ~(Step = "ingest" /\ process.mode = "websocket")
  /\ open' = open \cup Handle(Step)
  /\ poller' = IF Step = "ingest" /\ process.mode = "polling"
               THEN [s \in Skins |-> "waiting"] ELSE poller
  /\ Onward("serving")
  /\ UNCHANGED <<busy, buffered, events, late>>

Fail == process' = [process EXCEPT !.phase = "failed"]
\* A username that cannot be had is "", and the recorder only makes a task.
StartFails ==
  /\ Under("starting") /\ Step \notin {"names", "recorder"}
  /\ Fail
  /\ UNCHANGED <<open, poller, busy, buffered, events, late>>

\* aiogram polls for one start_polling of a dispatcher at a time; the others wait.
TakeTurn(s) ==
  /\ poller[s] = "waiting" /\ \A t \in Skins : poller[t] # "polling"
  /\ poller' = [poller EXCEPT ![s] = "polling"]
  /\ UNCHANGED <<process, open, busy, buffered, events, late>>
\* A poller that fails is logged and not started again.
PollerFails(s) ==
  /\ poller[s] = "polling"
  /\ poller' = [poller EXCEPT ![s] = "dead"]
  /\ UNCHANGED <<process, open, busy, buffered, events, late>>

\* A polled update's handler is a task of its own, and a request may outlast the
\* server's patience: neither ends with the serving.
Arrive(h) ==
  /\ process.service = "gateway" /\ process.phase = "serving" /\ h \notin busy
  /\ \/ process.mode = "webhook"
     \/ \E s \in Skins : poller[s] = "polling"
  /\ busy' = busy \cup {h}
  /\ UNCHANGED <<process, open, poller, buffered, events, late>>

Record(h) ==
  /\ h \in busy /\ events < MaxEvents /\ process.phase \in {"serving", "stopping"}
  /\ events' = events + 1 /\ buffered' = buffered + 1
  /\ late' = late + IF "recorder" \in open THEN 0 ELSE 1
  /\ UNCHANGED <<process, open, poller, busy>>
Leave(h) ==
  /\ h \in busy /\ busy' = busy \ {h}
  /\ UNCHANGED <<process, open, poller, buffered, events, late>>

\* Written, or dropped with a count.
Flush ==
  /\ "recorder" \in open /\ buffered > 0 /\ process.phase \in {"serving", "stopping"}
  /\ buffered' = 0
  /\ UNCHANGED <<process, open, poller, busy, events, late>>

Terminate ==
  /\ process.phase = "serving"
  /\ process' = [process EXCEPT !.phase = "stopping"]
  /\ UNCHANGED <<open, poller, busy, buffered, events, late>>

Stop ==
  /\ Under("stopping")
  /\ open' = open \ {Step}
  /\ poller' = IF Step = "ingest" THEN [s \in Skins |-> "none"] ELSE poller
  /\ buffered' = IF Step = "recorder" THEN 0 ELSE buffered
  /\ Onward("stopped")
  /\ UNCHANGED <<busy, events, late>>

\* The lifespan's finally is one block: what stands behind a step that raises is
\* not done. Pollers and the recorder swallow what happens to them.
StopFails ==
  /\ Under("stopping") /\ Step \notin {"ingest", "recorder", "storage"}
  /\ Fail
  /\ UNCHANGED <<open, poller, busy, buffered, events, late>>

Next ==
  \/ Start \/ StartFails \/ Terminate \/ Stop \/ StopFails \/ Flush
  \/ \E s \in Skins : TakeTurn(s) \/ PollerFails(s)
  \/ \E h \in Handlers : Arrive(h) \/ Record(h) \/ Leave(h)

Spec == Init /\ [][Next]_lifecycleVars

-----------------------------------------------------------------------------
\* What a step, or the recorder's task, works with.
Needs ==
  (IF process.phase \in {"starting", "stopping"} /\ Step = "listener" THEN {"cache"} ELSE {})
  \cup (IF process.phase = "starting" /\ Step \in {"names", "ingest"} THEN {"bots"} ELSE {})
  \cup (IF "recorder" \in open THEN {"pg"} ELSE {})

\* Nothing is used before it is up or after it is down: the last flush still has
\* its database, the listener its cache (main.py, lifespan; worker main.py).
NeedsMet == Needs \subseteq open

\* A process that stopped left nothing open and no poller behind, and no event of
\* a handler that recorded in time: one whose listener could not say goodbye to
\* Valkey ends as "failed" instead, with the buffer in its hands.
StoppedClean ==
  process.phase = "stopped" =>
    /\ open = {} /\ buffered = late
    /\ \A s \in Skins : poller[s] = "none"

\* Updates are handled by a process that is up as a whole.
ServedWhole ==
  process.phase = "serving" => /\ {"pg", "cache", "storage"} \subseteq open
                               /\ busy # {} => {"llm", "bots", "recorder"} \subseteq open

LifecycleHolds == NeedsMet /\ StoppedClean /\ ServedWhole
=============================================================================
