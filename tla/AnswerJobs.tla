----------------------------- MODULE AnswerJobs -----------------------------
(* The jobs a command leaves to the workers because its answer takes a        *)
(* download, a search or a picture (cb_worker/jobs): the source of an image,   *)
(* an image or a video by words, a meme, a distorted picture or voice, the     *)
(* song of a voice note, and the messages to the admins of a group that is     *)
(* called for. One worker process runs several at once. arq runs them again    *)
(* when the process is killed, never when one raised or ran out of time. That  *)
(* each is found under the name it is sent by is told in JobQueue.             *)
EXTENDS Integers, Sequences, FiniteSets, SequencesExt

CONSTANTS Jobs, Kinds, \* The jobs, and what kinds of them there are.
          Chat,       \* Where most answers go.
          Admins,     \* Whom a list of the group's admins may name, the bot left out.
          Roster,     \* Its members, in the order the query gives them.
          Unnamed,    \* Those of them without a username.
          Tags,       \* The names a meme was asked for, as typed.
          Templates,  \* What is stored to paste faces in: [language, count].
          Language,   \* The group's.
          MaxBlobs,   \* MAX_BLOBS
          Candidates, \* How many pictures a search finds.
          Bound,      \* distortion_concurrency
          MaxKills

JobsAssumption ==
  /\ Chat \notin Admins /\ Bound \in Nat \ {0} /\ MaxKills \in Nat /\ Candidates \in Nat
  /\ \A t \in Templates : t.language \in {"English", "Portuguese"} /\ t.count \in 1..MaxBlobs
  /\ Kinds \subseteq {"source", "image", "video", "meme", "distortion", "song", "call"}
  /\ IsFiniteSet(Jobs) /\ IsFiniteSet(Admins)
  /\ Tags \in Seq(ToSet(Tags)) /\ Roster \in Seq(ToSet(Roster))

VARIABLES kind,    \* What each job is for.
          step,    \* Where it is.
          left,    \* What it has yet to try; of a call, the list of admins it got.
          faces,   \* The members whose picture a meme has.
          tried,   \* Whom this run has tried to tell something.
          shown,   \* How often each recipient was shown something.
          excess,  \* Kills, and sends that were delivered and raised.
          permits, \* The semaphore of the process.
          kills

jobsVars == <<kind, step, left, faces, tried, shown, excess, permits, kills>>

Recipients == Admins \cup {Chat}
Over == {"ok", "error"}
Running(j) == step[j] \notin Over \cup {"queued"}
\* The thread of a distortion is waited for under the semaphore, and so is the
\* answer that it failed.
Holds(j) == step[j] \in {"distort", "fail"}

FirstStep ==
  [source |-> "download", image |-> "search", video |-> "search", meme |-> "template",
   distortion |-> "download", song |-> "consult", call |-> "admins"]

Init ==
  /\ kind \in [Jobs -> Kinds]
  /\ step = [j \in Jobs |-> "queued"]
  /\ left = [j \in Jobs |-> <<>>] /\ faces = [j \in Jobs |-> <<>>]
  /\ tried = [j \in Jobs |-> {}]
  /\ shown = [j \in Jobs |-> [r \in Recipients |-> 0]]
  /\ excess = [j \in Jobs |-> 0]
  /\ permits = Bound /\ kills = 0

-----------------------------------------------------------------------------
\* _interpret: limits that are spent show as negative; only the first result
\* counts, and only if it is a close one that has an address.
Payloads ==
  [short : BOOLEAN, long : BOOLEAN,
   first : {"none", "unreadable", "no address", "far", "close"}]
Interpret(p) ==
  CASE p.short -> "short_limit"
    [] ~p.short /\ p.long -> "long_limit"
    [] ~p.short /\ ~p.long /\ p.first = "close" -> "found"
    [] OTHER -> "not_found"

\* Templates with room for every name, in the group's language or else in English.
Suitable(tagged) ==
  LET With(language) ==
        {t \in Templates : t.language = language /\ t.count \in (IF tagged > 1 THEN tagged ELSE 1)..MaxBlobs}
  IN IF With(Language) = {} THEN With("English") ELSE With(Language)

\* The members who were named, then everybody else, each once who has a username.
Named == ToSet(Roster) \ Unnamed
Once(order, m) == IF m \in Named \ ToSet(order) THEN Append(order, m) ELSE order
Order == FoldLeft(Once, <<>>, Tags \o Roster)

-----------------------------------------------------------------------------
At(j, s) == step[j] = s
Goto(j, s) == step' = [step EXCEPT ![j] = s]
StartRun(j) ==
  /\ At(j, "queued") /\ Goto(j, FirstStep[kind[j]])
  /\ UNCHANGED <<kind, left, faces, tried, shown, excess, permits, kills>>

\* A read that fails or finds nothing goes one way, one that does not another.
Reads(j, from, steps) ==
  /\ At(j, from) /\ \E s \in steps : Goto(j, s)
  /\ UNCHANGED <<kind, left, faces, tried, shown, excess, permits, kills>>

Download(j) ==
  \/ kind[j] = "source" /\ Reads(j, "download", {"reply", "lookup"})
  \/ kind[j] = "distortion" /\ Reads(j, "download", {"reply", "acquire"})
  \/ kind[j] = "song" /\ Reads(j, "download", {"ok", "recognise"})

\* SauceNAO. Without a key, or an answer, it reads as not found; every verdict
\* is a reply.
Lookup(j) ==
  \E verdict \in {"not_found"} \cup {Interpret(p) : p \in Payloads} :
    Reads(j, "lookup", IF verdict \in {"found", "not_found"} THEN {"react"} ELSE {"reply"})
React(j) == Reads(j, "react", {"reply"})

SearchVideos(j) == kind[j] = "video" /\ Reads(j, "search", {"send"})

\* Google's images come shuffled; those without an address are left out.
SearchImages(j) ==
  /\ kind[j] = "image" /\ At(j, "search") /\ Goto(j, "pictures")
  /\ \E n \in 0..Candidates : left' = [left EXCEPT ![j] = [i \in 1..n |-> Chat]]
  /\ UNCHANGED <<kind, faces, tried, shown, excess, permits, kills>>

\* Without the service, while its breaker is open, or without a match, nothing is said.
Consult(j) == Reads(j, "consult", {"ok", "download"})
Recognise(j) == Reads(j, "recognise", {"ok", "send"})

Template(j) ==
  Reads(j, "template", {"reply"} \cup (IF Suitable(Len(Tags)) = {} THEN {} ELSE {"roster"}))
GatherFaces(j) ==
  /\ At(j, "roster") /\ Goto(j, "faces")
  /\ left' = [left EXCEPT ![j] = Order] /\ faces' = [faces EXCEPT ![j] = <<>>]
  /\ UNCHANGED <<kind, tried, shown, excess, permits, kills>>

\* The template that was chosen has room for at least the names.
Wanted == {t.count : t \in Suitable(Len(Tags))}
ProfilePhoto(j) ==
  /\ At(j, "faces") /\ left[j] # <<>>
  /\ \E n \in Wanted : Len(faces[j]) < n
  /\ left' = [left EXCEPT ![j] = Tail(@)]
  /\ \/ faces' = [faces EXCEPT ![j] = Append(@, Head(left[j]))]
     \/ UNCHANGED faces
  /\ UNCHANGED <<kind, step, tried, shown, excess, permits, kills>>
Compose(j) ==
  /\ left[j] = <<>> \/ Len(faces[j]) \in Wanted
  /\ Reads(j, "faces", IF faces[j] = <<>> THEN {"reply"} ELSE {"send"})

\* The seam carving or the vibrato, in a thread.
Acquire(j) ==
  /\ At(j, "acquire") /\ permits > 0
  /\ permits' = permits - 1 /\ Goto(j, "distort")
  /\ UNCHANGED <<kind, left, faces, tried, shown, excess, kills>>
Distort(j) ==
  /\ At(j, "distort")
  /\ \/ Goto(j, "fail") /\ UNCHANGED permits
     \/ Goto(j, "send") /\ permits' = permits + 1
  /\ UNCHANGED <<kind, left, faces, tried, shown, excess, kills>>

\* Telegram's list or, when Telegram fails, the stored one, stale or empty as it
\* may be: admins.refresh never raises.
ListAdmins(j) ==
  /\ At(j, "admins") /\ Goto(j, "tell")
  /\ \E listed \in SUBSET Admins : left' = [left EXCEPT ![j] = SetToSeq(listed)]
  /\ UNCHANGED <<kind, faces, tried, shown, excess, permits, kills>>

-----------------------------------------------------------------------------
\* A message to somebody: delivered, refused, or delivered and raised all the same.
Try(j, r) == tried' = [tried EXCEPT ![j] = @ \cup {r}]
Delivered(j, r) == shown' = [shown EXCEPT ![j][r] = @ + 1] /\ UNCHANGED excess
Refused == UNCHANGED <<shown, excess>>
Unsure(j, r) ==
  /\ shown' = [shown EXCEPT ![j][r] = @ + 1]
  /\ excess' = [excess EXCEPT ![j] = @ + 1]

\* _reply: what goes wrong is logged.
Reply(j) ==
  /\ step[j] \in {"reply", "fail"} /\ Goto(j, "ok") /\ Try(j, Chat)
  /\ Delivered(j, Chat) \/ Refused
  /\ permits' = permits + IF Holds(j) THEN 1 ELSE 0
  /\ UNCHANGED <<kind, left, faces, kills>>

\* The result itself: what goes wrong is the job's error.
Send(j) ==
  /\ At(j, "send") /\ Try(j, Chat)
  /\ \/ Goto(j, "ok") /\ Delivered(j, Chat)
     \/ Goto(j, "error") /\ (Refused \/ Delivered(j, Chat))
  /\ UNCHANGED <<kind, left, faces, permits, kills>>

\* One result after the other until Telegram accepts one; then a word that
\* there was none.
SendPicture(j) ==
  /\ At(j, "pictures") /\ left[j] # <<>> /\ Try(j, Chat)
  /\ \/ Goto(j, "ok") /\ Delivered(j, Chat) /\ UNCHANGED left
     \/ /\ UNCHANGED step /\ left' = [left EXCEPT ![j] = Tail(@)]
        /\ Refused \/ Unsure(j, Chat)
  /\ UNCHANGED <<kind, faces, permits, kills>>
NoPicture(j) == left[j] = <<>> /\ Reads(j, "pictures", {"send"})

\* Everybody on the list, in an order that means nothing. An admin who blocked
\* the bot ends nothing.
TellAdmin(j) ==
  /\ At(j, "tell")
  /\ \E a \in ToSet(left[j]) \ tried[j] : Try(j, a) /\ (Delivered(j, a) \/ Refused)
  /\ UNCHANGED <<kind, step, left, faces, permits, kills>>
AllTold(j) == ToSet(left[j]) \subseteq tried[j] /\ Reads(j, "tell", {"ok"})

-----------------------------------------------------------------------------
\* A call that raises, or job_timeout: the semaphore is left. (A thread that carves
\* goes on for nobody.)
Raises(j) ==
  /\ Running(j) /\ Goto(j, "error")
  /\ permits' = permits + IF Holds(j) THEN 1 ELSE 0
  /\ UNCHANGED <<kind, left, faces, tried, shown, excess, kills>>

\* The process is killed, and what it was at is run again by the next.
Kill ==
  /\ kills < MaxKills /\ kills' = kills + 1
  /\ \E j \in Jobs : Running(j)
  /\ step' = [j \in Jobs |-> IF Running(j) THEN "queued" ELSE step[j]]
  /\ left' = [j \in Jobs |-> IF Running(j) THEN <<>> ELSE left[j]]
  /\ tried' = [j \in Jobs |-> IF Running(j) THEN {} ELSE tried[j]]
  /\ excess' = [j \in Jobs |-> excess[j] + IF Running(j) THEN 1 ELSE 0]
  /\ permits' = Bound
  /\ UNCHANGED <<kind, faces, shown>>

Next ==
  \/ \E j \in Jobs :
       \/ StartRun(j) \/ Download(j) \/ Lookup(j) \/ React(j) \/ SearchVideos(j) \/ SearchImages(j) \/ Consult(j)
       \/ Recognise(j) \/ Template(j) \/ GatherFaces(j) \/ ProfilePhoto(j) \/ Compose(j)
       \/ Acquire(j) \/ Distort(j) \/ ListAdmins(j) \/ Reply(j) \/ Send(j) \/ SendPicture(j)
       \/ NoPicture(j) \/ TellAdmin(j) \/ AllTold(j) \/ Raises(j)
  \/ Kill

Spec == Init /\ [][Next]_jobsVars

-----------------------------------------------------------------------------
TypeOK ==
  /\ kind \in [Jobs -> Kinds] /\ permits \in 0..Bound /\ kills \in 0..MaxKills
  /\ \A j \in Jobs : left[j] \in Seq(Recipients \cup ToSet(Roster)) /\ faces[j] \in Seq(ToSet(Roster))
  /\ tried \in [Jobs -> SUBSET Recipients] /\ shown \in [Jobs -> [Recipients -> Nat]]

\* Nobody is shown more than one answer to one command, but for a worker that was
\* killed after one or an error that came after one (image_search.py's loop goes on).
ShownOnce == \A j \in Jobs, r \in Recipients : shown[j][r] <= 1 + excess[j]

\* A job that came to its end has told, or tried to tell, whoever waited for it:
\* the chat, or everybody on the list of admins it was given, which may be nobody
\* at all when Telegram failed (admins.refresh). Only a voice note without a song
\* is met with nothing (distortion.py: v1 "leaves the user with no reply at all").
NobodyIgnored ==
  \A j \in Jobs : step[j] = "ok" /\ kind[j] # "song" =>
    tried[j] = IF kind[j] = "call" THEN ToSet(left[j]) ELSE {Chat}

\* The bound on distortions is neither lost by a job that failed or ran out of time
\* nor given twice (distortion.py, concurrency_bound).
BoundKept == permits + Cardinality({j \in Jobs : Holds(j)}) = Bound

\* Nobody is in a meme twice, and nobody who was not named before all who were
\* were tried (meme.py, _gather_faces).
FacesAsked ==
  \A j \in Jobs :
    /\ IsInjective(faces[j]) /\ ToSet(faces[j]) \cap Unnamed = {}
    /\ step[j] = "faces" /\ ToSet(faces[j]) \ ToSet(Tags) # {} => ToSet(left[j]) \cap ToSet(Tags) = {}

JobsHold == ShownOnce /\ NobodyIgnored /\ BoundKept /\ FacesAsked
=============================================================================
