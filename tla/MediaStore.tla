----------------------------- MODULE MediaStore -----------------------------
(***************************************************************************)
(* The media pool: the object store, its registry (media_blobs) and the    *)
(* references of the groups (media_objects).  Callers of MediaService.put  *)
(* are the gateway's pooling handler and the backfill of the v1 pointers;  *)
(* a forgotten group loses its references and the worker's sweep deletes   *)
(* what nobody references.  Every await of put and of collect_garbage is a *)
(* step of its own: the store and the database share no transaction.      *)
(***************************************************************************)
EXTENDS Naturals, FiniteSets

CONSTANTS Groups,      \* chats
          Hashes,      \* content hashes
          FileIds,     \* Telegram file ids
          Bytes,       \* what a file id resolves to: [FileIds -> Hashes]
          Kinds,       \* "photo", "video", ...
          LiveKind,    \* the kind of a live message: [FileIds -> Kinds]
          PathKind,    \* kind_for_path of the file's path: [FileIds -> Kinds]
          Messages,    \* media posted in the groups: a subset of Groups \X FileIds
          Pointers,    \* v1's randomdatabase: a subset of Groups \X FileIds
          Handlers,    \* pooling handlers that may run at once
          Backfill,    \* the one backfill run
          SweepLimit,  \* LIMIT of one sweep (500 in the code)
          NoRow

MediaAssumption ==
  /\ Bytes \in [FileIds -> Hashes]
  /\ LiveKind \in [FileIds -> Kinds] /\ PathKind \in [FileIds -> Kinds]
  /\ Messages \cup Pointers \subseteq Groups \X FileIds
  /\ Backfill \notin Handlers
  /\ SweepLimit \in Nat \ {0}
  /\ NoRow \notin [kind : Kinds, file : FileIds]

VARIABLES groups,     \* the rows of groups
          rows,       \* media_objects, keyed (group_id, content_hash)
          blobs,      \* media_blobs, without created_at
          store,      \* keys of the object store
          call,       \* the put each caller is in
          listed,     \* blobs the running sweep selected
          todo,       \* those it has still to delete from the store
          raced,      \* history: hashes put again while a sweep held them
          unregistered \* history: keys a put left out of the registry

vars == <<groups, rows, blobs, store, call, listed, todo, raced, unregistered>>

Callers == Handlers \cup {Backfill}
Key(kind, hash) == <<kind, hash>>
Idle == [at |-> "idle"]
Steps == {"look", "exists", "write", "register", "insert"}

KeyOf(c) == Key(call[c].kind, Bytes[call[c].file])
HashOf(c) == Bytes[call[c].file]
Busy(c) == call[c].at # "idle"
Blobs == [hash : Hashes, key : Kinds \X Hashes]
Known(hash) == \E b \in blobs : b.hash = hash
Registered(key) == \E b \in blobs : b.key = key
Referenced(hash) == \E g \in Groups : rows[<<g, hash>>] # NoRow
SweptKeys == {b.key : b \in listed}
SweptHashes == {b.hash : b \in listed}

TypeOK ==
  /\ groups \subseteq Groups
  /\ rows \in [Groups \X Hashes -> [kind : Kinds, file : FileIds] \cup {NoRow}]
  /\ blobs \subseteq Blobs
  /\ \A a, b \in blobs : a.hash = b.hash => a = b
  /\ store \subseteq Kinds \X Hashes
  /\ call \in [Callers -> {Idle} \cup
                 [at : Steps, group : Groups, file : FileIds, kind : Kinds]]
  /\ todo \subseteq listed /\ listed \subseteq Blobs
  /\ raced \subseteq Hashes /\ unregistered \subseteq Kinds \X Hashes

Init ==
  /\ groups = {} /\ rows = [gh \in Groups \X Hashes |-> NoRow]
  /\ blobs = {} /\ store = {}
  /\ call = [c \in Callers |-> Idle]
  /\ listed = {} /\ todo = {}
  /\ raced = {} /\ unregistered = {}

-----------------------------------------------------------------------------
(* Groups come and go: the upsert of groups, and the owner's /leave, whose *)
(* DELETE cascades to media_objects.                                       *)

Ensure(g) ==
  /\ g \notin groups
  /\ groups' = groups \cup {g}
  /\ UNCHANGED <<rows, blobs, store, call, listed, todo, raced, unregistered>>

ForgetGroup(g) ==
  /\ g \in groups
  /\ groups' = groups \ {g}
  /\ rows' = [gh \in DOMAIN rows |-> IF gh[1] = g THEN NoRow ELSE rows[gh]]
  /\ UNCHANGED <<blobs, store, call, listed, todo, raced, unregistered>>

-----------------------------------------------------------------------------
(* The two callers of put.                                                 *)

Begin(c, g, f, k) ==
  /\ ~Busy(c)
  /\ call' = [call EXCEPT ![c] = [at |-> "look", group |-> g, file |-> f, kind |-> k]]
  /\ UNCHANGED <<groups, rows, blobs, store, listed, todo, raced, unregistered>>

(* pool_media: the gate let the message in and the download succeeded.     *)
Pool(c, g, f) == <<g, f>> \in Messages /\ Begin(c, g, f, LiveKind[f])

AlreadyImported(g, f) ==
  \E h \in Hashes : rows[<<g, h>>] # NoRow /\ rows[<<g, h>>].file = f

(* backfill_pointer: the group is known, no row has the file id, and the   *)
(* file was downloaded; every other outcome changes nothing.               *)
BackfillPointer(g, f) ==
  /\ <<g, f>> \in Pointers
  /\ g \in groups /\ ~AlreadyImported(g, f)
  /\ Begin(Backfill, g, f, PathKind[f])

-----------------------------------------------------------------------------
(* MediaService.put, one step per await.                                   *)

To(c, step) == call' = [call EXCEPT ![c].at = step]
Return(c) == call' = [call EXCEPT ![c] = Idle]

(* _SELECT_BY_HASH: a hit returns the row it found and writes nothing.     *)
Look(c) ==
  /\ call[c].at = "look"
  /\ IF rows[<<call[c].group, HashOf(c)>>] # NoRow THEN Return(c) ELSE To(c, "exists")
  /\ UNCHANGED <<groups, rows, blobs, store, listed, todo, raced, unregistered>>

\* the registry is asked, instead of the store, whether the bytes are there
Exists_Registry(c) ==
  /\ call[c].at = "exists"
  /\ To(c, IF Known(HashOf(c)) THEN "register" ELSE "write")
  /\ UNCHANGED <<groups, rows, blobs, store, listed, todo, raced, unregistered>>

Exists(c) ==
  /\ call[c].at = "exists"
  /\ To(c, IF KeyOf(c) \in store THEN "register" ELSE "write")
  /\ UNCHANGED <<groups, rows, blobs, store, listed, todo, raced, unregistered>>

Write(c) ==
  /\ call[c].at = "write"
  /\ store' = store \cup {KeyOf(c)}
  /\ To(c, "register")
  /\ raced' = raced \cup ({HashOf(c)} \cap SweptHashes)
  /\ UNCHANGED <<groups, rows, blobs, listed, todo, unregistered>>

\* the insert into media_blobs without its conflict clause's key
RegisterBlob_PerKey(c) ==
  /\ call[c].at = "register"
  /\ blobs' = IF Registered(KeyOf(c)) THEN blobs
              ELSE blobs \cup {[hash |-> HashOf(c), key |-> KeyOf(c)]}
  /\ To(c, "insert")
  /\ UNCHANGED <<groups, rows, store, listed, todo, raced, unregistered>>

(* media_blobs ON CONFLICT (content_hash) DO NOTHING: the key of the first *)
(* kind stays, whatever kind these bytes come under now.                   *)
RegisterBlob(c) ==
  /\ call[c].at = "register"
  /\ IF Known(HashOf(c))
       THEN /\ unregistered' = IF Registered(KeyOf(c)) THEN unregistered
                               ELSE unregistered \cup {KeyOf(c)}
            /\ UNCHANGED blobs
       ELSE /\ blobs' = blobs \cup {[hash |-> HashOf(c), key |-> KeyOf(c)]}
            /\ UNCHANGED unregistered
  /\ To(c, "insert")
  /\ UNCHANGED <<groups, rows, store, listed, todo, raced>>

(* _INSERT: a conflict on (group_id, content_hash) keeps the row's kind    *)
(* and key and takes the new file id; without the groups row the foreign   *)
(* key refuses it and the caller gives up.                                 *)
Upserted(c) ==
  LET old == rows[<<call[c].group, HashOf(c)>>]
  IN IF old = NoRow THEN [kind |-> call[c].kind, file |-> call[c].file]
                    ELSE [old EXCEPT !.file = call[c].file]

InsertObject(c) ==
  /\ call[c].at = "insert"
  /\ IF call[c].group \in groups
       THEN /\ rows' = [rows EXCEPT ![<<call[c].group, HashOf(c)>>] = Upserted(c)]
            /\ raced' = raced \cup ({HashOf(c)} \cap SweptHashes)
       ELSE UNCHANGED <<rows, raced>>
  /\ Return(c)
  /\ UNCHANGED <<groups, blobs, store, listed, todo, unregistered>>

(* A storage or database error, or the end of the process: what was        *)
(* written stays written.                                                  *)
Abort(c) ==
  /\ Busy(c)
  /\ unregistered' = IF call[c].at = "register" THEN unregistered \cup {KeyOf(c)} ELSE unregistered
  /\ Return(c)
  /\ UNCHANGED <<groups, rows, blobs, store, listed, todo, raced>>

-----------------------------------------------------------------------------
(* collect_garbage: list, delete the objects one by one, drop the rows.    *)
(* Which of more than SweepLimit come first, created_at says, is left open.*)

Unreferenced == {b \in blobs : ~Referenced(b.hash)}

ListUnreferenced ==
  /\ listed = {} /\ Unreferenced # {}
  /\ listed' \in SUBSET Unreferenced
  /\ \/ listed' = Unreferenced /\ Cardinality(listed') <= SweepLimit
     \/ Cardinality(listed') = SweepLimit
  /\ todo' = listed'
  /\ UNCHANGED <<groups, rows, blobs, store, call, raced, unregistered>>

DeleteObject ==
  \E b \in todo :
    /\ store' = store \ {b.key}
    /\ raced' = raced \cup
         {HashOf(c) : c \in {d \in Callers : call[d].at \in {"register", "insert"}
                                             /\ KeyOf(d) = b.key}}
    /\ todo' = todo \ {b}
    /\ unregistered' = unregistered \ {b.key}
    /\ UNCHANGED <<groups, rows, blobs, call, listed>>

DropBlobs ==
  /\ listed # {} /\ todo = {}
  /\ blobs' = {b \in blobs : b.key \notin SweptKeys}
  /\ raced' = raced \cup
       {HashOf(c) : c \in {d \in Callers : call[d].at = "insert" /\ KeyOf(d) \in SweptKeys}}
  /\ listed' = {}
  /\ UNCHANGED <<groups, rows, store, call, todo, unregistered>>

\* a sweep that fails half way drops the rows of its batch all the same
AbortSweep_DropsRows ==
  /\ listed # {}
  /\ blobs' = {b \in blobs : b.key \notin SweptKeys}
  /\ listed' = {} /\ todo' = {}
  /\ UNCHANGED <<groups, rows, store, call, raced, unregistered>>

(* A StorageError in one delete, or the end of the worker, ends the sweep  *)
(* before the registry is touched.                                         *)
AbortSweep ==
  /\ listed # {}
  /\ listed' = {} /\ todo' = {}
  /\ UNCHANGED <<groups, rows, blobs, store, call, raced, unregistered>>

Next ==
  \/ \E g \in Groups : Ensure(g) \/ ForgetGroup(g)
  \/ \E g \in Groups, f \in FileIds :
       BackfillPointer(g, f) \/ \E c \in Handlers : Pool(c, g, f)
  \/ \E c \in Callers :
       \/ Look(c) \/ Exists(c) \/ Write(c) \/ RegisterBlob(c) \/ InsertObject(c)
       \/ Abort(c)
  \/ ListUnreferenced \/ DeleteObject \/ DropBlobs \/ AbortSweep

Spec == Init /\ [][Next]_vars

-----------------------------------------------------------------------------
(* Every reference of a group names an object that is in the store, unless *)
(* its bytes were put again while a sweep held them (media.py:267): the    *)
(* only way a reply can be asked for bytes that are gone.                  *)
RowServed ==
  \A g \in Groups, h \in Hashes :
    rows[<<g, h>>] # NoRow /\ h \notin raced => Key(rows[<<g, h>>].kind, h) \in store

(* Every object in the store can be collected one day, because the         *)
(* registry names it or a put is about to; the exceptions are a put that   *)
(* ended between the two writes, the same bytes under a second kind, and   *)
(* a put that met a sweep.                                                 *)
Accounted ==
  \A k \in store :
    \/ Registered(k)
    \/ \E c \in Callers : call[c].at = "register" /\ KeyOf(c) = k
    \/ k \in unregistered
    \/ k[2] \in raced
=============================================================================
