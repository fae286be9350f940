------------------------------- MODULE Paging -------------------------------
(***************************************************************************)
(* A client that walks a list of the console page by page while rows are   *)
(* written and removed: the audit trail of a group or of the fleet, newest *)
(* first (cb_core/audit.py), or the directory of groups, by group_id       *)
(* (cb_core/platform_analytics.py).  Both are keyset reads on a unique id. *)
(* A UUIDv7 is drawn before its row is inserted and by the clock of one    *)
(* process, so a row may turn up anywhere.                                 *)
(***************************************************************************)
EXTENDS Integers, FiniteSets

CONSTANTS Rows,   \* ids that may be used, ordered as the client reads them
          Limit   \* `limit` of a request

PagingAssumption == Rows \subseteq Nat /\ Limit \in Nat \ {0}

VARIABLES table,  \* ids in the table
          list,   \* "trail" or "directory"
          cursor, \* the last id of the previous page, -1 before the first
          done,   \* the client was told that there is no next page
          seen,   \* how often each row was shown
          stayed  \* history: rows in the table since the walk began

walkVars == <<table, list, cursor, done, seen, stayed>>

WalkTyped ==
  /\ table \subseteq Rows /\ stayed \subseteq table
  /\ list \in {"trail", "directory"}
  /\ cursor \in Rows \cup {-1} /\ done \in BOOLEAN
  /\ seen \in [Rows -> Nat]

WalkInit ==
  /\ table \in SUBSET Rows /\ stayed = table
  /\ list \in {"trail", "directory"}
  /\ cursor = -1 /\ done = FALSE
  /\ seen = [r \in Rows |-> 0]

-----------------------------------------------------------------------------
\* WHERE id comes after the cursor
After == {r \in table : r > cursor}

\* ORDER BY id LIMIT n: the n first rows after the cursor, or all there are.
IsPage(page, n) ==
  /\ page \subseteq After
  /\ page # After => Cardinality(page) = n
  /\ \A r \in page, s \in After \ page : r < s

Show(page) == seen' = [r \in Rows |-> seen[r] + (IF r \in page THEN 1 ELSE 0)]
IsLast(r, page) == r \in page /\ \A s \in page : s <= r

\* Mutant of PageOfTrail: the cursor is the row that was read and not shown.
PageOfTrail_SkipsProof(page, extra) ==
  /\ list = "trail" /\ IsPage(page \cup extra, Limit + 1)
  /\ \A r \in page, s \in extra : r < s
  /\ Show(page)
  /\ IF extra = {} THEN Cardinality(page) <= Limit /\ done' = TRUE /\ UNCHANGED cursor
     ELSE Cardinality(extra) = 1 /\ Cardinality(page) = Limit
          /\ \E r \in extra : IsLast(r, extra) /\ cursor' = r /\ UNCHANGED done

\* audit.page asks for a row more than it shows: that one proves there is a
\* next page, whose cursor is the last row shown.
PageOfTrail(page, extra) ==
  /\ list = "trail" /\ IsPage(page \cup extra, Limit + 1)
  /\ \A r \in page, s \in extra : r < s
  /\ Show(page)
  /\ IF extra = {} THEN Cardinality(page) <= Limit /\ done' = TRUE /\ UNCHANGED cursor
     ELSE Cardinality(extra) = 1 /\ Cardinality(page) = Limit
          /\ \E r \in page : IsLast(r, page) /\ cursor' = r /\ UNCHANGED done

\* The directory takes a full page as a sign that there may be another.
PageOfDirectory(page) ==
  /\ list = "directory" /\ IsPage(page, Limit)
  /\ Cardinality(page) <= Limit
  /\ Show(page)
  /\ IF Cardinality(page) = Limit THEN \E r \in page : IsLast(r, page) /\ cursor' = r /\ UNCHANGED done
     ELSE done' = TRUE /\ UNCHANGED cursor

NextPage ==
  /\ ~done /\ UNCHANGED <<table, list, stayed>>
  /\ \/ \E page \in SUBSET After : \E extra \in SUBSET (After \ page) : PageOfTrail(page, extra)
     \/ \E page \in SUBSET After : PageOfDirectory(page)

\* A row is inserted; the group is forgotten (ON DELETE CASCADE) or leaves.
Insert(r) ==
  /\ r \notin table
  /\ table' = table \cup {r}
  /\ UNCHANGED <<list, cursor, done, seen, stayed>>

Remove(r) ==
  /\ r \in table
  /\ table' = table \ {r} /\ stayed' = stayed \ {r}
  /\ UNCHANGED <<list, cursor, done, seen>>

WalkNext == NextPage \/ \E r \in Rows : Insert(r) \/ Remove(r)

WalkSpec == WalkInit /\ [][WalkNext]_walkVars

-----------------------------------------------------------------------------
\* A row that is in the table from the first request to the last is shown
\* once, whatever is inserted and removed meanwhile; no row is shown twice.
\* "stable and unique, so a group added between two pages cannot make a row
\* repeat or vanish" (routers/admin.py), for both lists.
WalkComplete ==
  /\ \A r \in Rows : seen[r] <= 1
  /\ done => \A r \in stayed : seen[r] = 1
=============================================================================
