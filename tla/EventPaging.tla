---------------------------- MODULE EventPaging -----------------------------
(***************************************************************************)
(* A walk through the audit events, page by page: list_events of           *)
(* ReadOnlyQueryService (application/query_service.py) over list_events of *)
(* SQLiteAuditReader (adapters/persistence/sqlite_audit_reader.py), while  *)
(* the service appends to the table between any two requests and the wall  *)
(* clock that stamps its events may be set back.                           *)
(*                                                                         *)
(* A request is one SELECT in a transaction of its own, so one step.  Time *)
(* stamps are written in UTC with isoformat(), whose text sorts as the     *)
(* times do; event ids are random, in no relation to the order of appends. *)
(* Walks do not affect each other: there is one.                           *)
(***************************************************************************)
EXTENDS Integers, Sequences, FiniteSets

CONSTANTS
  Ids,               \* event ids, as numbers that sort as their text does
  Kinds,             \* values of the columns event_type and severity
  Anything,          \* no filter on them
  MaximumPageSize,   \* maximum_event_page_size
  MaxTime            \* bound of the wall clock

ASSUME PagingAssumption ==
  /\ Ids \subseteq Nat
  /\ Anything \notin Kinds
  /\ MaximumPageSize \in Nat \ {0}
  /\ MaxTime \in Nat

Times == 0..MaxTime
Events == [id : Ids, time : Times, kind : Kinds]

(* No bound is a bound outside the clock's range. *)
NoBefore == MaxTime + 1
NoAfter == 0 - 1
Filters == [before : 0..NoBefore, after : NoAfter..MaxTime, kind : Kinds \cup {Anything}]

VARIABLES
  table,     \* audit_events
  clock,     \* Clock.now()
  filter,    \* the filters of the walk
  cursor,    \* next_cursor of its last page: the last event of that page
  status,    \* "idle", "walking" with a cursor, "ended" without one
  pages,     \* history: the pages received
  begun      \* history: the table when the walk began

walk == <<filter, cursor, status, pages, begun>>
vars == <<table, clock, walk>>

TypeOK ==
  /\ table \subseteq Events /\ IsFiniteSet(table)
  /\ clock \in Times
  /\ filter \in Filters
  /\ cursor \in [id : Nat, time : Int]
  /\ status \in {"idle", "walking", "ended"}
  /\ pages \in Seq(SUBSET Events)
  /\ begun \subseteq Events

Unfiltered == [before |-> NoBefore, after |-> NoAfter, kind |-> Anything]

Init ==
  /\ table = {}
  /\ clock = 0
  /\ filter = Unfiltered
  /\ cursor = [id |-> 0, time |-> 0]
  /\ status = "idle"
  /\ pages = <<>>
  /\ begun = {}

-----------------------------------------------------------------------------
(* SQLiteAuditSink.append of an event that is stamped now. *)
Append1(id, kind) ==
  /\ \A e \in table : e.id # id
  /\ table' = table \cup {[id |-> id, time |-> clock, kind |-> kind]}
  /\ UNCHANGED <<clock, walk>>

(* The wall clock goes on, or is set. *)
SetClock ==
  /\ clock' \in Times \ {clock}
  /\ UNCHANGED <<table, walk>>

-----------------------------------------------------------------------------
(* ORDER BY timestamp DESC, event_id DESC. *)
Above(e, f) == e.time > f.time \/ (e.time = f.time /\ e.id > f.id)

(* Mutants: the clause is on the time alone; it includes the cursor's event. *)
MutBelowInTime(e) == e.time < cursor.time

MutBelowOrAt(e) == e.time < cursor.time \/ (e.time = cursor.time /\ e.id <= cursor.id)

(* The cursor's clause. *)
BelowCursor(e) == Above(cursor, e)

(* The WHERE clauses, except the cursor's. *)
Matches(e, f, bounded) ==
  /\ bounded => e.time < f.before
  /\ e.time > f.after
  /\ f.kind \in {Anything, e.kind}

(* rows are what ORDER BY and LIMIT n leave of S. *)
IsTop(rows, S, n) ==
  /\ rows \subseteq S
  /\ Cardinality(rows) <= n
  /\ rows = S \/ Cardinality(rows) = n
  /\ \A e \in rows, f \in S \ rows : Above(e, f)

(* Mutant: without the row more, a full page is taken to have a next one. *)
MutHasMore(rows, limit) == Cardinality(rows) >= limit

HasMore(rows, limit) == Cardinality(rows) > limit

(* EventCursor: its text is decoded to what was encoded. *)
CursorOf(e) == [id |-> e.id, time |-> e.time]

(* list_events of the service: one row more than asked for is selected; a    *)
(* cursor, the last item, is returned if that row exists.                    *)
Page(S, limit) ==
  \E rows \in SUBSET S :
    /\ IsTop(rows, S, limit + 1)
    /\ \E items \in SUBSET rows :
         /\ IsTop(items, rows, limit)
         /\ pages' = Append(pages, items)
         /\ IF HasMore(rows, limit)
            THEN /\ status' = "walking"
                 /\ \E last \in items :
                      /\ \A e \in items \ {last} : Above(e, last)
                      /\ cursor' = CursorOf(last)
            ELSE status' = "ended" /\ UNCHANGED cursor

(* The request without a cursor; after must be earlier than before. *)
Begin(f, limit) ==
  /\ status = "idle"
  /\ f.after < f.before
  /\ filter' = f
  /\ begun' = table
  /\ Page({e \in table : Matches(e, f, TRUE)}, limit)
  /\ UNCHANGED <<table, clock>>

(* A request with the cursor and the same filters, except before, which      *)
(* cannot be combined with it.                                               *)
Continue(limit) ==
  /\ status = "walking"
  /\ Page({e \in table : Matches(e, filter, FALSE) /\ BelowCursor(e)}, limit)
  /\ UNCHANGED <<table, clock, filter, begun>>

Next ==
  \/ \E id \in Ids, kind \in Kinds : Append1(id, kind)
  \/ SetClock
  \/ \E limit \in 1..MaximumPageSize :
       \/ \E f \in Filters : Begin(f, limit)
       \/ Continue(limit)

Spec == Init /\ [][Next]_vars

-----------------------------------------------------------------------------
Seen == UNION {pages[i] : i \in 1..Len(pages)}

(* read-only-api.md "Returns newest-first audit events": over the whole      *)
(* walk, whatever is appended between its pages and whatever the clock does, *)
(* each event of a later page is older than each of an earlier one, so that  *)
(* none comes twice, and all match the filters, before included, which only  *)
(* the first request can state.                                              *)
NewestFirst ==
  /\ \A i, j \in 1..Len(pages) :
       i < j => \A e \in pages[i], f \in pages[j] : Above(e, f)
  /\ \A e \in Seen : Matches(e, filter, TRUE)

(* read-only-api.md "so equal timestamps are not skipped": an event that     *)
(* was there when the walk began is in a page received, or still ahead of    *)
(* the cursor, and when the walk has ended it has been in a page.            *)
NothingSkipped ==
  status # "idle" =>
    \A e \in begun :
      Matches(e, filter, TRUE) => e \in Seen \/ (status = "walking" /\ Above(cursor, e))

(* query_service.py's look-ahead: a cursor is only given when something is   *)
(* left, so no walk ends in an empty page; and every page but the first      *)
(* shows at least one event, so that a walk through a finite table ends.     *)
CursorLeadsOn ==
  /\ status = "walking" =>
       \E e \in table : Matches(e, filter, TRUE) /\ Above(cursor, e)
  /\ \A i \in 2..Len(pages) : pages[i] # {}

=============================================================================
