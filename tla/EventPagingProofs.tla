-------------------------- MODULE EventPagingProofs --------------------------
(***************************************************************************)
(* A walk through the audit events is complete and in order, for every     *)
(* table, page size and setting of the clock.  The argument: a page splits *)
(* what its request selects at its last item (PageSplits); and the cursor  *)
(* is the least of what has been seen (CursorIsLast), so that the next     *)
(* page selects from what is below all of it.                              *)
(***************************************************************************)
EXTENDS EventPaging, FiniteSetTheorems, SequenceTheorems, TLAPS

(* What has a place in the order of events. *)
Placed(e) == e.id \in Int /\ e.time \in Int

(* The order of the rows is transitive (sqlite_audit_reader.py:58-66).      *)
LEMMA AboveIsTransitive ==
  ASSUME NEW e, NEW f, NEW g, Placed(e), Placed(f), Placed(g), Above(e, f), Above(f, g)
  PROVE  Above(e, g)
BY DEF Above, Placed

(* What Above compares of an event is what a cursor keeps of it. *)
LEMMA CursorStands ==
  ASSUME NEW e, NEW f
  PROVE  /\ Above(CursorOf(e), f) <=> Above(e, f)
         /\ Above(f, CursorOf(e)) <=> Above(f, e)
BY DEF Above, CursorOf

-----------------------------------------------------------------------------
(* A page shows the newest of S.  If it is not all of S, its last item is a  *)
(* cursor to what is left, and something is.                                 *)
Splits(S, items) ==
  \/ /\ status' = "ended" /\ UNCHANGED cursor
     /\ items = S
  \/ /\ status' = "walking"
     /\ S \ items # {}
     /\ \E last \in items :
          /\ cursor' = CursorOf(last)
          /\ \A e \in items \ {last} : Above(e, last)
          /\ \A e \in S \ items : Above(last, e)

(* A page takes the newest of what is to come (query_service.py:148-163).   *)
LEMMA PageSplits ==
  ASSUME NEW S, IsFiniteSet(S), NEW limit \in Nat, Page(S, limit)
  PROVE  \E items \in SUBSET S : pages' = Append(pages, items) /\ Splits(S, items)
<1>1. PICK rows \in SUBSET S, items \in SUBSET S :
        /\ IsTop(rows, S, limit + 1)
        /\ IsTop(items, rows, limit)
        /\ pages' = Append(pages, items)
        /\ IF HasMore(rows, limit)
           THEN /\ status' = "walking"
                /\ \E last \in items :
                     /\ \A e \in items \ {last} : Above(e, last)
                     /\ cursor' = CursorOf(last)
           ELSE status' = "ended" /\ UNCHANGED cursor
  BY DEF Page, IsTop
<1>2. /\ IsFiniteSet(rows) /\ Cardinality(rows) \in Nat /\ Cardinality(items) \in Nat
      /\ Cardinality(items) = Cardinality(rows) => items = rows
      /\ Cardinality(items) <= Cardinality(rows)
  <2>1. IsFiniteSet(rows)
    BY FS_Subset
  <2>2. items \in SUBSET rows
    BY <1>1 DEF IsTop
  <2> QED
    BY <2>1, <2>2, FS_Subset, FS_CardinalityType
<1>3. CASE HasMore(rows, limit)
  <2>1. PICK last \in items :
          /\ \A e \in items \ {last} : Above(e, last)
          /\ cursor' = CursorOf(last)
    BY <1>1, <1>3
  <2>2. items # rows
    BY <1>1, <1>2, <1>3 DEF HasMore, IsTop
  <2>3. \A e \in S \ items : Above(last, e)
    BY <1>1, <2>1 DEF IsTop
  <2>4. S \ items # {}
    BY <1>1, <2>2 DEF IsTop
  <2> QED
    BY <1>1, <1>3, <2>1, <2>3, <2>4 DEF Splits
<1>4. CASE ~ HasMore(rows, limit)
  <2>1. rows = S
    BY <1>1, <1>2, <1>4 DEF HasMore, IsTop
  <2>2. items = rows
    BY <1>1, <1>2, <1>4 DEF HasMore, IsTop
  <2> QED
    BY <1>1, <1>4, <2>1, <2>2 DEF Splits
<1> QED
  BY <1>3, <1>4

-----------------------------------------------------------------------------
(* Nothing is ever deleted: what was there and what was seen is still there. *)
TableGrows ==
  /\ begun \subseteq table
  /\ \A i \in 1..Len(pages) : pages[i] \subseteq table
  /\ status = "idle" => pages = <<>>

(* The cursor is the last event seen.                                        *)
CursorIsLast ==
  status = "walking" =>
    /\ cursor.time < filter.before
    /\ \A e \in Seen : e.id # cursor.id \/ e.time # cursor.time => Above(e, cursor)

IInv ==
  /\ TypeOK
  /\ TableGrows
  /\ CursorIsLast
  /\ NewestFirst
  /\ NothingSkipped
  /\ CursorLeadsOn

(* The invariant holds before anything was asked for. *)
LEMMA Initially == Init => IInv
<1> SUFFICES ASSUME Init PROVE IInv
  OBVIOUS
<1>1. TypeOK
  <2>1. IsFiniteSet({}) /\ <<>> \in Seq(SUBSET Events)
    BY FS_EmptySet
  <2>2. clock \in Times /\ Unfiltered \in Filters
    BY PagingAssumption DEF Init, Times, Unfiltered, Filters, NoBefore, NoAfter
  <2>3. cursor \in [id : Nat, time : Int]
    BY DEF Init
  <2> QED
    BY <2>1, <2>2, <2>3 DEF Init, TypeOK
<1>2. Len(pages) = 0
  BY DEF Init
<1>3. Seen = {}
  BY <1>2 DEF Seen
<1> QED
  BY <1>1, <1>2, <1>3
  DEF Init, IInv, TableGrows, CursorIsLast, NewestFirst, NothingSkipped, CursorLeadsOn

(* The events and the cursor can be compared. *)
LEMMA AllPlaced ==
  ASSUME TypeOK
  PROVE  /\ Placed(cursor)
         /\ \A e \in Events : Placed(e) /\ CursorOf(e) \in [id : Nat, time : Int]
<1>1. cursor.id \in Nat /\ cursor.time \in Int
  BY DEF TypeOK
<1>2. ASSUME NEW e \in Events
      PROVE  e.id \in Nat /\ e.time \in Int
  <2>1. Ids \subseteq Nat /\ Times \subseteq Int
    BY PagingAssumption DEF Times
  <2> QED
    BY <2>1 DEF Events
<1> QED
  BY <1>1, <1>2 DEF Placed, CursorOf

(* An append adds an event to the table and changes no page. *)
LEMMA AppendStep ==
  ASSUME IInv, NEW id \in Ids, NEW kind \in Kinds, Append1(id, kind)
  PROVE  IInv'
<1> DEFINE new == [id |-> id, time |-> clock, kind |-> kind]
<1>1. /\ table' = table \cup {new} /\ \A e \in table : e.id # new.id
      /\ UNCHANGED <<clock, filter, cursor, status, pages, begun>>
  BY DEF Append1, walk
<1>2. new \in Events
  BY DEF IInv, TypeOK, Events
<1> HIDE DEF new
<1>3. TypeOK'
  BY <1>1, <1>2, FS_AddElement DEF IInv, TypeOK
<1>4. TableGrows'
  BY <1>1 DEF IInv, TableGrows
<1>5. CursorIsLast' /\ NewestFirst' /\ NothingSkipped'
  BY <1>1 DEF IInv, CursorIsLast, NewestFirst, NothingSkipped, Seen, Matches
<1>6. CursorLeadsOn'
  BY <1>1 DEF IInv, CursorLeadsOn, Matches
<1> QED
  BY <1>3, <1>4, <1>5, <1>6 DEF IInv

(* A clock that is set changes no row. *)
LEMMA ClockStep ==
  ASSUME IInv, SetClock \/ UNCHANGED vars
  PROVE  IInv'
<1>1. UNCHANGED <<table, filter, cursor, status, pages, begun>> /\ clock' \in Times
  BY DEF SetClock, vars, walk, IInv, TypeOK
<1> QED
  BY <1>1 DEF IInv, TypeOK, TableGrows, CursorIsLast, NewestFirst, NothingSkipped, CursorLeadsOn,
              Seen, Matches

(* What a page adds to what has been seen. *)
LEMMA SeenGrows ==
  ASSUME pages \in Seq(SUBSET Events), NEW items \in SUBSET Events, pages' = Append(pages, items)
  PROVE  /\ pages' \in Seq(SUBSET Events) /\ Len(pages') = Len(pages) + 1 /\ Len(pages) \in Nat
         /\ \A i \in 1..Len(pages) : pages'[i] = pages[i]
         /\ pages'[Len(pages) + 1] = items
         /\ Seen' = Seen \cup items
<1>1. /\ pages' \in Seq(SUBSET Events) /\ Len(pages') = Len(pages) + 1 /\ Len(pages) \in Nat
      /\ \A i \in 1..Len(pages) : pages'[i] = pages[i]
      /\ pages'[Len(pages) + 1] = items
  BY AppendProperties
<1>2. 1..Len(pages') = 1..Len(pages) \cup {Len(pages) + 1}
  BY <1>1
<1>3. Seen' = Seen \cup items
  BY <1>1, <1>2 DEF Seen
<1> QED
  BY <1>1, <1>3

(* Every page keeps the types. *)
LEMMA PageType ==
  ASSUME TypeOK, NEW S \in SUBSET table, NEW items \in SUBSET S,
         pages' = Append(pages, items), Splits(S, items), filter' \in Filters,
         UNCHANGED <<table, clock>>, begun' \subseteq Events
  PROVE  TypeOK'
<1>1. items \in SUBSET Events
  BY DEF TypeOK
<1>2. pages' \in Seq(SUBSET Events)
  BY <1>1, SeenGrows DEF TypeOK
<1>3. cursor' \in [id : Nat, time : Int] /\ status' \in {"walking", "ended"}
  BY <1>1, AllPlaced DEF Splits, TypeOK
<1> QED
  BY <1>2, <1>3 DEF TypeOK

(* The first page of a walk. *)
LEMMA BeginStep ==
  ASSUME IInv, NEW f \in Filters, NEW limit \in Nat, Begin(f, limit)
  PROVE  IInv'
<1> DEFINE S == {e \in table : Matches(e, f, TRUE)}
<1>1. /\ status = "idle" /\ pages = <<>> /\ filter' = f /\ begun' = table
      /\ UNCHANGED <<table, clock>> /\ table \subseteq Events /\ pages \in Seq(SUBSET Events)
  BY DEF IInv, TypeOK, TableGrows, Begin
<1>2. IsFiniteSet(S)
  BY FS_Subset DEF IInv, TypeOK
<1>3. PICK items \in SUBSET S : pages' = Append(pages, items) /\ Splits(S, items)
  BY <1>2, PageSplits DEF Begin
<1>4. TypeOK'
  BY <1>1, <1>3, PageType DEF IInv, TypeOK
<1>5. Len(pages') = 1 /\ pages'[1] = items /\ Seen' = items
  <2>1. items \in SUBSET Events
    BY <1>1
  <2>2. Len(pages) = 0
    BY <1>1
  <2>3. Seen = {}
    BY <2>2 DEF Seen
  <2> QED
    BY <1>1, <1>3, <2>1, <2>2, <2>3, SeenGrows
<1>6. \A e \in S : Matches(e, f, TRUE) /\ e.time < f.before
  BY DEF Matches
<1>7. TableGrows'
  <2>1. \A i \in 1..Len(pages') : pages'[i] \subseteq table'
    <3>1. \A i \in 1..Len(pages') : i = 1
      BY <1>5
    <3>2. items \subseteq table
      OBVIOUS
    <3> QED
      BY <1>1, <1>5, <3>1, <3>2
  <2>2. status' # "idle"
    BY <1>3 DEF Splits
  <2> QED
    BY <1>1, <2>1, <2>2 DEF IInv, TableGrows
<1>8. CursorIsLast'
  <2> SUFFICES ASSUME status' = "walking"
               PROVE  /\ cursor'.time < f.before
                      /\ \A e \in items : e.id # cursor'.id \/ e.time # cursor'.time => Above(e, cursor')
    BY <1>1, <1>5 DEF CursorIsLast
  <2>1. PICK last \in items :
          cursor' = CursorOf(last) /\ \A e \in items \ {last} : Above(e, last)
    BY <1>3 DEF Splits
  <2>2. cursor'.id = last.id /\ cursor'.time = last.time
    BY <2>1 DEF CursorOf
  <2> QED
    BY <1>6, <2>1, <2>2, CursorStands
<1>9. NewestFirst'
  <2>1. \A i, j \in 1..Len(pages') : ~ (i < j)
    BY <1>5
  <2>2. \A e \in Seen' : Matches(e, filter', TRUE)
    BY <1>1, <1>5, <1>6
  <2> QED
    BY <2>1, <2>2 DEF NewestFirst
<1>10. NothingSkipped'
  BY <1>1, <1>3, <1>5, CursorStands DEF NothingSkipped, Splits
<1>11. CursorLeadsOn'
  <2>1. 2..Len(pages') = {}
    BY <1>5
  <2> QED
    BY <1>1, <1>3, <1>6, <2>1, CursorStands DEF CursorLeadsOn, Splits
<1> QED
  BY <1>4, <1>7, <1>8, <1>9, <1>10, <1>11 DEF IInv

(* The page after a cursor. *)
LEMMA ContinueStep ==
  ASSUME IInv, NEW limit \in Nat, Continue(limit)
  PROVE  IInv'
<1> DEFINE S == {e \in table : Matches(e, filter, FALSE) /\ BelowCursor(e)}
<1>1. /\ status = "walking"
      /\ UNCHANGED <<table, clock, filter, begun>>
      /\ table \subseteq Events /\ pages \in Seq(SUBSET Events)
  BY DEF IInv, TypeOK, Continue
<1>2. IsFiniteSet(S)
  BY FS_Subset DEF IInv, TypeOK
<1>3. PICK items \in SUBSET S : pages' = Append(pages, items) /\ Splits(S, items)
  BY <1>2, PageSplits DEF Continue
<1>4. TypeOK'
  BY <1>1, <1>3, PageType DEF IInv, TypeOK
<1>5. /\ Len(pages') = Len(pages) + 1 /\ Len(pages) \in Nat
      /\ \A i \in 1..Len(pages) : pages'[i] = pages[i]
      /\ pages'[Len(pages) + 1] = items
      /\ Seen' = Seen \cup items
  BY <1>1, <1>3, SeenGrows
<1>6. Placed(cursor) /\ \A e \in table : Placed(e)
  BY <1>1, AllPlaced DEF IInv
<1>7. \A e \in S : Above(cursor, e) /\ Matches(e, filter, TRUE) /\ e.time < filter.before
  <2>1. cursor.time < filter.before
    BY <1>1 DEF IInv, CursorIsLast
  <2>2. filter.before \in Int
    BY PagingAssumption DEF IInv, TypeOK, Filters, NoBefore
  <2> QED
    BY <1>6, <2>1, <2>2 DEF BelowCursor, Above, Matches, Placed
<1>8. \A e \in Seen, f \in S : e \in table /\ Above(e, f)
  <2> SUFFICES ASSUME NEW e \in Seen, NEW f \in S
               PROVE  e \in table /\ Above(e, f)
    OBVIOUS
  <2>1. e \in table
    BY DEF IInv, TableGrows, Seen
  <2>2. Above(e, cursor) \/ (e.id = cursor.id /\ e.time = cursor.time)
    BY <1>1 DEF IInv, CursorIsLast
  <2>3. CASE Above(e, cursor)
    BY <1>6, <1>7, <2>1, <2>3, AboveIsTransitive
  <2>4. CASE e.id = cursor.id /\ e.time = cursor.time
    <3>1. Above(cursor, f)
      BY <1>7
    <3> QED
      BY <2>1, <2>4, <3>1 DEF Above
  <2> QED
    BY <2>1, <2>2, <2>3, <2>4
<1>9. TableGrows'
  <2>1. \A i \in 1..Len(pages') : pages'[i] \subseteq table'
    <3>1. \A i \in 1..Len(pages') : i \in 1..Len(pages) \/ i = Len(pages) + 1
      BY <1>5
    <3> QED
      BY <1>1, <1>5, <3>1 DEF IInv, TableGrows
  <2>2. status' # "idle"
    BY <1>3 DEF Splits
  <2> QED
    BY <1>1, <2>1, <2>2 DEF IInv, TableGrows
<1>10. CursorIsLast'
  <2> SUFFICES ASSUME status' = "walking"
               PROVE  /\ cursor'.time < filter.before
                      /\ \A e \in Seen \cup items :
                           e.id # cursor'.id \/ e.time # cursor'.time => Above(e, cursor')
    BY <1>1, <1>5 DEF CursorIsLast
  <2>1. PICK last \in items :
          cursor' = CursorOf(last) /\ \A e \in items \ {last} : Above(e, last)
    BY <1>3 DEF Splits
  <2>2. cursor'.id = last.id /\ cursor'.time = last.time
    BY <2>1 DEF CursorOf
  <2>3. last \in S
    OBVIOUS
  <2> QED
    BY <1>7, <1>8, <2>1, <2>2, <2>3, CursorStands
<1>11. NewestFirst'
  <2>1. ASSUME NEW i \in 1..Len(pages'), NEW j \in 1..Len(pages'), i < j,
               NEW e \in pages'[i], NEW f \in pages'[j]
        PROVE  Above(e, f)
    <3>1. i \in 1..Len(pages) /\ pages'[i] = pages[i] /\ e \in Seen
      BY <1>5, <2>1 DEF Seen
    <3>2. CASE j = Len(pages) + 1
      BY <1>3, <1>5, <1>8, <2>1, <3>1, <3>2
    <3>3. CASE j \in 1..Len(pages)
      BY <1>5, <2>1, <3>1, <3>3 DEF IInv, NewestFirst
    <3> QED
      BY <1>5, <3>2, <3>3
  <2>2. \A e \in Seen' : Matches(e, filter', TRUE)
    BY <1>1, <1>3, <1>5, <1>7 DEF IInv, NewestFirst
  <2> QED
    BY <2>1, <2>2 DEF NewestFirst
<1>12. NothingSkipped'
  <2> SUFFICES ASSUME NEW e \in begun, Matches(e, filter, TRUE)
               PROVE  e \in Seen' \/ (status' = "walking" /\ Above(cursor', e))
    BY <1>1 DEF NothingSkipped
  <2>1. e \in Seen \/ e \in S
    BY <1>1 DEF IInv, NothingSkipped, TableGrows, Matches, BelowCursor
  <2> QED
    BY <1>3, <1>5, <2>1, CursorStands DEF Splits
<1>13. CursorLeadsOn'
  <2>1. S # {}
    BY <1>1 DEF IInv, CursorLeadsOn, Matches, BelowCursor
  <2>2. items # {}
    BY <1>3, <2>1 DEF Splits
  <2>3. \A i \in 2..Len(pages') : pages'[i] # {}
    <3> SUFFICES ASSUME NEW i \in 2..Len(pages')
                 PROVE  pages'[i] # {}
      OBVIOUS
    <3>1. i = Len(pages) + 1 \/ i \in 2..Len(pages)
      BY <1>5
    <3>2. CASE i \in 2..Len(pages)
      BY <1>5, <3>2 DEF IInv, CursorLeadsOn
    <3> QED
      BY <1>5, <2>2, <3>1, <3>2
  <2> QED
    BY <1>1, <1>3, <1>7, <2>3, CursorStands DEF CursorLeadsOn, Splits
<1> QED
  BY <1>4, <1>9, <1>10, <1>11, <1>12, <1>13 DEF IInv

(* IInv is inductive. *)
LEMMA NextStep == IInv /\ [Next]_vars => IInv'
<1>1. 1..MaximumPageSize \subseteq Nat
  BY PagingAssumption
<1> QED
  BY <1>1, AppendStep, ClockStep, BeginStep, ContinueStep DEF Next

(* What the walk has seen, and what is still ahead of its cursor, for ever.  *)
THEOREM Inductive == Spec => []IInv
BY Initially, NextStep, PTL DEF Spec

-----------------------------------------------------------------------------
(* The table, the cursor and the pages keep their types. *)
THEOREM TypeCorrect == Spec => []TypeOK
BY Inductive, PTL DEF IInv

(* read-only-api.md "newest-first": no event comes twice or out of order,    *)
(* whatever is appended between the pages and whatever the clock does.       *)
THEOREM NewestFirstCorrect == Spec => []NewestFirst
BY Inductive, PTL DEF IInv

(* read-only-api.md: events of equal time stamps are not skipped, nor is any *)
(* other that was there when the walk began.                                 *)
THEOREM NothingSkippedCorrect == Spec => []NothingSkipped
BY Inductive, PTL DEF IInv

(* A cursor is given only when it leads to something. *)
THEOREM CursorLeadsOnCorrect == Spec => []CursorLeadsOn
BY Inductive, PTL DEF IInv

=============================================================================
