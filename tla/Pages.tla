-------------------------------- MODULE Pages --------------------------------
(***************************************************************************)
(* list_pages(): the stream of the pages of a collection.  Each page names *)
(* the cursor of the next one, and the cursors that were asked for are     *)
(* remembered.  The server may say anything.                               *)
(***************************************************************************)
CONSTANTS
  Cursors,    \* cursors a server may name
  NoCursor    \* absent or empty

ASSUME NoCursorAssumption == NoCursor \notin Cursors

VARIABLES
  g_pc,       \* "fetch", "page" (a page was yielded), "last" (the last one) or "done"
  after,      \* the cursor of the next request
  seen,
  g_outcome

pageVars == <<g_pc, after, seen, g_outcome>>

\* What next_cursor() reads of a page.
PageValues == [has_more : BOOLEAN, last_id : Cursors \cup {NoCursor},
               last_item : Cursors \cup {NoCursor}]

PagesType ==
  /\ g_pc \in {"fetch", "page", "last", "done"}
  /\ after \in Cursors \cup {NoCursor}
  /\ seen \subseteq Cursors
  /\ g_outcome \in {"none", "complete", "missing_cursor", "repeated_cursor", "error"}

\* The caller may start in the middle; seed_seen() remembers where.
PagesInit ==
  /\ g_pc = "fetch"
  /\ after \in Cursors \cup {NoCursor}
  /\ seen = {after} \ {NoCursor}
  /\ g_outcome = "none"

FinishPages(outcome) ==
  /\ g_pc' = "done"
  /\ g_outcome' = outcome
  /\ UNCHANGED <<after, seen>>

\* last_id, or the id of the last element in its place.
CursorOf(page) == IF page.last_id # NoCursor THEN page.last_id ELSE page.last_item

LastPage(page) ==
  /\ ~page.has_more
  /\ g_pc' = "last"
  /\ UNCHANGED <<after, seen, g_outcome>>

\* Mutant: a cursor that was asked for is followed again.
AdvanceAnyway(page) ==
  /\ page.has_more /\ CursorOf(page) # NoCursor
  /\ after' = CursorOf(page)
  /\ seen' = seen \cup {CursorOf(page)}
  /\ g_pc' = "page"
  /\ UNCHANGED g_outcome

Advance(page) ==
  /\ page.has_more /\ CursorOf(page) \notin seen \cup {NoCursor}
  /\ after' = CursorOf(page)
  /\ seen' = seen \cup {CursorOf(page)}
  /\ g_pc' = "page"
  /\ UNCHANGED g_outcome

\* A page whose cursor is missing or known fails before it is yielded.
FailClosed(page) ==
  /\ page.has_more
  /\ \/ CursorOf(page) = NoCursor /\ FinishPages("missing_cursor")
     \/ CursorOf(page) \in seen /\ FinishPages("repeated_cursor")

FetchPage(page) ==
  /\ g_pc = "fetch"
  /\ LastPage(page) \/ Advance(page) \/ FailClosed(page)

FetchPageFails == g_pc = "fetch" /\ FinishPages("error")

\* The application asks for the next item.
PullPage == g_pc = "page" /\ g_pc' = "fetch" /\ UNCHANGED <<after, seen, g_outcome>>

EndOfPages == g_pc = "last" /\ FinishPages("complete")

PagesNext ==
  \/ \E page \in PageValues : FetchPage(page)
  \/ FetchPageFails \/ PullPage \/ EndOfPages
=============================================================================
