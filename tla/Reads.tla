-------------------------------- MODULE Reads --------------------------------
(***************************************************************************)
(* The paged reads and the screens that walk them, while rows are being    *)
(* written.                                                                *)
(*                                                                         *)
(* A page is the rows after a cursor, which is the (created_at, id) of the *)
(* last row of the page before it.  created_at is the start of the         *)
(* transaction that writes the row, in milliseconds; the row is visible    *)
(* when that transaction commits, which may be long after, and ids are     *)
(* random.  Accounts and reconciliation page by name instead, which stands *)
(* in no relation to time: a new account may come before the cursor.       *)
(*                                                                         *)
(* Each statement of a read sees what is committed when it runs.  One list *)
(* is modelled at a time: the history, the export of the history, the      *)
(* audit log (newest first), the queue of pending transfers (its rows      *)
(* leave when they are decided), the accounts by name, and the statement   *)
(* of an account (a second statement sums the rows up to the cursor).      *)
(***************************************************************************)
EXTENDS Integers, Sequences, FiniteSets, Functions

CONSTANTS
  Ids,           \* ids of rows; their order is the order of the tiebreaker
  Amount,        \* Amount[id]: the signed amount of a row, debit positive
  Limit,         \* rows of a page: PAGE_SIZE
  ExportPages,   \* EXPORT_MAX_PAGES
  MaxClock       \* bound: milliseconds

ASSUME ReadsAssumption ==
  /\ Ids \subseteq Nat /\ Amount \in [Ids -> Int]
  /\ Limit \in Nat \ {0} /\ ExportPages \in Nat \ {0} /\ MaxClock \in Nat

VARIABLES
  list,      \* which list is read
  clock,
  open,      \* rows of transactions that have not committed
  rows,      \* committed rows
  decided,   \* pending transfers that are not pending any more
  page,      \* PageState, or the export's loop: cursor and history
  cache,     \* answers by cursor
  request,   \* the read in flight
  since,     \* history: what was committed when page one was first read
  trail      \* history: the answers that "next" was pressed on, oldest first

vars == <<list, clock, open, rows, decided, page, cache, request, since, trail>>

Lists == {"history", "export", "audit", "queue", "statement", "accounts"}
Rows == [id : Ids, at : 0..MaxClock]
FirstCursor == [id |-> 0, at |-> -1]
Cursors == Rows \cup {FirstCursor}
FirstPage == [cursor |-> FirstCursor, history |-> <<>>]

\* The order of each list; the id stands for the name of an account, too.
OldestFirst(r, s) == r.at < s.at \/ (r.at = s.at /\ r.id < s.id)
NewestFirst(r, s) == OldestFirst(s, r)
ByName(r, s) == r.id < s.id

Before(r, s) ==
  CASE list = "audit"    -> NewestFirst(r, s)
    [] list = "accounts" -> ByName(r, s)
    [] OTHER             -> OldestFirst(r, s)

\* The rows a query's conditions keep: the queue shows what is still pending.
Matching == rows \ decided

\* Mutant: a cursor keeps the millisecond of a row but not its id.
AfterTime(c, S) ==
  IF c = FirstCursor THEN S
  ELSE {r \in S : Before(c, r) \/ r.at = c.at}

\* Rows after the cursor.
After(c, S) == IF c = FirstCursor THEN S ELSE {r \in S : Before(c, r)}

\* The first n rows.
First(n, S) == {r \in S : Cardinality({q \in S : Before(q, r)}) < n}
LastRow(S) == CHOOSE r \in S : \A q \in S : q = r \/ Before(q, r)

Sum(S) == SumFunction([r \in S |-> Amount[r.id]])

Init ==
  /\ list \in Lists /\ clock = 0
  /\ open = {} /\ rows = {} /\ decided = {}
  /\ page = FirstPage /\ cache = <<>> /\ request = {}
  /\ since = {} /\ trail = <<>>
-----------------------------------------------------------------------------
(* The writers *)

Tick ==
  /\ list # "accounts"
  /\ clock < MaxClock /\ clock' = clock + 1
  /\ UNCHANGED <<list, open, rows, decided, page, cache, request, since, trail>>

\* A transaction starts: its rows will carry this millisecond.
Begin(id) ==
  /\ \A r \in open \cup rows : r.id # id
  /\ open' = open \cup {[id |-> id, at |-> clock]}
  /\ UNCHANGED <<list, clock, rows, decided, page, cache, request, since, trail>>

Commit(r) ==
  /\ open' = open \ {r}
  /\ rows' = rows \cup {r}
  /\ UNCHANGED <<list, clock, decided, page, cache, request, since, trail>>

\* A pending transfer is approved or rejected and leaves the queue.
Decide(r) ==
  /\ list = "queue" /\ r \notin decided
  /\ decided' = decided \cup {r}
  /\ UNCHANGED <<list, clock, open, rows, page, cache, request, since, trail>>
-----------------------------------------------------------------------------
(* A read *)

\* Mutant: the page keeps the row that was fetched to know that more follow.
SplitPageWhole(fetched) == [items |-> fetched, more |-> Cardinality(fetched) > Limit]

\* splitPage: one row more than asked for says whether another page exists.
SplitPage(fetched) ==
  [items |-> First(Limit, fetched), more |-> Cardinality(fetched) > Limit]

\* Mutant: the queue is paged by how many rows were shown before, with OFFSET.
FetchByOffset ==
  /\ request = {} /\ (list = "export" => page.cursor \notin DOMAIN cache)
  /\ LET skip == Limit * Len(page.history)
         fetched == First(skip + Limit + 1, Matching) \ First(skip, Matching)
     IN request' = {[cursor |-> page.cursor, split |-> SplitPage(fetched), seen |-> Matching]}
  /\ UNCHANGED <<list, clock, open, rows, decided, page, cache, since, trail>>

\* The page's query: when the screen mounts or shows a cursor it has no answer for,
\* and again when the window regains focus or a mutation invalidates the list.
Fetch ==
  /\ request = {} /\ (list = "export" => page.cursor \notin DOMAIN cache)
  /\ LET fetched == First(Limit + 1, After(page.cursor, Matching))
     IN request' = {[cursor |-> page.cursor, split |-> SplitPage(fetched), seen |-> Matching]}
  /\ UNCHANGED <<list, clock, open, rows, decided, page, cache, since, trail>>

\* Mutant: the row the cursor points at is left out of the sum.
OpeningExclusive(c) ==
  IF list = "statement" /\ c # FirstCursor THEN Sum(rows \ (After(c, rows) \cup {c})) ELSE 0

\* What the rows up to the cursor sum to.
Opening(c) ==
  IF list = "statement" /\ c # FirstCursor THEN Sum(rows \ After(c, rows)) ELSE 0

\* The rest of the read: the statement's second query, and the answer.
Receive(q) ==
  /\ request' = {}
  /\ LET answer == [items |-> q.split.items, more |-> q.split.more,
                    opening |-> Opening(q.cursor), asOf |-> Matching, quiet |-> Matching = q.seen]
     IN cache' = [c \in DOMAIN cache \cup {q.cursor} |->
                    IF c = q.cursor THEN answer ELSE cache[c]]
  /\ since' = IF cache = <<>> THEN q.seen ELSE since
  /\ UNCHANGED <<list, clock, open, rows, decided, page, trail>>
-----------------------------------------------------------------------------
(* The screen; its controls are disabled while a read is in flight *)

Shown == cache[page.cursor]
Ready == request = {} /\ page.cursor \in DOMAIN cache

Advance ==
  /\ Ready /\ Shown.more
  /\ page' = [cursor |-> LastRow(Shown.items), history |-> Append(page.history, page.cursor)]
  /\ trail' = Append(trail, Shown)
  /\ UNCHANGED <<list, clock, open, rows, decided, cache, request, since>>

\* goToNext.
GoNext == list # "export" /\ Advance

\* The next turn of the export's loop, which stops at its cap.
ExportNext == list = "export" /\ Len(page.history) + 1 < ExportPages /\ Advance

\* goToPrevious.
GoBack ==
  /\ Ready /\ list # "export" /\ page.history # <<>>
  /\ LET n == Len(page.history)
     IN /\ page' = [cursor |-> page.history[n], history |-> SubSeq(page.history, 1, n - 1)]
        /\ trail' = SubSeq(trail, 1, n - 1)
  /\ UNCHANGED <<list, clock, open, rows, decided, cache, request, since>>

\* Other filters, or a cursor the server rejects: back to page one.
Reset ==
  /\ list # "export" /\ page.history # <<>>
  /\ page' = FirstPage /\ cache' = <<>> /\ request' = {}
  /\ since' = {} /\ trail' = <<>>
  /\ UNCHANGED <<list, clock, open, rows, decided>>

Next ==
  \/ Tick
  \/ \E id \in Ids : Begin(id)
  \/ \E r \in open : Commit(r)
  \/ \E r \in rows : Decide(r)
  \/ Fetch
  \/ \E q \in request : Receive(q)
  \/ GoNext \/ ExportNext \/ GoBack \/ Reset

Spec == Init /\ [][Next]_vars
-----------------------------------------------------------------------------
(* Properties *)

\* The type of every variable; a page holds at most Limit rows and says that more
\* follow only when it is full.
TypeOK ==
  /\ list \in Lists /\ clock \in 0..MaxClock
  /\ open \subseteq Rows /\ rows \subseteq Rows /\ decided \subseteq rows
  /\ page.cursor \in Cursors /\ page.history \in Seq(Cursors)
  /\ \A c \in DOMAIN cache :
       /\ c \in Cursors
       /\ cache[c].items \subseteq Rows /\ Cardinality(cache[c].items) <= Limit
       /\ cache[c].more => Cardinality(cache[c].items) = Limit
  /\ since \subseteq Rows /\ Len(trail) = Len(page.history)

Passed == UNION {trail[k].items : k \in 1..Len(trail)}

\* Whoever comes to the last page has been shown every row that was committed when
\* the walk began and is still in the list, whatever was written, decided, refetched
\* or revisited meanwhile.  A row that commits later may be missed: its place in the
\* order may be behind a cursor that was handed out.
WalkIsComplete ==
  Ready /\ ~Shown.more => since \cap Matching \subseteq Passed \cup Shown.items

\* No row appears on two pages of one walk: milliseconds are stored as milliseconds,
\* ties are broken by id, and the extra row is not shown.
NothingTwice ==
  Ready => Shown.items \cap Passed = {}

Closing(answer) == answer.opening + Sum(answer.items)

\* A statement carries its balance from page to page: a page starts from the end of
\* the page before it, plus the rows that were committed behind its cursor after
\* that page was read - unless the page shown is an older cached answer.
BalanceCarriesOver ==
  list = "statement" /\ Ready /\ trail # <<>> /\ trail[Len(trail)].asOf \subseteq Shown.asOf =>
    LET previous == trail[Len(trail)]
        from == page.history[Len(page.history)]
        upTo(c, S) == IF c = FirstCursor THEN {} ELSE S \ After(c, S)
        late == upTo(page.cursor, Shown.asOf)
                  \ (previous.items \cup upTo(from, previous.asOf))
    IN Shown.opening = Closing(previous) + Sum(late)

\* The last running balance of the last page is the balance of the account, if
\* nothing was committed between the two queries of that page.
StatementEndsAtBalance ==
  list = "statement" /\ Ready /\ ~Shown.more /\ Shown.quiet =>
    Closing(Shown) = Sum(Shown.asOf)
=============================================================================
