----------------------------- MODULE ReadsProofs -----------------------------
(***************************************************************************)
(* The paged reads, for any rows, page size, list and interleaving.        *)
(*                                                                         *)
(* First come facts about the first rows of a set under the order of a     *)
(* list; then the invariant of a walk: what lies at or before a cursor has *)
(* been shown if it was there when the walk began (Covered), and what has  *)
(* been shown lies at or before the cursor (Behind).                       *)
(***************************************************************************)
EXTENDS Reads, SumLemmas, TLAPS

-----------------------------------------------------------------------------
(* The first rows of a set.                                                *)

\* Rows that a list can order.
Chain(S) ==
  /\ IsFiniteSet(S) /\ S \subseteq Rows
  /\ \A r, s \in S : r.id = s.id => r = s

\* The order of every list is strict and total on rows with distinct ids.
LEMMA Order ==
  ASSUME list \in Lists, NEW S, S \subseteq Rows, \A r, s \in S : r.id = s.id => r = s
  PROVE  /\ \A r \in S : ~Before(r, r)
         /\ \A r, s \in S : r = s \/ Before(r, s) \/ Before(s, r)
         /\ \A r, s, t \in S : Before(r, s) /\ Before(s, t) => Before(r, t)
<1>1. \A r \in S : r.id \in Nat /\ r.at \in Nat
  <2> SUFFICES ASSUME NEW r \in S PROVE r.id \in Nat /\ r.at \in Nat
    OBVIOUS
  <2>1. r \in [id : Ids, at : 0..MaxClock]
    BY DEF Rows
  <2>2. r.id \in Ids /\ r.at \in 0..MaxClock
    BY <2>1
  <2>3. r.id \in Nat
    BY <2>2, ReadsAssumption
  <2>4. r.at \in Nat
    BY <2>2, ReadsAssumption
  <2> QED BY <2>3, <2>4
<1>2. \A r, s \in S : Before(r, s) <=>
        IF list = "audit" THEN s.at < r.at \/ (s.at = r.at /\ s.id < r.id)
        ELSE IF list = "accounts" THEN r.id < s.id
        ELSE r.at < s.at \/ (r.at = s.at /\ r.id < s.id)
  BY DEF Before, NewestFirst, OldestFirst, ByName
<1>3. \A r \in S : ~Before(r, r)
  BY <1>1, <1>2
<1>4. \A r, s \in S : r = s \/ Before(r, s) \/ Before(s, r)
  BY <1>1, <1>2
<1>5. \A r, s, t \in S : Before(r, s) /\ Before(s, t) => Before(r, t)
  BY <1>1, <1>2
<1> QED BY <1>3, <1>4, <1>5

Preds(r, S) == {q \in S : Before(q, r)}
Succs(r, S) == {q \in S : Before(r, q)}

LEMMA Counts ==
  ASSUME NEW S, IsFiniteSet(S), NEW T, T \subseteq S
  PROVE  /\ IsFiniteSet(T) /\ Cardinality(T) \in Nat /\ Cardinality(S) \in Nat
         /\ Cardinality(T) <= Cardinality(S)
         /\ T # S => Cardinality(T) < Cardinality(S)
<1>1. /\ IsFiniteSet(T) /\ Cardinality(T) <= Cardinality(S)
      /\ Cardinality(S) = Cardinality(T) => S = T
  BY FS_Subset
<1>2. Cardinality(T) \in Nat /\ Cardinality(S) \in Nat
  BY <1>1, FS_CardinalityType
<1> QED BY <1>1, <1>2

\* Some member of a part of a chain has none of it before it, and one none after it.
LEMMA Ends ==
  ASSUME list \in Lists, NEW S, Chain(S), NEW T, T \subseteq S, T # {}
  PROVE  /\ \E r \in T : \A q \in T : ~Before(q, r)
         /\ \E r \in T : \A q \in T : ~Before(r, q)
<1>1. /\ \A r \in S : ~Before(r, r)
      /\ \A r, s, t \in S : Before(r, s) /\ Before(s, t) => Before(r, t)
  BY Order DEF Chain
<1>2. IsFiniteSet(T)
  BY Counts DEF Chain
<1>3. \E r \in T : \A q \in T : ~Before(q, r)
  <2> DEFINE ranks == {Cardinality(Preds(r, T)) : r \in T}
  <2>1. \A r \in T : Cardinality(Preds(r, T)) \in Nat
    BY <1>2, Counts DEF Preds
  <2>2. ranks \in SUBSET Nat /\ ranks # {}
    BY <2>1
  <2>3. PICK x \in ranks : \A y \in ranks : x <= y
    <3> HIDE DEF ranks
    <3> QED BY <2>2, LeastNumber
  <2>4. PICK r \in T : x = Cardinality(Preds(r, T))
    BY <2>3
  <2>5. ASSUME NEW q \in T, Before(q, r) PROVE FALSE
    <3>1. Preds(q, T) \subseteq Preds(r, T) /\ q \in Preds(r, T) /\ q \notin Preds(q, T)
      BY <1>1, <2>5 DEF Preds
    <3>2. IsFiniteSet(Preds(r, T))
      BY <1>2, Counts DEF Preds
    <3>3. Cardinality(Preds(q, T)) < Cardinality(Preds(r, T))
      BY <3>1, <3>2, Counts
    <3>4. x <= Cardinality(Preds(q, T))
      BY <2>3
    <3> QED BY <2>1, <2>4, <3>3, <3>4
  <2> QED BY <2>5
<1>4. \E r \in T : \A q \in T : ~Before(r, q)
  <2> DEFINE ranks == {Cardinality(Succs(r, T)) : r \in T}
  <2>1. \A r \in T : Cardinality(Succs(r, T)) \in Nat
    BY <1>2, Counts DEF Succs
  <2>2. ranks \in SUBSET Nat /\ ranks # {}
    BY <2>1
  <2>3. PICK x \in ranks : \A y \in ranks : x <= y
    <3> HIDE DEF ranks
    <3> QED BY <2>2, LeastNumber
  <2>4. PICK r \in T : x = Cardinality(Succs(r, T))
    BY <2>3
  <2>5. ASSUME NEW q \in T, Before(r, q) PROVE FALSE
    <3>1. Succs(q, T) \subseteq Succs(r, T) /\ q \in Succs(r, T) /\ q \notin Succs(q, T)
      BY <1>1, <2>5 DEF Succs
    <3>2. IsFiniteSet(Succs(r, T))
      BY <1>2, Counts DEF Succs
    <3>3. Cardinality(Succs(q, T)) < Cardinality(Succs(r, T))
      BY <3>1, <3>2, Counts
    <3>4. x <= Cardinality(Succs(q, T))
      BY <2>3
    <3> QED BY <2>1, <2>4, <3>3, <3>4
  <2> QED BY <2>5
<1> QED BY <1>3, <1>4

\* The last row is after all others.
LEMMA LastIsLast ==
  ASSUME list \in Lists, NEW S, Chain(S), S # {}
  PROVE  LastRow(S) \in S /\ \A q \in S : q = LastRow(S) \/ Before(q, LastRow(S))
<1>1. PICK r \in S : \A q \in S : ~Before(r, q)
  BY Ends
<1>2. \A q \in S : q = r \/ Before(q, r)
  BY <1>1, Order DEF Chain
<1> QED BY <1>2, Zenon DEF LastRow

LEMMA FirstIs ==
  ASSUME list \in Lists, NEW S, Chain(S), NEW n \in Nat
  PROVE  /\ First(n, S) \subseteq S /\ Chain(First(n, S))
         /\ \A r \in S : r \in First(n, S) <=> Cardinality(Preds(r, S)) < n
         /\ \A r \in S : Cardinality(Preds(r, S)) \in Nat
<1>1. First(n, S) \subseteq S /\ \A r \in S : r \in First(n, S) <=> Cardinality(Preds(r, S)) < n
  BY DEF First, Preds
<1>2. Chain(First(n, S))
  BY <1>1, Counts DEF Chain
<1>3. \A r \in S : Cardinality(Preds(r, S)) \in Nat
  BY Counts DEF Preds, Chain
<1> QED BY <1>1, <1>2, <1>3

\* The first rows come before the others.
LEMMA FirstIsDown ==
  ASSUME list \in Lists, NEW S, Chain(S), NEW n \in Nat,
         NEW r \in First(n, S), NEW q \in S, Before(q, r)
  PROVE  q \in First(n, S)
<1>1. r \in S
  BY FirstIs
<1>2. Preds(q, S) \subseteq Preds(r, S)
  BY <1>1, Order DEF Chain, Preds
<1>3. IsFiniteSet(Preds(r, S))
  BY Counts DEF Chain, Preds
<1>4. Cardinality(Preds(q, S)) <= Cardinality(Preds(r, S))
  BY <1>2, <1>3, Counts
<1>5. Cardinality(Preds(r, S)) < n
  BY <1>1, FirstIs
<1> QED BY <1>1, <1>4, <1>5, FirstIs

\* There are at most n of them.
LEMMA FirstIsBounded ==
  ASSUME list \in Lists, NEW S, Chain(S), NEW n \in Nat
  PROVE  Cardinality(First(n, S)) \in Nat /\ Cardinality(First(n, S)) <= n
<1> DEFINE F == First(n, S)
<1>1. F \subseteq S /\ Chain(F) /\ IsFiniteSet(F)
  BY FirstIs DEF Chain
<1>2. Cardinality(F) \in Nat
  BY <1>1, FS_CardinalityType
<1>3. CASE F = {}
  <2>1. Cardinality(F) = 0
    BY <1>3, FS_EmptySet
  <2> QED BY <2>1
<1>4. CASE F # {}
  <2> DEFINE last == LastRow(F)
  <2>1. last \in F /\ \A q \in F : q = last \/ Before(q, last)
    BY <1>1, <1>4, LastIsLast
  <2>2. F \ {last} \subseteq Preds(last, S)
    BY <1>1, <2>1 DEF Preds
  <2>3. Cardinality(F \ {last}) = Cardinality(F) - 1
    BY <1>1, <2>1, FS_RemoveElement
  <2>4. IsFiniteSet(Preds(last, S))
    BY Counts DEF Chain, Preds
  <2>5. Cardinality(F \ {last}) <= Cardinality(Preds(last, S))
    BY <2>2, <2>4, Counts
  <2>6. Cardinality(Preds(last, S)) < n /\ Cardinality(Preds(last, S)) \in Nat
    BY <1>1, <2>1, FirstIs
  <2> HIDE DEF F, last
  <2>7. Cardinality(F) <= n
    BY <1>2, <2>3, <2>5, <2>6
  <2> QED BY <1>2, <2>7 DEF F
<1> QED BY <1>2, <1>3, <1>4

\* If there are fewer, they are all.
LEMMA FirstIsAll ==
  ASSUME list \in Lists, NEW S, Chain(S), NEW n \in Nat, Cardinality(First(n, S)) < n
  PROVE  First(n, S) = S
<1> DEFINE F == First(n, S)
<1>1. F \subseteq S /\ IsFiniteSet(F)
  BY FirstIs DEF Chain
<1>2. ASSUME S \ F # {} PROVE FALSE
  <2>1. PICK r \in S \ F : \A q \in S \ F : ~Before(q, r)
    BY <1>2, Ends
  <2>2. Preds(r, S) \subseteq F
    BY <2>1 DEF Preds
  <2>3. Cardinality(Preds(r, S)) <= Cardinality(F) /\ Cardinality(F) \in Nat
    BY <1>1, <2>2, Counts
  <2>4. Cardinality(Preds(r, S)) < n
    BY <2>1, <2>3, FirstIs
  <2> QED BY <2>1, <2>4, FirstIs
<1> QED BY <1>1, <1>2

\* The first rows of the first rows.
LEMMA FirstOfFirst ==
  ASSUME list \in Lists, NEW S, Chain(S), NEW m \in Nat, NEW n \in Nat, m <= n
  PROVE  First(m, First(n, S)) = First(m, S)
<1> DEFINE F == First(n, S)
<1>1. F \subseteq S /\ Chain(F)
  BY FirstIs
<1>2. \A r \in F : Preds(r, F) = Preds(r, S)
  BY <1>1, FirstIsDown DEF Preds
<1>3. \A r \in S : r \in First(m, S) => r \in F
  BY FirstIs
<1>4. \A r \in F : r \in First(m, F) <=> r \in First(m, S)
  BY <1>1, <1>2, FirstIs
<1>5. First(m, F) \subseteq F /\ First(m, S) \subseteq S
  BY <1>1, FirstIs
<1> QED BY <1>1, <1>3, <1>4, <1>5

\* If there is one row more, the first n are n.
LEMMA FirstIsFull ==
  ASSUME list \in Lists, NEW S, Chain(S), NEW n \in Nat, Cardinality(First(n + 1, S)) > n
  PROVE  Cardinality(First(n, S)) = n
<1> DEFINE F == First(n + 1, S)
           last == LastRow(F)
<1>1. F \subseteq S /\ Chain(F) /\ IsFiniteSet(F)
  BY FirstIs DEF Chain
<1>2. Cardinality(F) = n + 1
  BY FirstIsBounded
<1>3. F # {}
  BY <1>2, FS_EmptySet
<1>4. last \in F /\ \A q \in F : q = last \/ Before(q, last)
  BY <1>1, <1>3, LastIsLast
<1>5. IsFiniteSet(F \ {last}) /\ Cardinality(F \ {last}) = n
  BY <1>1, <1>2, <1>4, FS_RemoveElement
<1>6. ASSUME NEW r \in F \ {last} PROVE r \in First(n, S)
  <2>1. Preds(r, S) \subseteq F \ {last} /\ r \notin Preds(r, S)
    <3>1. Preds(r, S) \subseteq F
      BY FirstIsDown DEF Preds
    <3>2. r \notin Preds(r, S) /\ last \notin Preds(r, S)
      BY <1>1, <1>4, Order DEF Preds, Chain
    <3> QED BY <3>1, <3>2
  <2>2. Cardinality(Preds(r, S)) < n
    BY <1>5, <2>1, Counts
  <2> QED BY <1>1, <2>2, FirstIs
<1>7. F \ {last} \subseteq First(n, S)
  BY <1>6
<1>8. IsFiniteSet(First(n, S))
  BY FirstIs DEF Chain
<1>9. n <= Cardinality(First(n, S))
  BY <1>5, <1>7, <1>8, Counts
<1> QED BY <1>9, FirstIsBounded

-----------------------------------------------------------------------------
(* The walk.                                                               *)

\* An answer to a cursor, from the rows its query saw.
Answers(c, seen, a) ==
  LET all == After(c, seen)
  IN /\ a.items \subseteq all
     /\ \A r \in a.items : \A q \in all : Before(q, r) => q \in a.items
     /\ Cardinality(a.items) <= Limit
     /\ a.more => Cardinality(a.items) = Limit
     /\ ~a.more => a.items = all

\* What the walk has to show: rows that were there when it began and still are.
Owed == since \cap Matching

Places == rows \cup {FirstCursor}

\* The k-th cursor of the walk; the page shown is the last.
At(k) == IF k = Len(page.history) + 1 THEN page.cursor ELSE page.history[k]
Steps == 1..Len(page.history) + 1

UpTo(c, r) == c # FirstCursor /\ ~Before(c, r)

Shape ==
  /\ list \in Lists /\ clock \in 0..MaxClock
  /\ open \subseteq Rows /\ rows \subseteq Rows /\ decided \subseteq rows /\ IsFiniteSet(rows)
  /\ \A r, s \in open \cup rows : r.id = s.id => r = s
  /\ page.cursor \in Places /\ page.history \in Seq(Places)
  /\ since \subseteq rows
  /\ (\E S : trail \in Seq(S)) /\ Len(trail) = Len(page.history)
  /\ cache = <<>> => page = FirstPage

Cached ==
  \A c \in DOMAIN cache :
    /\ c \in Places
    /\ \E seen \in SUBSET rows : Owed \subseteq seen /\ Answers(c, seen, cache[c])

Asked ==
  \A q \in request :
    /\ q.cursor \in Places /\ q.seen \subseteq rows
    /\ cache # <<>> => Owed \subseteq q.seen
    /\ Answers(q.cursor, q.seen, q.split)

ShownBefore(k, r) == \E j \in 1..k - 1 : r \in trail[j].items

Covered == \A k \in Steps : \A r \in Owed : UpTo(At(k), r) => ShownBefore(k, r)

Behind == \A k \in Steps : \A r : ShownBefore(k, r) => r \in rows /\ UpTo(At(k), r)

IInv == Shape /\ Cached /\ Asked /\ Covered /\ Behind

\* The rows are a chain, and so is every part of them.
LEMMA RowsAreChain == ASSUME Shape, NEW S, S \subseteq rows PROVE Chain(S)
<1>1. IsFiniteSet(S)
  BY Counts DEF Shape
<1> QED BY <1>1 DEF Shape, Chain

\* What splitPage makes of one row more than a page is an answer.
LEMMA SplitAnswers ==
  ASSUME Shape, NEW c, NEW seen, seen \subseteq rows
  PROVE  Answers(c, seen, SplitPage(First(Limit + 1, After(c, seen))))
<1> DEFINE all == After(c, seen)
           fetched == First(Limit + 1, all)
           items == First(Limit, fetched)
           more == Cardinality(fetched) > Limit
<1>1. list \in Lists /\ Limit \in Nat /\ Limit + 1 \in Nat
  BY ReadsAssumption DEF Shape
<1>2. all \subseteq seen
  BY DEF After
<1>3. Chain(all)
  BY <1>2, RowsAreChain
<1> HIDE DEF all
<1>4. items = First(Limit, all)
  BY <1>1, <1>3, FirstOfFirst
<1>5. items \subseteq all /\ \A r \in items : \A q \in all : Before(q, r) => q \in items
  BY <1>1, <1>3, <1>4, FirstIs, FirstIsDown
<1>6. Cardinality(items) <= Limit
  BY <1>1, <1>3, <1>4, FirstIsBounded
<1>7. more => Cardinality(items) = Limit
  BY <1>1, <1>3, <1>4, FirstIsFull
<1>8. ASSUME ~more PROVE items = all
  <2>1. Cardinality(fetched) < Limit + 1
    BY <1>1, <1>3, <1>8, FirstIsBounded
  <2>2. fetched = all
    BY <1>1, <1>3, <2>1, FirstIsAll
  <2>3. IsFiniteSet(all) /\ Cardinality(all) <= Limit /\ Cardinality(all) \in Nat
    BY <1>1, <1>3, <1>8, <2>2, FS_CardinalityType DEF Chain
  <2>4. ASSUME NEW r \in all PROVE r \in items
    <3>1. Preds(r, all) \subseteq all /\ r \notin Preds(r, all)
      BY <1>1, <1>3, Order DEF Preds, Chain
    <3>2. Cardinality(Preds(r, all)) < Cardinality(all)
      BY <2>3, <2>4, <3>1, Counts
    <3>3. Cardinality(Preds(r, all)) < Limit
      BY <1>1, <1>3, <2>3, <3>2, FirstIs
    <3> QED BY <1>1, <1>3, <1>4, <3>3, FirstIs
  <2> QED BY <1>5, <2>4
<1>9. SplitPage(fetched).items = items /\ SplitPage(fetched).more = more
  BY DEF SplitPage
<1> HIDE DEF fetched, items, more
<1>10. Answers(c, seen, SplitPage(fetched))
  BY <1>5, <1>6, <1>7, <1>8, <1>9 DEF Answers, all
<1> QED BY <1>10 DEF fetched, all

\* What a step that leaves the walk alone has to show: it only adds rows, and owes
\* nothing new.
LEMMA WriterStep ==
  ASSUME IInv, UNCHANGED <<list, page, cache, request, since, trail>>,
         Shape', rows \subseteq rows', Owed' \subseteq Owed
  PROVE  IInv'
<1>1. \A c, seen, a : Answers(c, seen, a)' <=> Answers(c, seen, a)
  BY DEF Answers, After, Before
<1>2. /\ (\A k : At(k)' = At(k)) /\ Steps' = Steps
      /\ (\A k, r : ShownBefore(k, r)' <=> ShownBefore(k, r))
      /\ (\A c, r : UpTo(c, r)' <=> UpTo(c, r))
  BY DEF At, Steps, ShownBefore, UpTo, Before
<1>3. Cached'
  BY <1>1 DEF IInv, Cached, Places
<1>4. Asked'
  BY <1>1 DEF IInv, Asked, Places
<1>5. Covered'
  BY <1>2 DEF IInv, Covered
<1>6. Behind'
  BY <1>2 DEF IInv, Behind
<1> QED BY <1>3, <1>4, <1>5, <1>6 DEF IInv

\* A sequence over some places is one over more of them.
LEMMA HistoryGrows ==
  ASSUME NEW S, NEW T, S \subseteq T, NEW h \in Seq(S)
  PROVE  h \in Seq(T)
OBVIOUS

LEMMA TickStep == ASSUME IInv, Tick PROVE IInv'
<1>1. clock' \in 0..MaxClock
  BY ReadsAssumption DEF Tick, IInv, Shape
<1>2. Shape'
  BY <1>1 DEF Tick, IInv, Shape, Places
<1> QED BY <1>2, WriterStep DEF Tick, Owed, Matching

LEMMA BeginStep == ASSUME IInv, NEW id \in Ids, Begin(id) PROVE IInv'
<1>1. /\ \A r \in open \cup rows : r.id # id
      /\ open' = open \cup {[id |-> id, at |-> clock]}
      /\ UNCHANGED <<list, clock, rows, decided, page, cache, request, since, trail>>
  BY DEF Begin
<1>2. [id |-> id, at |-> clock] \in Rows
  BY DEF IInv, Shape, Rows
<1>3. \A r, s \in open' \cup rows' : r.id = s.id => r = s
  BY <1>1 DEF IInv, Shape
<1>4. Shape'
  BY <1>1, <1>2, <1>3 DEF IInv, Shape, Places
<1> QED BY <1>1, <1>4, WriterStep DEF Owed, Matching

LEMMA CommitStep == ASSUME IInv, NEW r \in open, Commit(r) PROVE IInv'
<1>1. /\ open' = open \ {r} /\ rows' = rows \cup {r}
      /\ UNCHANGED <<list, clock, decided, page, cache, request, since, trail>>
  BY DEF Commit
<1>2. IsFiniteSet(rows')
  BY <1>1, FS_AddElement DEF IInv, Shape
<1>3. page'.history \in Seq(Places')
  BY <1>1, HistoryGrows DEF IInv, Shape, Places
<1>4. Shape'
  BY <1>1, <1>2, <1>3 DEF IInv, Shape, Places
<1>5. Owed' \subseteq Owed
  BY <1>1 DEF Owed, Matching, IInv, Shape
<1> QED BY <1>1, <1>4, <1>5, WriterStep

LEMMA DecideStep == ASSUME IInv, NEW r \in rows, Decide(r) PROVE IInv'
<1>1. Shape'
  BY DEF Decide, IInv, Shape, Places
<1> QED BY <1>1, WriterStep DEF Decide, Owed, Matching

LEMMA FetchStep == ASSUME IInv, Fetch PROVE IInv'
<1>1. PICK q : /\ request' = {q} /\ q.cursor = page.cursor /\ q.seen = Matching
               /\ q.split = SplitPage(First(Limit + 1, After(page.cursor, Matching)))
               /\ UNCHANGED <<list, clock, open, rows, decided, page, cache, since, trail>>
  <2> DEFINE split == SplitPage(First(Limit + 1, After(page.cursor, Matching)))
             q == [cursor |-> page.cursor, split |-> split, seen |-> Matching]
  <2>1. /\ request' = {q}
        /\ UNCHANGED <<list, clock, open, rows, decided, page, cache, since, trail>>
    BY DEF Fetch
  <2> HIDE DEF split
  <2>2. q.cursor = page.cursor /\ q.seen = Matching /\ q.split = split
    OBVIOUS
  <2> HIDE DEF q
  <2> QED BY <2>1, <2>2 DEF split
<1>2. Answers(q.cursor, q.seen, q.split)
  BY <1>1, SplitAnswers DEF IInv, Matching
<1>3. Shape' /\ Owed' = Owed
  BY <1>1 DEF IInv, Shape, Places, Owed, Matching
<1>4. \A c, seen, a : Answers(c, seen, a)' <=> Answers(c, seen, a)
  BY <1>1 DEF Answers, After, Before
<1>5. Asked'
  <2>1. q.cursor \in Places' /\ q.seen \subseteq rows' /\ Owed' \subseteq q.seen
    BY <1>1, <1>3 DEF IInv, Shape, Places, Owed, Matching
  <2>2. Answers(q.cursor, q.seen, q.split)'
    BY <1>2, <1>4
  <2> QED BY <1>1, <2>1, <2>2 DEF Asked
<1>6. Cached'
  BY <1>1, <1>3, <1>4 DEF IInv, Cached, Places
<1>7. Covered' /\ Behind'
  BY <1>1, <1>3 DEF IInv, Covered, Behind, At, Steps, ShownBefore, UpTo, Before
<1> QED BY <1>3, <1>5, <1>6, <1>7 DEF IInv

LEMMA ReceiveStep == ASSUME IInv, NEW q \in request, Receive(q) PROVE IInv'
<1> DEFINE answer == [items |-> q.split.items, more |-> q.split.more,
                      opening |-> Opening(q.cursor), asOf |-> Matching, quiet |-> Matching = q.seen]
<1>1. /\ request' = {}
      /\ cache' = [c \in DOMAIN cache \cup {q.cursor} |->
                     IF c = q.cursor THEN answer ELSE cache[c]]
      /\ since' = IF cache = <<>> THEN q.seen ELSE since
      /\ UNCHANGED <<list, clock, open, rows, decided, page, trail>>
  BY DEF Receive
<1>2. answer.items = q.split.items /\ answer.more = q.split.more
  OBVIOUS
<1> HIDE DEF answer
<1>3. /\ q.cursor \in Places /\ q.seen \subseteq rows /\ Answers(q.cursor, q.seen, answer)
      /\ cache # <<>> => Owed \subseteq q.seen
  BY <1>2 DEF IInv, Asked, Answers
<1>4. cache' # <<>>
  <2>1. q.cursor \in DOMAIN cache'
    BY <1>1
  <2>2. DOMAIN <<>> = {}
    OBVIOUS
  <2> QED BY <2>1, <2>2
<1>5. Shape'
  BY <1>1, <1>3, <1>4 DEF IInv, Shape, Places
<1>6. \A c, seen, a : Answers(c, seen, a)' <=> Answers(c, seen, a)
  BY <1>1 DEF Answers, After, Before
<1>7. Owed' \subseteq q.seen /\ (cache # <<>> => Owed' = Owed)
  BY <1>1, <1>3 DEF Owed, Matching
<1>8. Cached'
  <2> SUFFICES ASSUME NEW c \in DOMAIN cache'
               PROVE  c \in Places /\ \E seen \in SUBSET rows :
                        Owed' \subseteq seen /\ Answers(c, seen, cache'[c])
    BY <1>1, <1>6 DEF Cached, Places
  <2>1. CASE c = q.cursor
    <3>1. cache'[c] = answer
      BY <1>1, <2>1
    <3> QED BY <1>3, <1>7, <2>1, <3>1
  <2>2. CASE c # q.cursor
    <3>1. c \in DOMAIN cache /\ cache'[c] = cache[c]
      BY <1>1, <2>2
    <3>2. cache # <<>>
      BY <3>1
    <3> QED BY <1>7, <3>1, <3>2 DEF IInv, Cached
  <2> QED BY <2>1, <2>2
<1>9. Asked'
  BY <1>1 DEF Asked
<1>10. Covered'
  <2>1. CASE cache = <<>>
    <3>1. page = FirstPage
      BY <2>1 DEF IInv, Shape
    <3>2. Steps = {1} /\ At(1) = FirstCursor
      BY <3>1 DEF Steps, At, FirstPage
    <3>3. Steps' = {1} /\ At(1)' = FirstCursor
      BY <1>1, <3>2 DEF Steps, At
    <3> QED BY <3>3 DEF Covered, UpTo
  <2>2. CASE cache # <<>>
    BY <1>1, <1>7, <2>2 DEF IInv, Covered, At, Steps, ShownBefore, UpTo, Before
  <2> QED BY <2>1, <2>2
<1>11. Behind'
  BY <1>1 DEF IInv, Behind, At, Steps, ShownBefore, UpTo, Before
<1> QED BY <1>5, <1>8, <1>9, <1>10, <1>11 DEF IInv

LEMMA FirstIsNoRow == FirstCursor \notin Rows
<1>1. FirstCursor.at = -1
  BY DEF FirstCursor
<1>2. \A r \in Rows : r.at \in 0..MaxClock
  BY DEF Rows
<1> QED BY <1>1, <1>2, ReadsAssumption

\* "Next" goes to a cursor at which exactly the pages passed lie behind.
LEMMA AdvanceStep == ASSUME IInv, Advance PROVE IInv'
<1>1. PICK n, c, shown, items, last :
        /\ n = Len(page.history) /\ c = page.cursor /\ shown = cache[c]
        /\ items = shown.items /\ last = LastRow(items)
        /\ c \in DOMAIN cache /\ shown.more
        /\ page' = [cursor |-> last, history |-> Append(page.history, c)]
        /\ trail' = Append(trail, shown)
        /\ UNCHANGED <<list, clock, open, rows, decided, cache, request, since>>
  BY DEF Advance, Ready, Shown
<1>2. PICK seen \in SUBSET rows : Owed \subseteq seen /\ Answers(c, seen, shown)
  BY <1>1 DEF IInv, Cached
<1>3. /\ items \subseteq After(c, seen) /\ Cardinality(items) = Limit
      /\ \A r \in items : \A q \in After(c, seen) : Before(q, r) => q \in items
  BY <1>1, <1>2 DEF Answers
<1>4. items \subseteq rows
  BY <1>2, <1>3 DEF After
<1>5. items # {}
  BY <1>3, FS_EmptySet, ReadsAssumption
<1>6. last \in items /\ \A r \in items : r = last \/ Before(r, last)
  BY <1>1, <1>4, <1>5, RowsAreChain, LastIsLast DEF IInv, Shape
<1>7. last \in rows /\ last # FirstCursor /\ last \in After(c, seen)
  BY <1>3, <1>4, <1>6, FirstIsNoRow DEF IInv, Shape
<1>8. PICK S : trail \in Seq(S)
  BY DEF IInv, Shape
<1>9. /\ n \in Nat /\ Len(trail) = n /\ page.history \in Seq(Places) /\ c \in Places
  BY <1>1 DEF IInv, Shape, Places
<1>10. /\ page'.cursor = last /\ page'.history = Append(page.history, c)
  BY <1>1
<1>11. /\ Len(page'.history) = n + 1 /\ page'.history[n + 1] = c
       /\ \A k \in 1..n : page'.history[k] = page.history[k]
  BY <1>1, <1>9, <1>10
<1>12. /\ Len(trail') = n + 1 /\ trail'[n + 1] = shown
       /\ \A k \in 1..n : trail'[k] = trail[k]
  BY <1>1, <1>8, <1>9
<1>13. trail' \in Seq(S \cup {shown})
  <2>1. trail \in Seq(S \cup {shown})
    BY <1>8, HistoryGrows
  <2> QED BY <1>1, <2>1
<1>14. Shape'
  <2>1. page'.history \in Seq(Places)
    BY <1>9, <1>10
  <2>2. cache' # <<>>
    <3>1. c \in DOMAIN cache /\ DOMAIN <<>> = {}
      BY <1>1
    <3> QED BY <1>1, <3>1
  <2>3. page'.cursor \in Places
    BY <1>7, <1>10 DEF Places
  <2> QED BY <1>1, <1>11, <1>12, <1>13, <2>1, <2>2, <2>3 DEF IInv, Shape, Places
<1>15. Cached' /\ Asked'
  <2>1. \A x, set, a : Answers(x, set, a)' <=> Answers(x, set, a)
    BY <1>1 DEF Answers, After, Before
  <2> QED BY <1>1, <2>1 DEF IInv, Cached, Asked, Owed, Matching, Places
<1>16. /\ Steps' = 1..n + 2
       /\ \A k \in 1..n + 1 : At(k)' = At(k)
       /\ At(n + 2)' = last
       /\ At(n + 1) = c
  BY <1>1, <1>9, <1>10, <1>11 DEF Steps, At
<1>17. /\ \A k \in 1..n + 1 : \A r : ShownBefore(k, r)' <=> ShownBefore(k, r)
       /\ \A r : ShownBefore(n + 2, r)' <=> ShownBefore(n + 1, r) \/ r \in items
  <2>1. ASSUME NEW k \in 1..n + 1, NEW r PROVE ShownBefore(k, r)' <=> ShownBefore(k, r)
    BY <1>9, <1>12 DEF ShownBefore
  <2>2. ASSUME NEW r PROVE ShownBefore(n + 2, r)' <=> ShownBefore(n + 1, r) \/ r \in items
    <3>1. 1..(n + 2) - 1 = 1..n + 1 /\ 1..(n + 1) - 1 = 1..n /\ n + 1 \in 1..n + 1
      BY <1>9
    <3>2. ShownBefore(n + 2, r)' <=> \E j \in 1..n + 1 : r \in trail'[j].items
      BY <3>1 DEF ShownBefore
    <3>3. ShownBefore(n + 1, r) <=> \E j \in 1..n : r \in trail[j].items
      BY <3>1 DEF ShownBefore
    <3>4. \A j \in 1..n + 1 : j = n + 1 \/ j \in 1..n
      BY <1>9
    <3>5. \A j \in 1..n : j \in 1..n + 1
      BY <1>9
    <3> QED BY <1>1, <1>12, <3>1, <3>2, <3>3, <3>4, <3>5
  <2> QED BY <2>1, <2>2
<1>18. /\ \A x, r : UpTo(x, r)' <=> UpTo(x, r)
       /\ Owed' = Owed /\ Steps = 1..n + 1
  BY <1>1 DEF UpTo, Before, Owed, Matching, Steps
<1>19. /\ \A r \in rows : ~Before(r, r)
       /\ \A r, s \in rows : r = s \/ Before(r, s) \/ Before(s, r)
       /\ \A r, s, t \in rows : Before(r, s) /\ Before(s, t) => Before(r, t)
  BY Order DEF IInv, Shape
<1>20. ASSUME NEW r \in Owed, UpTo(last, r) PROVE ShownBefore(n + 1, r) \/ r \in items
  <2>1. CASE UpTo(c, r)
    BY <2>1, <1>9, <1>16, <1>18 DEF IInv, Covered
  <2>2. CASE ~UpTo(c, r)
    <3>1. r \in seen /\ r \in After(c, seen)
      BY <1>2, <2>2 DEF UpTo, After
    <3>2. r = last \/ Before(r, last)
      BY <1>7, <1>19, <1>20, <3>1 DEF UpTo
    <3> QED BY <1>3, <1>6, <3>1, <3>2
  <2> QED BY <2>1, <2>2
<1>21. ASSUME NEW r, ShownBefore(n + 1, r) \/ r \in items PROVE r \in rows /\ UpTo(last, r)
  <2>1. CASE r \in items
    BY <2>1, <1>4, <1>6, <1>7, <1>19 DEF UpTo
  <2>2. CASE ShownBefore(n + 1, r)
    <3>1. r \in rows /\ UpTo(c, r)
      BY <2>2, <1>9, <1>16, <1>18 DEF IInv, Behind
    <3>2. c \in rows /\ Before(c, last)
      BY <1>7, <1>9, <3>1 DEF UpTo, After, Places
    <3> QED BY <1>7, <1>19, <3>1, <3>2 DEF UpTo
  <2> QED BY <1>21, <2>1, <2>2
<1>22. \A k \in Steps' : k \in 1..n + 1 \/ k = n + 2
  BY <1>9, <1>16
<1>23. Covered'
  <2> SUFFICES ASSUME NEW k \in Steps', NEW r \in Owed', UpTo(At(k)', r)
               PROVE  ShownBefore(k, r)'
    BY <1>18 DEF Covered
  <2>1. CASE k \in 1..n + 1
    BY <2>1, <1>16, <1>17, <1>18 DEF IInv, Covered
  <2>2. CASE k = n + 2
    BY <2>2, <1>16, <1>17, <1>18, <1>20
  <2> QED BY <1>22, <2>1, <2>2
<1>24. Behind'
  <2> SUFFICES ASSUME NEW k \in Steps', NEW r, ShownBefore(k, r)'
               PROVE  r \in rows' /\ UpTo(At(k)', r)
    BY <1>18 DEF Behind
  <2>1. CASE k \in 1..n + 1
    BY <2>1, <1>1, <1>16, <1>17, <1>18 DEF IInv, Behind
  <2>2. CASE k = n + 2
    BY <2>2, <1>1, <1>16, <1>17, <1>18, <1>21
  <2> QED BY <1>22, <2>1, <2>2
<1> QED BY <1>14, <1>15, <1>23, <1>24 DEF IInv

\* "Previous" takes the walk's last step back.
LEMMA GoBackStep == ASSUME IInv, GoBack PROVE IInv'
<1>1. PICK n :
        /\ n = Len(page.history) /\ page.history # <<>>
        /\ page' = [cursor |-> page.history[n], history |-> SubSeq(page.history, 1, n - 1)]
        /\ trail' = SubSeq(trail, 1, n - 1)
        /\ UNCHANGED <<list, clock, open, rows, decided, cache, request, since>>
  BY DEF GoBack
<1>2. PICK S : trail \in Seq(S)
  BY DEF IInv, Shape
<1>3. page.history \in Seq(Places) /\ Len(trail) = n /\ n \in Nat /\ n >= 1
  BY <1>1 DEF IInv, Shape
<1>4. /\ page'.cursor = page.history[n] /\ page'.history = SubSeq(page.history, 1, n - 1)
  BY <1>1
<1>5. /\ page'.cursor \in Places /\ page'.history \in Seq(Places) /\ Len(page'.history) = n - 1
      /\ \A k \in 1..n - 1 : page'.history[k] = page.history[k]
  BY <1>1, <1>3, <1>4
<1>6. /\ trail' \in Seq(S) /\ Len(trail') = n - 1
      /\ \A k \in 1..n - 1 : trail'[k] = trail[k]
  BY <1>1, <1>2, <1>3
<1>7. cache # <<>>
  <2>1. FirstPage.history = <<>>
    BY DEF FirstPage
  <2> QED BY <1>1, <2>1 DEF IInv, Shape
<1>8. Shape'
  BY <1>1, <1>5, <1>6, <1>7 DEF IInv, Shape, Places
<1>9. Cached' /\ Asked'
  <2>1. \A x, set, a : Answers(x, set, a)' <=> Answers(x, set, a)
    BY <1>1 DEF Answers, After, Before
  <2> QED BY <1>1, <2>1 DEF IInv, Cached, Asked, Owed, Matching, Places
<1>10. /\ Steps' = 1..n /\ \A k \in 1..n : k \in Steps
       /\ \A k \in 1..n : At(k)' = At(k)
  BY <1>1, <1>3, <1>4, <1>5 DEF Steps, At
<1>11. \A k \in 1..n : \A r : ShownBefore(k, r)' <=> ShownBefore(k, r)
  <2> SUFFICES ASSUME NEW k \in 1..n, NEW r PROVE ShownBefore(k, r)' <=> ShownBefore(k, r)
    OBVIOUS
  <2>1. \A j \in 1..k - 1 : j \in 1..n - 1
    BY <1>3
  <2> QED BY <1>6, <2>1 DEF ShownBefore
<1>12. (\A x, r : UpTo(x, r)' <=> UpTo(x, r)) /\ Owed' = Owed
  BY <1>1 DEF UpTo, Before, Owed, Matching
<1>13. Covered'
  <2> SUFFICES ASSUME NEW k \in Steps', NEW r \in Owed', UpTo(At(k)', r)
               PROVE  ShownBefore(k, r)'
    BY <1>12 DEF Covered
  <2> QED BY <1>10, <1>11, <1>12 DEF IInv, Covered
<1>14. Behind'
  <2> SUFFICES ASSUME NEW k \in Steps', NEW r, ShownBefore(k, r)'
               PROVE  r \in rows' /\ UpTo(At(k)', r)
    BY <1>12 DEF Behind
  <2> QED BY <1>1, <1>10, <1>11, <1>12 DEF IInv, Behind
<1> QED BY <1>8, <1>9, <1>13, <1>14 DEF IInv

\* A walk that has not started.
Fresh == page = FirstPage /\ cache = <<>> /\ request = {} /\ since = {} /\ trail = <<>>

Walk ==
  /\ page.cursor \in Places /\ page.history \in Seq(Places) /\ since \subseteq rows
  /\ (\E S : trail \in Seq(S)) /\ Len(trail) = Len(page.history)
  /\ Cached /\ Asked /\ Covered /\ Behind

LEMMA FreshWalk == Fresh => Walk
<1> SUFFICES ASSUME Fresh PROVE Walk
  OBVIOUS
<1> USE DEF Fresh
<1>1. page.cursor = FirstCursor /\ page.history = <<>>
  BY DEF FirstPage
<1>2. trail \in Seq({})
  OBVIOUS
<1>3. Steps = {1} /\ At(1) = FirstCursor
  BY <1>1 DEF Steps, At
<1>4. Covered
  BY <1>3 DEF Covered, UpTo
<1>5. Behind
  <2>1. \A r : ~ShownBefore(1, r)
    BY DEF ShownBefore
  <2> QED BY <1>3, <2>1 DEF Behind
<1>6. DOMAIN cache = {}
  OBVIOUS
<1>7. Cached /\ Asked
  BY <1>6 DEF Cached, Asked
<1> QED BY <1>1, <1>2, <1>4, <1>5, <1>7 DEF Places, Walk

LEMMA ResetStep == ASSUME IInv, Reset PROVE IInv'
<1>1. Fresh' /\ UNCHANGED <<list, clock, open, rows, decided>> /\ page' = FirstPage
  BY DEF Reset, Fresh, FirstPage, FirstCursor
<1>2. Walk'
  BY <1>1, FreshWalk, PTL
<1>3. Shape'
  BY <1>1, <1>2 DEF IInv, Shape, Walk, FirstPage, FirstCursor
<1> QED BY <1>2, <1>3 DEF IInv, Walk

LEMMA InitIInv == Init => IInv
<1> SUFFICES ASSUME Init PROVE IInv
  OBVIOUS
<1>1. Fresh
  BY DEF Init, Fresh
<1>2. clock \in 0..MaxClock /\ IsFiniteSet(rows)
  BY ReadsAssumption, FS_EmptySet DEF Init
<1>3. Shape
  BY <1>1, <1>2, FreshWalk DEF Init, Shape, Walk
<1> QED BY <1>1, <1>3, FreshWalk DEF IInv, Walk

LEMMA NextIInv == IInv /\ [Next]_vars => IInv'
<1> SUFFICES ASSUME IInv, [Next]_vars PROVE IInv'
  OBVIOUS
<1>1. CASE UNCHANGED vars
  <2>1. Shape' /\ rows \subseteq rows' /\ Owed' \subseteq Owed
    BY <1>1 DEF vars, IInv, Shape, Places, Owed, Matching
  <2> QED BY <1>1, <2>1, WriterStep DEF vars
<1>2. CASE Next
  BY <1>2, TickStep, BeginStep, CommitStep, DecideStep, FetchStep, ReceiveStep, AdvanceStep,
     GoBackStep, ResetStep DEF Next, GoNext, ExportNext
<1> QED BY <1>1, <1>2

-----------------------------------------------------------------------------
\* Everything below rests on this.
THEOREM Invariance == Spec => []IInv
BY InitIInv, NextIInv, PTL DEF Spec

\* Every variable keeps its type, and a page says that more follow only when it is full.
THEOREM TypeCorrect == Spec => []TypeOK
<1>1. IInv => TypeOK
  <2> SUFFICES ASSUME IInv PROVE TypeOK
    OBVIOUS
  <2>1. Places \subseteq Cursors
    BY DEF IInv, Shape, Places, Cursors
  <2>2. page.cursor \in Cursors /\ page.history \in Seq(Cursors)
    BY <2>1, HistoryGrows DEF IInv, Shape
  <2>3. ASSUME NEW c \in DOMAIN cache
        PROVE  /\ c \in Cursors
               /\ cache[c].items \subseteq Rows /\ Cardinality(cache[c].items) <= Limit
               /\ cache[c].more => Cardinality(cache[c].items) = Limit
    <3>1. PICK seen \in SUBSET rows : Answers(c, seen, cache[c])
      BY DEF IInv, Cached
    <3>2. After(c, seen) \subseteq Rows
      BY DEF After, IInv, Shape
    <3>3. c \in Cursors
      BY <2>1 DEF IInv, Cached
    <3> QED BY <3>1, <3>2, <3>3 DEF Answers
  <2> QED BY <2>2, <2>3 DEF IInv, Shape, TypeOK
<1> QED BY Invariance, <1>1, PTL

\* Whoever comes to the last page has been shown every row that was there when the
\* walk began and is still listed, whatever was written, decided or read again.
THEOREM WalksAreComplete == Spec => []WalkIsComplete
<1>1. IInv => WalkIsComplete
  <2> SUFFICES ASSUME IInv, Ready, ~Shown.more, NEW r \in Owed
               PROVE  r \in Passed \cup Shown.items
    BY DEF WalkIsComplete, Owed
  <2>1. PICK seen \in SUBSET rows : Owed \subseteq seen /\ Answers(page.cursor, seen, Shown)
    BY DEF IInv, Cached, Ready, Shown
  <2>2. Shown.items = After(page.cursor, seen)
    BY <2>1 DEF Answers
  <2>3. CASE UpTo(page.cursor, r)
    <3> DEFINE k == Len(page.history) + 1
    <3>1. k \in Steps /\ At(k) = page.cursor /\ Len(trail) = Len(page.history)
      BY DEF IInv, Shape, Steps, At
    <3>2. ShownBefore(k, r)
      BY <2>3, <3>1 DEF IInv, Covered
    <3>3. \E j \in 1..Len(trail) : r \in trail[j].items
      BY <3>1, <3>2 DEF ShownBefore, IInv, Shape
    <3> QED BY <3>3 DEF Passed
  <2>4. CASE ~UpTo(page.cursor, r)
    BY <2>1, <2>2, <2>4 DEF UpTo, After
  <2> QED BY <2>3, <2>4
<1> QED BY Invariance, <1>1, PTL

\* No row appears on two pages of one walk.
THEOREM NothingShownTwice == Spec => []NothingTwice
<1>1. IInv => NothingTwice
  <2> SUFFICES ASSUME IInv, Ready, NEW r \in Shown.items, r \in Passed PROVE FALSE
    BY DEF NothingTwice
  <2>1. PICK seen \in SUBSET rows : Answers(page.cursor, seen, Shown)
    BY DEF IInv, Cached, Ready, Shown
  <2>2. r \in After(page.cursor, seen)
    BY <2>1 DEF Answers
  <2> DEFINE k == Len(page.history) + 1
  <2>3. k \in Steps /\ At(k) = page.cursor /\ Len(trail) = Len(page.history)
    BY DEF IInv, Shape, Steps, At
  <2>4. PICK j \in 1..Len(trail) : r \in trail[j].items
    BY DEF Passed
  <2>5. ShownBefore(k, r)
    BY <2>3, <2>4 DEF ShownBefore, IInv, Shape
  <2>6. UpTo(page.cursor, r)
    BY <2>3, <2>5 DEF IInv, Behind
  <2> QED BY <2>2, <2>6 DEF UpTo, After
<1> QED BY Invariance, <1>1, PTL

-----------------------------------------------------------------------------
(* The statement of an account.                                            *)

\* The rows a cursor stands for: those at or before it.
Through(c, S) == IF c = FirstCursor THEN {} ELSE S \ After(c, S)

\* An answer of the statement: its rows were there when the second query ran, and its
\* opening balance is what that query summed.
Told(c, a) ==
  /\ c \in Places /\ a.asOf \subseteq rows
  /\ \E seen \in SUBSET a.asOf : Answers(c, seen, a) /\ (a.quiet => seen = a.asOf)
  /\ a.opening = Sum(Through(c, a.asOf))

\* Every answer the walk was built from, cached or passed, is one; "next" went from
\* each page passed to its last row.
StatementInv ==
  list = "statement" =>
    /\ decided = {}
    /\ \A c \in DOMAIN cache : Told(c, cache[c])
    /\ \A k \in 1..Len(trail) :
         /\ Told(page.history[k], trail[k])
         /\ trail[k].items # {} /\ At(k + 1) = LastRow(trail[k].items)

\* More rows make no answer untrue.
LEMMA ToldKept ==
  ASSUME rows \subseteq rows', list' = list, NEW c, NEW a, Told(c, a)
  PROVE  Told(c, a)'
<1>1. \A S : After(c, S)' = After(c, S) /\ Through(c, S)' = Through(c, S)
  BY DEF After, Through, Before
<1>2. \A seen : Answers(c, seen, a)' <=> Answers(c, seen, a)
  BY DEF Answers, After, Before
<1>3. c \in Places' /\ a.asOf \subseteq rows'
  BY DEF Told, Places
<1>4. \E seen \in SUBSET a.asOf : Answers(c, seen, a)' /\ (a.quiet => seen = a.asOf)
  BY <1>2 DEF Told
<1>5. a.opening = Sum(Through(c, a.asOf)')
  BY <1>1 DEF Told
<1> QED BY <1>3, <1>4, <1>5 DEF Told

\* What a step that only adds rows leaves as it was.
LEMMA StatementKept ==
  ASSUME StatementInv, rows \subseteq rows', UNCHANGED <<list, decided, page, cache, trail>>
  PROVE  StatementInv'
<1> SUFFICES ASSUME list = "statement" PROVE StatementInv'
  BY DEF StatementInv
<1>1. \A c \in DOMAIN cache : Told(c, cache[c])'
  BY ToldKept DEF StatementInv
<1>2. \A k \in 1..Len(trail) : Told(page.history[k], trail[k])'
  BY ToldKept DEF StatementInv
<1>3. \A k : At(k)' = At(k)
  BY DEF At
<1>4. \A S : LastRow(S)' = LastRow(S)
  BY DEF LastRow, Before
<1> QED BY <1>1, <1>2, <1>3, <1>4 DEF StatementInv

\* The answer that a read ends with.
LEMMA StatementReceive ==
  ASSUME IInv, StatementInv, NEW q \in request, Receive(q)
  PROVE  StatementInv'
<1> SUFFICES ASSUME list = "statement" PROVE StatementInv'
  BY DEF StatementInv, Receive
<1>1. PICK answer :
        /\ answer.items = q.split.items /\ answer.more = q.split.more
        /\ answer.opening = Opening(q.cursor) /\ answer.asOf = Matching
        /\ answer.quiet = (Matching = q.seen)
        /\ cache' = [c \in DOMAIN cache \cup {q.cursor} |->
                       IF c = q.cursor THEN answer ELSE cache[c]]
  BY DEF Receive
<1>2. UNCHANGED <<list, decided, rows, page, trail>>
  BY DEF Receive
<1>3. Matching = rows
  BY DEF Matching, StatementInv
<1>4. q.cursor \in Places /\ q.seen \subseteq rows /\ Answers(q.cursor, q.seen, answer)
  BY <1>1 DEF IInv, Asked, Answers
<1>5. Opening(q.cursor) = Sum(Through(q.cursor, rows))
  <2>1. CASE q.cursor = FirstCursor
    <3>1. Sum({}) = 0
      <4>1. Sum({}) = SumFunctionOnSet([r \in {} |-> Amount[r.id]], {})
        BY DEF Sum, SumFunction
      <4> QED BY <4>1, SumEmpty
    <3> QED BY <2>1, <3>1 DEF Opening, Through
  <2>2. CASE q.cursor # FirstCursor
    BY <2>2 DEF Opening, Through
  <2> QED BY <2>1, <2>2
<1>6. Told(q.cursor, answer)
  BY <1>1, <1>3, <1>4, <1>5 DEF Told
<1>7. \A c \in DOMAIN cache' : c = q.cursor \/ c \in DOMAIN cache
  BY <1>1
<1>8. \A c \in DOMAIN cache' : Told(c, cache'[c])
  BY <1>1, <1>6, <1>7 DEF StatementInv
<1>9. \A c \in DOMAIN cache' : Told(c, cache[c])'
  BY <1>2, <1>8, ToldKept
<1>10. \A k \in 1..Len(trail) : Told(page.history[k], trail[k])'
  BY <1>2, ToldKept DEF StatementInv
<1>11. (\A k : At(k)' = At(k)) /\ \A S : LastRow(S)' = LastRow(S)
  BY <1>2 DEF At, LastRow, Before
<1> QED BY <1>2, <1>9, <1>10, <1>11 DEF StatementInv

\* "Next" leaves the page shown behind.
LEMMA StatementAdvance ==
  ASSUME IInv, StatementInv, Advance
  PROVE  StatementInv'
<1> SUFFICES ASSUME list = "statement" PROVE StatementInv'
  BY DEF StatementInv, Advance
<1>1. PICK n, c, shown, last :
        /\ n = Len(page.history) /\ c = page.cursor /\ shown = cache[c]
        /\ last = LastRow(shown.items)
        /\ c \in DOMAIN cache /\ shown.more
        /\ page' = [cursor |-> last, history |-> Append(page.history, c)]
        /\ trail' = Append(trail, shown)
        /\ UNCHANGED <<list, rows, decided, cache>>
  BY DEF Advance, Ready, Shown
<1>2. PICK S : trail \in Seq(S)
  BY DEF IInv, Shape
<1>3. n \in Nat /\ Len(trail) = n /\ page.history \in Seq(Places)
  BY <1>1 DEF IInv, Shape
<1>4. page'.cursor = last /\ page'.history = Append(page.history, c)
  BY <1>1
<1>5. /\ Len(page'.history) = n + 1 /\ page'.history[n + 1] = c
      /\ \A k \in 1..n : page'.history[k] = page.history[k]
  BY <1>1, <1>3, <1>4
<1>6. /\ Len(trail') = n + 1 /\ trail'[n + 1] = shown
      /\ \A k \in 1..n : trail'[k] = trail[k]
  BY <1>1, <1>2, <1>3
<1>7. Told(c, shown) /\ shown.items # {}
  <2>1. Told(c, shown)
    BY <1>1 DEF StatementInv
  <2>2. Cardinality(shown.items) = Limit
    BY <1>1, <2>1 DEF Told, Answers
  <2> QED BY <2>1, <2>2, FS_EmptySet, ReadsAssumption
<1>8. \A k \in 1..n + 1 : k = n + 1 \/ k \in 1..n
  BY <1>3
<1>9. \A x : LastRow(x)' = LastRow(x)
  BY <1>1 DEF LastRow, Before
<1>10. /\ \A k \in 1..n : At(k + 1)' = At(k + 1)
       /\ At((n + 1) + 1)' = last
  BY <1>1, <1>3, <1>4, <1>5 DEF At
<1>11. ASSUME NEW k \in 1..n + 1
       PROVE  /\ Told(page.history[k], trail[k])'
              /\ trail'[k].items # {} /\ At(k + 1)' = LastRow(trail[k].items)'
  <2>1. CASE k = n + 1
    <3>1. Told(c, shown)'
      BY <1>1, <1>7, ToldKept
    <3>2. At(k + 1)' = LastRow(shown.items)
      BY <1>1, <1>10, <2>1
    <3> QED BY <1>5, <1>6, <1>7, <1>9, <2>1, <3>1, <3>2
  <2>2. CASE k \in 1..n
    <3>1. Told(page.history[k], trail[k])'
      BY <1>1, <1>3, <2>2, ToldKept DEF StatementInv
    <3>2. trail[k].items # {} /\ At(k + 1) = LastRow(trail[k].items)
      BY <1>3, <2>2 DEF StatementInv
    <3> QED BY <1>5, <1>6, <1>9, <1>10, <2>2, <3>1, <3>2
  <2> QED BY <1>8, <2>1, <2>2
<1>12. \A x \in DOMAIN cache : Told(x, cache[x])'
  BY <1>1, ToldKept DEF StatementInv
<1> QED BY <1>1, <1>6, <1>11, <1>12 DEF StatementInv

\* "Previous" drops the last page passed.
LEMMA StatementGoBack ==
  ASSUME IInv, StatementInv, GoBack
  PROVE  StatementInv'
<1> SUFFICES ASSUME list = "statement" PROVE StatementInv'
  BY DEF StatementInv, GoBack
<1>1. PICK n :
        /\ n = Len(page.history) /\ page.history # <<>>
        /\ page' = [cursor |-> page.history[n], history |-> SubSeq(page.history, 1, n - 1)]
        /\ trail' = SubSeq(trail, 1, n - 1)
        /\ UNCHANGED <<list, rows, decided, cache>>
  BY DEF GoBack
<1>2. PICK S : trail \in Seq(S)
  BY DEF IInv, Shape
<1>3. page.history \in Seq(Places) /\ Len(trail) = n /\ n \in Nat /\ n >= 1
  BY <1>1 DEF IInv, Shape
<1>4. page'.cursor = page.history[n] /\ page'.history = SubSeq(page.history, 1, n - 1)
  BY <1>1
<1>5. /\ Len(page'.history) = n - 1
      /\ \A k \in 1..n - 1 : page'.history[k] = page.history[k]
  BY <1>1, <1>3, <1>4
<1>6. /\ Len(trail') = n - 1
      /\ \A k \in 1..n - 1 : trail'[k] = trail[k]
  BY <1>1, <1>2, <1>3
<1>7. \A k \in 1..n - 1 : At(k + 1)' = At(k + 1) /\ k \in 1..Len(trail)
  BY <1>1, <1>3, <1>4, <1>5 DEF At
<1>8. \A x : LastRow(x)' = LastRow(x)
  BY <1>1 DEF LastRow, Before
<1>9. ASSUME NEW k \in 1..n - 1
      PROVE  /\ Told(page.history[k], trail[k])'
             /\ trail'[k].items # {} /\ At(k + 1)' = LastRow(trail[k].items)'
  <2>1. Told(page.history[k], trail[k])
    BY <1>1, <1>7 DEF StatementInv
  <2>2. trail[k].items # {} /\ At(k + 1) = LastRow(trail[k].items)
    BY <1>7 DEF StatementInv
  <2>3. Told(page.history[k], trail[k])'
    BY <1>1, <1>7, <2>1, ToldKept
  <2> QED BY <1>5, <1>6, <1>7, <1>8, <2>2, <2>3
<1>10. \A x \in DOMAIN cache : Told(x, cache[x])'
  BY <1>1, ToldKept DEF StatementInv
<1> QED BY <1>1, <1>6, <1>9, <1>10 DEF StatementInv

LEMMA InitStatement == Init => StatementInv
<1> SUFFICES ASSUME Init PROVE StatementInv
  OBVIOUS
<1>1. DOMAIN <<>> = {} /\ Len(<<>>) = 0
  OBVIOUS
<1> QED BY <1>1 DEF Init, StatementInv

LEMMA NextStatement == IInv /\ StatementInv /\ [Next]_vars => StatementInv'
<1> SUFFICES ASSUME IInv, StatementInv, [Next]_vars PROVE StatementInv'
  OBVIOUS
<1>1. CASE Tick
  BY <1>1, StatementKept DEF Tick
<1>2. ASSUME NEW id \in Ids, Begin(id) PROVE StatementInv'
  BY <1>2, StatementKept DEF Begin
<1>3. ASSUME NEW r \in open, Commit(r) PROVE StatementInv'
  <2>1. rows \subseteq rows' /\ UNCHANGED <<list, decided, page, cache, trail>>
    BY <1>3 DEF Commit
  <2> QED BY <2>1, StatementKept
<1>4. ASSUME NEW r \in rows, Decide(r) PROVE StatementInv'
  BY <1>4 DEF Decide, StatementInv
<1>5. CASE Fetch
  BY <1>5, StatementKept DEF Fetch
<1>6. CASE Reset
  <2>1. cache' = <<>> /\ trail' = <<>> /\ UNCHANGED <<list, decided>>
    BY <1>6 DEF Reset
  <2>2. DOMAIN <<>> = {} /\ Len(<<>>) = 0
    OBVIOUS
  <2> QED BY <2>1, <2>2 DEF StatementInv
<1>7. CASE UNCHANGED vars
  BY <1>7, StatementKept DEF vars
<1> QED
  BY <1>1, <1>2, <1>3, <1>4, <1>5, <1>6, <1>7, StatementReceive, StatementAdvance,
     StatementGoBack DEF Next, GoNext, ExportNext

\* Every answer of the statement that is cached or was passed holds the sum its second
\* query took, of rows that were there.
THEOREM StatementInvariance == Spec => []StatementInv
BY Invariance, InitStatement, NextStatement, PTL DEF Spec
-----------------------------------------------------------------------------
(* Sums of rows. *)

Worth == [r \in Rows |-> Amount[r.id]]

LEMMA SumIsWorth ==
  ASSUME NEW S, S \subseteq Rows, IsFiniteSet(S)
  PROVE  IntOn(Worth, S) /\ Sum(S) = SumFunctionOnSet(Worth, S) /\ Sum(S) \in Int
<1> DEFINE f == [r \in S |-> Amount[r.id]]
<1>1. \A r \in S : f[r] = Worth[r] /\ Worth[r] \in Int
  BY ReadsAssumption DEF Worth, Rows
<1>2. IntOn(Worth, S) /\ IntOn(f, S)
  BY <1>1 DEF IntOn
<1>3. Sum(S) = SumFunctionOnSet(f, S)
  BY DEF Sum, SumFunction
<1> HIDE DEF f
<1>4. SumFunctionOnSet(f, S) = SumFunctionOnSet(Worth, S)
  BY <1>1, <1>2, SumSame
<1>5. SumFunctionOnSet(Worth, S) \in Int
  BY <1>2, SumRecursion
<1> QED BY <1>2, <1>3, <1>4, <1>5

LEMMA SumOfTwo ==
  ASSUME NEW S, NEW T, S \cup T \subseteq Rows, IsFiniteSet(S \cup T), S \cap T = {}
  PROVE  Sum(S \cup T) = Sum(S) + Sum(T)
<1>1. IsFiniteSet(S) /\ IsFiniteSet(T) /\ S \subseteq Rows /\ T \subseteq Rows
  BY PartFinite
<1>2. IntOn(Worth, S \cup T)
  BY SumIsWorth
<1>3. SumFunctionOnSet(Worth, S \cup T) = SumFunctionOnSet(Worth, S) + SumFunctionOnSet(Worth, T)
  BY <1>1, <1>2, SumOfUnion
<1> QED BY <1>1, <1>3, SumIsWorth

\* The end of an answer is what the rows up to its last one sum to.
LEMMA ClosingIs ==
  ASSUME IInv, NEW c, NEW a, Told(c, a)
  PROVE  /\ Through(c, a.asOf) \cap a.items = {}
         /\ a.items \subseteq a.asOf \cap After(c, a.asOf)
         /\ Closing(a) = Sum(Through(c, a.asOf) \cup a.items)
<1>1. PICK seen \in SUBSET a.asOf : Answers(c, seen, a)
  BY DEF Told
<1>2. a.items \subseteq a.asOf \cap After(c, a.asOf)
  BY <1>1 DEF Answers, After
<1>3. Through(c, a.asOf) \cap a.items = {}
  BY <1>2 DEF Through
<1>4. Through(c, a.asOf) \cup a.items \subseteq rows
  BY <1>2 DEF Told, Through
<1>5. /\ Through(c, a.asOf) \cup a.items \subseteq Rows
      /\ IsFiniteSet(Through(c, a.asOf) \cup a.items)
  BY <1>4, PartFinite DEF IInv, Shape
<1>6. Closing(a) = Sum(Through(c, a.asOf)) + Sum(a.items)
  BY DEF Closing, Told
<1> QED BY <1>2, <1>3, <1>5, <1>6, SumOfTwo

\* The last running balance of the last page is the balance of the account, if nothing
\* was committed between the two queries of that page.
THEOREM StatementsEndAtBalance == Spec => []StatementEndsAtBalance
<1>1. IInv /\ StatementInv => StatementEndsAtBalance
  <2> SUFFICES ASSUME IInv, StatementInv, list = "statement", Ready, ~Shown.more, Shown.quiet
               PROVE  Closing(Shown) = Sum(Shown.asOf)
    BY DEF StatementEndsAtBalance
  <2>1. Told(page.cursor, Shown)
    BY DEF StatementInv, Ready, Shown
  <2>2. Shown.items = After(page.cursor, Shown.asOf)
    BY <2>1 DEF Told, Answers
  <2>3. Through(page.cursor, Shown.asOf) \cup Shown.items = Shown.asOf
    BY <2>2 DEF Through, After
  <2> QED BY <2>1, <2>3, ClosingIs
<1> QED BY Invariance, StatementInvariance, <1>1, PTL

\* A page of a statement starts from the end of the page before it, plus the rows that
\* were committed behind its cursor since.
THEOREM BalancesCarryOver == Spec => []BalanceCarriesOver
<1>1. IInv /\ StatementInv => BalanceCarriesOver
  <2> DEFINE n == Len(trail)
             previous == trail[n]
             from == page.history[Len(page.history)]
             here == page.cursor
             upTo(c, S) == IF c = FirstCursor THEN {} ELSE S \ After(c, S)
             counted == previous.items \cup upTo(from, previous.asOf)
             late == upTo(here, Shown.asOf) \ counted
  <2> SUFFICES ASSUME IInv, StatementInv, list = "statement", Ready, trail # <<>>,
                      previous.asOf \subseteq Shown.asOf
               PROVE  Shown.opening = Closing(previous) + Sum(late)
    BY DEF BalanceCarriesOver
  <2>1. n \in 1..n /\ n = Len(page.history) /\ n \in Nat
    BY DEF IInv, Shape
  <2>2. Told(from, previous) /\ previous.items # {} /\ here = LastRow(previous.items)
    BY <2>1 DEF StatementInv, At
  <2>3. Told(here, Shown)
    BY DEF StatementInv, Ready, Shown
  <2>4. /\ upTo(from, previous.asOf) = Through(from, previous.asOf)
        /\ upTo(here, Shown.asOf) = Through(here, Shown.asOf)
    BY DEF Through
  <2> DEFINE earlier == Through(from, previous.asOf) \cup previous.items
             now == Through(here, Shown.asOf)
  <2>5. /\ Closing(previous) = Sum(earlier)
        /\ previous.items \subseteq previous.asOf \cap After(from, previous.asOf)
    BY <2>2, ClosingIs
  <2>6. previous.items \subseteq rows /\ previous.asOf \subseteq rows /\ Shown.asOf \subseteq rows
    BY <2>2, <2>3, <2>5 DEF Told
  <2>7. here \in previous.items /\ \A q \in previous.items : q = here \/ Before(q, here)
    BY <2>2, <2>6, RowsAreChain, LastIsLast DEF IInv, Shape
  <2>8. here \in rows /\ here # FirstCursor
    BY <2>6, <2>7, FirstIsNoRow DEF IInv, Shape
  <2>9. /\ \A r \in rows : ~Before(r, r)
        /\ \A r, s, t \in rows : Before(r, s) /\ Before(s, t) => Before(r, t)
    BY Order DEF IInv, Shape
  <2>10. now = {r \in Shown.asOf : ~Before(here, r)}
    BY <2>8 DEF Through, After
  <2>11. ASSUME NEW r \in earlier PROVE r \in now
    <3>1. CASE r \in previous.items
      BY <2>5, <2>6, <2>7, <2>8, <2>9, <2>10, <3>1
    <3>2. CASE r \in Through(from, previous.asOf)
      <4>1. from # FirstCursor /\ r \in previous.asOf /\ ~Before(from, r)
        BY <3>2 DEF Through, After
      <4>2. from \in rows /\ Before(from, here)
        BY <2>2, <2>5, <2>7, <4>1 DEF Told, Places, After
      <4> QED BY <2>6, <2>8, <2>9, <2>10, <4>1, <4>2
    <3> QED BY <2>11, <3>1, <3>2
  <2>12. late = now \ earlier
    BY <2>4
  <2>13. now \subseteq rows
    BY <2>6, <2>10
  <2>14. Shown.opening = Sum(now)
    BY <2>3 DEF Told
  <2>15. earlier \cup late = now /\ earlier \cap late = {}
    BY <2>11, <2>12
  <2>16. now \subseteq Rows /\ IsFiniteSet(now)
    BY <2>13, PartFinite DEF IInv, Shape
  <2> HIDE DEF earlier, now, late
  <2>17. Sum(now) = Sum(earlier) + Sum(late)
    BY <2>15, <2>16, SumOfTwo
  <2> QED BY <2>5, <2>14, <2>17
<1> QED BY Invariance, StatementInvariance, <1>1, PTL
===============================================================================
