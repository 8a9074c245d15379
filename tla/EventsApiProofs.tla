-------------------------- MODULE EventsApiProofs --------------------------
(***************************************************************************)
(* The events API for any events, clients and queries: one reader behind   *)
(* the gate, and a traversal that never returns to what it has passed. The *)
(* second rests on the order of (created, id) being total and on the       *)
(* timestamp of a row being fixed before anybody can see the row.          *)
(***************************************************************************)
EXTENDS EventsApi, FiniteSetTheorems, WellFoundedInduction, TLAPS

-----------------------------------------------------------------------------
(* The order of keys.                                                      *)

\* The order of a traversal is a strict total order of keys with different ids.
LEMMA AheadIsTransitive ==
    ASSUME NEW c \in Clients, NEW k \in Keys, NEW l \in Keys, NEW m \in Keys,
           Ahead(c, k, l), Ahead(c, l, m)
    PROVE  Ahead(c, k, m)
  <1>1. k.created \in Nat /\ l.created \in Nat /\ m.created \in Nat
    BY DEF Keys
  <1>2. k.id \in Nat /\ l.id \in Nat /\ m.id \in Nat
    BY EventsApiConstants DEF Keys
  <1> QED
    BY <1>1, <1>2 DEF Ahead, Before

\* It never holds both ways.
LEMMA AheadIsStrict ==
    ASSUME NEW c \in Clients, NEW k \in Keys, NEW l \in Keys, Ahead(c, k, l)
    PROVE  ~Ahead(c, l, k) /\ k # l
  <1>1. k.created \in Nat /\ l.created \in Nat
    BY DEF Keys
  <1>2. k.id \in Nat /\ l.id \in Nat
    BY EventsApiConstants DEF Keys
  <1> QED
    BY <1>1, <1>2 DEF Ahead, Before

\* Two rows are always ordered, by their ids if their timestamps are equal.
LEMMA AheadIsTotal ==
    ASSUME NEW c \in Clients, NEW k \in Keys, NEW l \in Keys, k.id # l.id
    PROVE  Ahead(c, k, l) \/ Ahead(c, l, k)
  <1>1. k.created \in Nat /\ l.created \in Nat
    BY DEF Keys
  <1>2. k.id \in Nat /\ l.id \in Nat
    BY EventsApiConstants DEF Keys
  <1> QED
    BY <1>1, <1>2 DEF Ahead, Before

\* The key of a row is a cursor.
LEMMA KeyType ==
    ASSUME TypeOK, NEW e \in Events
    PROVE  /\ Key(e) \in Keys
           /\ Key(e).id = e
           /\ Key(e).created = created[e]
           /\ Key(e) # None
  <1>1. created[e] \in Nat
    BY DEF TypeOK
  <1>2. Key(e) \in Keys /\ Key(e).id = e /\ Key(e).created = created[e]
    BY <1>1 DEF Key, Keys
  <1> QED
    BY <1>2, EventsApiConstants DEF Keys

\* A set of rows that is not empty has a last one, in any total order: in a
\* smallest set without one, the last of the others and any further row would
\* decide it.
LEMMA FiniteOrderHasLast ==
    ASSUME NEW E, IsFiniteSet(E), NEW R,
           \A x, y, z \in E : <<x, y>> \in R /\ <<y, z>> \in R => <<x, z>> \in R,
           \A x, y \in E : x = y \/ <<x, y>> \in R \/ <<y, x>> \in R,
           NEW S \in SUBSET E, S # {}
    PROVE  \E m \in S : \A e \in S : e = m \/ <<e, m>> \in R
  <1> DEFINE HasLast(T) == \E m \in T : \A e \in T : e = m \/ <<e, m>> \in R
             Bad == {T \in SUBSET E : T # {} /\ ~HasLast(T)}
  <1>1. SUFFICES ASSUME Bad # {} PROVE FALSE
    OBVIOUS
  <1>2. IsWellFoundedOn(StrictSubsetOrdering(E), SUBSET E)
    BY FS_StrictSubsetOrderingWellFounded, FS_FiniteSubsetsOfFinite
  <1>3. PICK T \in Bad : \A U \in Bad : <<U, T>> \notin StrictSubsetOrdering(E)
    <2> HIDE DEF HasLast
    <2>1. Bad \subseteq SUBSET E
      OBVIOUS
    <2> HIDE DEF Bad
    <2> QED
      BY <1>1, <1>2, <2>1, WFMin
  <1>4. T \subseteq E /\ T # {} /\ ~HasLast(T)
    BY <1>3
  <1>5. PICK x \in T : TRUE
    BY <1>4
  <1>6. T \ {x} \notin Bad
    <2>1. <<T \ {x}, T>> \in StrictSubsetOrdering(E)
      BY <1>4, <1>5 DEF StrictSubsetOrdering
    <2> HIDE DEF Bad
    <2> QED
      BY <1>3, <2>1
  <1>7. PICK m \in T \ {x} : \A e \in T \ {x} : e = m \/ <<e, m>> \in R
    BY <1>4, <1>5, <1>6
  <1>8. CASE <<x, m>> \in R
    BY <1>4, <1>5, <1>7, <1>8
  <1>9. CASE <<m, x>> \in R
    <2>1. ASSUME NEW e \in T, e # x PROVE <<e, x>> \in R
      BY <1>4, <1>5, <1>7, <1>9, <2>1
    <2> QED
      BY <1>4, <1>5, <2>1
  <1> QED
    BY <1>4, <1>5, <1>7, <1>8, <1>9

\* Instances of it: the last and the first row of a page.
LEMMA LastExists ==
    ASSUME TypeOK, NEW c \in Clients, NEW S \in SUBSET Events, S # {}
    PROVE  \E m \in S : \A e \in S : e = m \/ Ahead(c, Key(e), Key(m))
  <1> DEFINE Order == {p \in Events \X Events : Ahead(c, Key(p[1]), Key(p[2]))}
  <1>1. PICK R : R = Order
    OBVIOUS
  <1>2. \A x, y \in Events : <<x, y>> \in R <=> Ahead(c, Key(x), Key(y))
    BY <1>1
  <1>3. \A x, y, z \in Events : <<x, y>> \in R /\ <<y, z>> \in R => <<x, z>> \in R
    BY <1>2, KeyType, AheadIsTransitive
  <1>4. \A x, y \in Events : x = y \/ <<x, y>> \in R \/ <<y, x>> \in R
    BY <1>2, KeyType, AheadIsTotal
  <1>5. IsFiniteSet(Events)
    BY EventsApiConstants
  <1>6. \E m \in S : \A e \in S : e = m \/ <<e, m>> \in R
    BY <1>3, <1>4, <1>5, FiniteOrderHasLast
  <1> QED
    BY <1>2, <1>6

\* The converse order has a last element: the first row.
LEMMA FirstExists ==
    ASSUME TypeOK, NEW c \in Clients, NEW S \in SUBSET Events, S # {}
    PROVE  \E m \in S : \A e \in S : e = m \/ Ahead(c, Key(m), Key(e))
  <1> DEFINE Order == {p \in Events \X Events : Ahead(c, Key(p[2]), Key(p[1]))}
  <1>1. PICK R : R = Order
    OBVIOUS
  <1>2. \A x, y \in Events : <<x, y>> \in R <=> Ahead(c, Key(y), Key(x))
    BY <1>1
  <1>3. \A x, y, z \in Events : <<x, y>> \in R /\ <<y, z>> \in R => <<x, z>> \in R
    BY <1>2, KeyType, AheadIsTransitive
  <1>4. \A x, y \in Events : x = y \/ <<x, y>> \in R \/ <<y, x>> \in R
    BY <1>2, KeyType, AheadIsTotal
  <1>5. IsFiniteSet(Events)
    BY EventsApiConstants
  <1>6. \E m \in S : \A e \in S : e = m \/ <<e, m>> \in R
    BY <1>3, <1>4, <1>5, FiniteOrderHasLast
  <1> QED
    BY <1>2, <1>6

\* LastKey is the key of a row of the page, after all others.
LEMMA LastKeyIsLast ==
    ASSUME TypeOK, NEW c \in Clients, NEW S \in SUBSET Events, S # {}
    PROVE  \E m \in S : /\ LastKey(c, S) = Key(m)
                        /\ \A e \in S : e = m \/ Ahead(c, Key(e), Key(m))
  <1>1. PICK m \in S : \A e \in S : e = m \/ Ahead(c, Key(e), Key(m))
    BY LastExists
  <1>2. \E k \in {Key(e) : e \in S} : \A e \in S : e = k.id \/ Ahead(c, Key(e), k)
    BY <1>1, KeyType
  <1>3. /\ LastKey(c, S) \in {Key(e) : e \in S}
        /\ \A e \in S : e = LastKey(c, S).id \/ Ahead(c, Key(e), LastKey(c, S))
    BY <1>2 DEF LastKey
  <1>4. PICK n \in S : LastKey(c, S) = Key(n)
    BY <1>3
  <1>5. LastKey(c, S).id = n
    BY <1>4, KeyType
  <1> QED
    BY <1>3, <1>4, <1>5

-----------------------------------------------------------------------------
(* Types, the page in progress and the gate.                               *)

PageInv == \A c \in Clients : pc[c] = "rows" <=> ids[c] # {}

GateInv ==
    /\ \A c, d \in Clients : pc[c] # "idle" /\ pc[d] # "idle" => c = d
    /\ analyticsActive = TRUE <=> \E c \in Clients : pc[c] # "idle"

\* A page comes from the table: whatever the limits leave out, what they leave
\* is stored, and behind the cursor.
LEMMA PageIsOfTable ==
    ASSUME NEW c \in Clients, NEW e \in BuildEventIdQuery(c)
    PROVE  e \in Events /\ row[e] = "stored" /\ Wanted(c, e) /\ Seek(c, e)
  <1>1. PICK type \in query[c].event : e \in Branch(c, type)
    BY DEF BuildEventIdQuery, First
  <1>2. e \in Events /\ Match(c, type, e)
    BY <1>1 DEF Branch, First
  <1> QED
    BY <1>1, <1>2 DEF Match, Wanted

\* The end of a window is a number, given or taken from the clock.
LEMMA EndOfType ==
    ASSUME TypeOK, NEW c \in Clients
    PROVE  EndOf(c) \in Nat
  <1>1. query[c] \in QueryString
    BY QueriesAreValid DEF TypeOK
  <1>2. query[c].end \in Nat \cup {None}
    BY <1>1 DEF QueryString
  <1> QED
    BY <1>2, EventsApiConstants DEF TypeOK, EndOf

\* The initial states are well typed.
LEMMA TypeInit == Init => TypeOK /\ PageInv
  <1> SUFFICES ASSUME Init PROVE TypeOK /\ PageInv
    OBVIOUS
  <1>1. now \in 1..(MaxTime + 1)
    BY EventsApiConstants DEF Init
  <1>2. analyticsActive \in BOOLEAN
    BY Zenon DEF Init
  <1> QED
    BY <1>1, <1>2 DEF Init, TypeOK, PageInv

\* Steps keep the types; a cursor is taken from a page that is not empty.
LEMMA TypeStep == TypeOK /\ PageInv /\ [Next]_vars => TypeOK'
  <1> SUFFICES ASSUME TypeOK, PageInv, [Next]_vars PROVE TypeOK'
    OBVIOUS
  <1>1. ASSUME NEW c \in Clients, Request(c) PROVE TypeOK'
    BY <1>1, EndOfType DEF Request, TypeOK, table
  <1>2. ASSUME NEW c \in Clients, SelectIds(c) PROVE TypeOK'
    <2>1. BuildEventIdQuery(c) \subseteq Events
      BY PageIsOfTable
    <2>2. FirstDue(c) \subseteq Events
      BY DEF FirstDue
    <2>3. /\ ids' \in [Clients -> SUBSET Events]
          /\ pc' \in [Clients -> {"idle", "ids", "rows"}]
          /\ due' \in [Clients -> SUBSET Events]
      BY <1>2, <2>1, <2>2 DEF SelectIds, TypeOK
    <2>4. analyticsActive' \in BOOLEAN
      BY <1>2, Zenon DEF SelectIds, TypeOK
    <2> QED
      BY <1>2, <2>3, <2>4 DEF SelectIds, TypeOK, table
  <1>3. ASSUME NEW c \in Clients, FetchRows(c) PROVE TypeOK'
    <2>1. ids[c] \subseteq Events /\ ids[c] # {}
      BY <1>3 DEF FetchRows, TypeOK, PageInv
    <2>2. NextCursor(c) \in Keys
      BY <2>1, LastKeyIsLast, KeyType DEF NextCursor
    <2> QED
      BY <1>3, <2>1, <2>2 DEF FetchRows, TypeOK, table
  <1>4. ASSUME NEW c \in Clients, QueryFails(c) PROVE TypeOK'
    BY <1>4 DEF QueryFails, TypeOK, table
  <1>5. ASSUME NEW e \in Events, Insert(e) PROVE TypeOK'
    BY <1>5 DEF Insert, TypeOK
  <1>6. ASSUME NEW e \in Events, Commit(e) PROVE TypeOK'
    BY <1>6 DEF Commit, TypeOK
  <1>7. ASSUME NEW e \in Events, Delete(e) PROVE TypeOK'
    BY <1>7 DEF Delete, TypeOK
  <1>8. CASE Tick
    BY <1>8, EventsApiConstants DEF Tick, TypeOK, table
  <1>9. CASE UNCHANGED vars
    BY <1>9 DEF vars, table, TypeOK
  <1> QED
    BY <1>1, <1>2, <1>3, <1>4, <1>5, <1>6, <1>7, <1>8, <1>9 DEF Next

\* A request between its two queries has a page, any other has none.
LEMMA PageStep == TypeOK /\ PageInv /\ [Next]_vars => PageInv'
  <1> SUFFICES ASSUME TypeOK, PageInv, [Next]_vars PROVE PageInv'
    OBVIOUS
  <1>1. ASSUME NEW c \in Clients, Request(c) \/ SelectIds(c) \/ FetchRows(c) \/ QueryFails(c)
        PROVE  PageInv'
    BY <1>1 DEF Request, SelectIds, FetchRows, QueryFails, PageInv, TypeOK
  <1>2. ASSUME NEW e \in Events, Insert(e) \/ Commit(e) \/ Delete(e) PROVE PageInv'
    BY <1>2 DEF Insert, Commit, Delete, PageInv
  <1>3. CASE Tick \/ UNCHANGED vars
    BY <1>3 DEF Tick, vars, PageInv
  <1> QED
    BY <1>1, <1>2, <1>3 DEF Next

\* At first nobody reads and the gate is open.
LEMMA GateInit == Init => GateInv
  BY DEF Init, GateInv

\* The gate is closed by the one who enters and opened by every way out.
LEMMA GateStep == TypeOK /\ GateInv /\ [Next]_vars => GateInv'
  <1> SUFFICES ASSUME TypeOK, GateInv, [Next]_vars PROVE GateInv'
    OBVIOUS
  <1>1. ASSUME NEW c \in Clients, Request(c) PROVE GateInv'
    BY <1>1 DEF Request, GateInv, TypeOK
  <1>2. ASSUME NEW c \in Clients, SelectIds(c) PROVE GateInv'
    BY <1>2 DEF SelectIds, GateInv, TypeOK
  <1>3. ASSUME NEW c \in Clients, FetchRows(c) \/ QueryFails(c) PROVE GateInv'
    BY <1>3 DEF FetchRows, QueryFails, GateInv, TypeOK
  <1>4. ASSUME NEW e \in Events, Insert(e) \/ Commit(e) \/ Delete(e) PROVE GateInv'
    BY <1>4 DEF Insert, Commit, Delete, GateInv
  <1>5. CASE Tick \/ UNCHANGED vars
    BY <1>5 DEF Tick, vars, GateInv
  <1> QED
    BY <1>1, <1>2, <1>3, <1>4, <1>5 DEF Next

-----------------------------------------------------------------------------
(* What a client has passed.                                               *)

Visible(e) == row[e] \in {"stored", "deleted"}

\* The page in progress lies behind the cursor, what the client has got does
\* not; both are rows whose timestamp no longer changes.
ReadInv ==
    \A c \in Clients :
        /\ \A e \in ids[c] : Visible(e) /\ Seek(c, e)
        /\ \A e \in items[c] : /\ Visible(e)
                               /\ cursor[c] # None
                               /\ ~Ahead(c, cursor[c], Key(e))

\* No step changes the query of a traversal or the key of a row that has been
\* seen.
LEMMA Frame ==
    ASSUME TypeOK, [Next]_vars
    PROVE  /\ query' = query
           /\ \A e \in Events : Visible(e) => Visible(e)' /\ Key(e)' = Key(e)
  <1>1. ASSUME NEW c \in Clients, Request(c) \/ SelectIds(c) \/ FetchRows(c) \/ QueryFails(c)
        PROVE  UNCHANGED <<query, row, created>>
    BY <1>1 DEF Request, SelectIds, FetchRows, QueryFails, table
  <1>2. CASE Tick \/ UNCHANGED vars
    BY <1>2 DEF Tick, vars, table, Visible, Key
  <1>3. ASSUME NEW e \in Events, Insert(e) \/ Commit(e) \/ Delete(e)
        PROVE  /\ query' = query
               /\ \A f \in Events : Visible(f) => Visible(f)' /\ Key(f)' = Key(f)
    BY <1>3 DEF Insert, Commit, Delete, Visible, Key, TypeOK
  <1> QED
    BY <1>1, <1>2, <1>3 DEF Next, Visible, Key

\* The cursor a page leaves: no row of the page lies behind it, and it lies
\* behind the cursor the page was selected with.
LEMMA NextCursorPasses ==
    ASSUME TypeOK, ReadInv, NEW c \in Clients, ids[c] # {}
    PROVE  /\ NextCursor(c) \in Keys /\ NextCursor(c) # None
           /\ \A e \in ids[c] : ~Ahead(c, NextCursor(c), Key(e))
           /\ cursor[c] # None => Ahead(c, cursor[c], NextCursor(c))
  <1>1. ids[c] \subseteq Events
    BY DEF TypeOK
  <1>2. PICK m \in ids[c] : /\ NextCursor(c) = Key(m)
                            /\ \A e \in ids[c] : e = m \/ Ahead(c, Key(e), Key(m))
    BY <1>1, LastKeyIsLast DEF NextCursor
  <1>3. Key(m) \in Keys /\ Key(m) # None
    BY <1>1, KeyType
  <1>4. ASSUME NEW e \in ids[c] PROVE ~Ahead(c, Key(m), Key(e))
    BY <1>1, <1>2, <1>3, KeyType, AheadIsStrict
  <1>5. cursor[c] # None => Ahead(c, cursor[c], Key(m))
    BY <1>2 DEF ReadInv, Seek
  <1> QED
    BY <1>2, <1>3, <1>4, <1>5

\* At first nothing has been passed.
LEMMA ReadInit == Init => ReadInv
  BY DEF Init, ReadInv

\* Steps keep the page ahead of the cursor and what was given behind it.
LEMMA ReadStep == TypeOK /\ PageInv /\ ReadInv /\ [Next]_vars => ReadInv'
  <1> SUFFICES ASSUME TypeOK, PageInv, ReadInv, [Next]_vars, NEW d \in Clients
               PROVE  /\ \A e \in ids'[d] : Visible(e)' /\ Seek(d, e)'
                      /\ \A e \in items'[d] : /\ Visible(e)'
                                              /\ cursor'[d] # None
                                              /\ ~Ahead(d, cursor[d], Key(e))'
    BY DEF ReadInv
  <1>1. /\ query' = query
        /\ \A e \in Events : Visible(e) => Visible(e)' /\ Key(e)' = Key(e)
    BY Frame
  <1>2. ids[d] \subseteq Events /\ items[d] \subseteq Events
    BY DEF TypeOK
  <1>3. CASE ids'[d] = ids[d] /\ items'[d] = items[d] /\ cursor'[d] = cursor[d]
    BY <1>1, <1>2, <1>3 DEF ReadInv, Seek, Ahead
  <1>4. CASE ids'[d] = {} /\ items'[d] = items[d] /\ cursor'[d] = cursor[d]
    BY <1>1, <1>2, <1>4 DEF ReadInv, Ahead
  <1>5. CASE SelectIds(d)
    <2>1. CASE ids'[d] = BuildEventIdQuery(d)
      <3>1. \A e \in BuildEventIdQuery(d) : e \in Events /\ Visible(e) /\ Seek(d, e)
        BY PageIsOfTable DEF Visible
      <3>2. items'[d] = items[d] /\ cursor'[d] = cursor[d]
        BY <1>5 DEF SelectIds
      <3> QED
        BY <1>1, <1>2, <2>1, <3>1, <3>2 DEF ReadInv, Seek, Ahead
    <2> QED
      BY <1>3, <1>5, <2>1 DEF SelectIds, TypeOK
  <1>6. CASE FetchRows(d)
    <2>1. ids[d] # {}
      BY <1>6 DEF FetchRows, PageInv
    <2>2. /\ ids'[d] = {}
          /\ items'[d] = items[d] \cup {e \in ids[d] : row[e] = "stored"}
          /\ cursor'[d] = NextCursor(d)
      BY <1>6 DEF FetchRows, TypeOK
    <2>3. ASSUME NEW e \in items'[d]
          PROVE  Visible(e) /\ e \in Events /\ ~Ahead(d, NextCursor(d), Key(e))
      <3>1. CASE e \in ids[d]
        BY <1>2, <2>1, <3>1, NextCursorPasses DEF ReadInv
      <3>2. CASE e \in items[d]
        <4>1. Visible(e) /\ e \in Events /\ cursor[d] # None /\ ~Ahead(d, cursor[d], Key(e))
          BY <1>2, <3>2 DEF ReadInv
        <4>2. cursor[d] \in Keys /\ Key(e) \in Keys
          BY <4>1, KeyType DEF TypeOK
        <4> QED
          BY <2>1, <4>1, <4>2, NextCursorPasses, AheadIsTransitive
      <3> QED
        BY <2>2, <3>1, <3>2
    <2> QED
      BY <1>1, <2>1, <2>2, <2>3, NextCursorPasses DEF Ahead
  <1>7. ASSUME NEW c \in Clients, Request(c) \/ SelectIds(c) \/ FetchRows(c) \/ QueryFails(c)
        PROVE  \/ ids'[d] \in {ids[d], {}} /\ items'[d] = items[d] /\ cursor'[d] = cursor[d]
               \/ SelectIds(d) \/ FetchRows(d)
    BY <1>7 DEF Request, SelectIds, FetchRows, QueryFails, TypeOK
  <1>8. ASSUME NEW e \in Events, Insert(e) \/ Commit(e) \/ Delete(e)
        PROVE  UNCHANGED <<ids, items, cursor>>
    BY <1>8 DEF Insert, Commit, Delete
  <1>9. CASE Tick \/ UNCHANGED vars
    BY <1>3, <1>9 DEF Tick, vars
  <1> QED
    BY <1>3, <1>4, <1>5, <1>6, <1>7, <1>8, <1>9 DEF Next

-----------------------------------------------------------------------------
(* ORDER BY ... LIMIT n as a set.                                          *)

Earlier(c, e, S) == {f \in S : Ahead(c, Key(f), Key(e))}

\* What comes before a row can be counted.
LEMMA EarlierCount ==
    ASSUME NEW c \in Clients, NEW e \in Events, NEW S \in SUBSET Events
    PROVE  IsFiniteSet(Earlier(c, e, S)) /\ Cardinality(Earlier(c, e, S)) \in Nat
  <1>1. IsFiniteSet(Events) /\ Earlier(c, e, S) \in SUBSET Events
    BY EventsApiConstants DEF Earlier
  <1>2. IsFiniteSet(Earlier(c, e, S))
    BY <1>1, FS_Subset
  <1> QED
    BY <1>2, FS_CardinalityType

\* A larger set of rows before has at least as many of them.
LEMMA EarlierGrows ==
    ASSUME NEW c \in Clients, NEW e \in Events, NEW f \in Events,
           NEW S \in SUBSET Events, NEW T \in SUBSET Events,
           Earlier(c, e, S) \subseteq Earlier(c, f, T)
    PROVE  Cardinality(Earlier(c, e, S)) <= Cardinality(Earlier(c, f, T))
  BY EarlierCount, FS_Subset

\* What comes before a row of the first n is among them.
LEMMA FirstIsPrefix ==
    ASSUME TypeOK, NEW c \in Clients, NEW S \in SUBSET Events, NEW n \in Nat,
           NEW e \in First(c, S, n), NEW f \in S, Ahead(c, Key(f), Key(e))
    PROVE  f \in First(c, S, n)
  <1>1. e \in S /\ e \in Events /\ f \in Events /\ Cardinality(Earlier(c, e, S)) < n
    BY DEF First, Earlier
  <1>2. Earlier(c, f, S) \subseteq Earlier(c, e, S)
    BY <1>1, KeyType, AheadIsTransitive DEF Earlier
  <1>3. Cardinality(Earlier(c, f, S)) < n
    BY <1>1, <1>2, EarlierGrows, EarlierCount
  <1> QED
    BY <1>3 DEF First, Earlier

\* Beyond the first n rows at least one more is selected by a larger limit.
LEMMA FirstGrows ==
    ASSUME TypeOK, NEW c \in Clients, NEW S \in SUBSET Events, NEW n \in Nat, NEW k \in Nat,
           k > n, S # First(c, S, n)
    PROVE  \E e \in First(c, S, k) : e \notin First(c, S, n)
  <1> DEFINE Rest == S \ First(c, S, n)
  <1>1. Rest # {} /\ Rest \in SUBSET Events
    BY DEF First
  <1>2. PICK g \in Rest : \A e \in Rest : e = g \/ Ahead(c, Key(g), Key(e))
    BY <1>1, FirstExists
  <1>3. Earlier(c, g, S) \subseteq First(c, S, n)
    <2> SUFFICES ASSUME NEW f \in S, Ahead(c, Key(f), Key(g)), f \in Rest PROVE FALSE
      BY DEF Earlier
    <2> QED
      BY <1>1, <1>2, KeyType, AheadIsStrict
  <1>4. Cardinality(Earlier(c, g, S)) < k
    <2>1. CASE Earlier(c, g, S) = {}
      BY <2>1, FS_EmptySet
    <2>2. CASE Earlier(c, g, S) # {}
      <3>1. Earlier(c, g, S) \in SUBSET Events
        BY DEF Earlier
      <3>2. PICK m \in Earlier(c, g, S) :
                \A e \in Earlier(c, g, S) : e = m \/ Ahead(c, Key(e), Key(m))
        BY <2>2, <3>1, LastExists
      <3>3. m \in Events /\ Cardinality(Earlier(c, m, S)) < n
        BY <1>3, <3>1, <3>2 DEF First, Earlier
      <3>4. Earlier(c, g, S) \subseteq Earlier(c, m, S) \cup {m}
        BY <3>2 DEF Earlier
      <3>5. /\ IsFiniteSet(Earlier(c, m, S))
            /\ Cardinality(Earlier(c, m, S)) \in Nat
            /\ IsFiniteSet(Earlier(c, m, S) \cup {m})
            /\ Cardinality(Earlier(c, m, S) \cup {m}) <= Cardinality(Earlier(c, m, S)) + 1
        <4>1. IsFiniteSet(Earlier(c, m, S)) /\ Cardinality(Earlier(c, m, S)) \in Nat
          BY <3>3, EarlierCount
        <4>2. /\ IsFiniteSet(Earlier(c, m, S) \cup {m})
              /\ Cardinality(Earlier(c, m, S) \cup {m}) =
                    IF m \in Earlier(c, m, S) THEN Cardinality(Earlier(c, m, S))
                                              ELSE Cardinality(Earlier(c, m, S)) + 1
          BY <4>1, FS_AddElement, Zenon
        <4> QED
          BY <4>1, <4>2
      <3>6. /\ Cardinality(Earlier(c, g, S)) <= Cardinality(Earlier(c, m, S) \cup {m})
            /\ Cardinality(Earlier(c, g, S)) \in Nat
            /\ Cardinality(Earlier(c, m, S) \cup {m}) \in Nat
        BY <1>1, <3>4, <3>5, FS_Subset, FS_CardinalityType, EarlierCount
      <3> QED
        BY <3>3, <3>5, <3>6
    <2> QED
      BY <2>1, <2>2
  <1> QED
    BY <1>2, <1>4 DEF First, Earlier

\* What the query asks for, without any limit.
Plain(c) == {e \in Events : row[e] = "stored" /\ Wanted(c, e) /\ Seek(c, e)}

\* Limit and offset of a valid query are numbers, the limit positive.
LEMMA QueryBounds ==
    ASSUME NEW q \in QueryString
    PROVE  q.limit \in Nat /\ q.limit >= 1 /\ q.start \in Nat
  <1>1. PICK limit : limit = q.limit
    OBVIOUS
  <1>2. PICK start : start = q.start
    OBVIOUS
  <1>3. limit \in 1..300
    BY <1>1 DEF QueryString
  <1>4. start \in 0..10000
    BY <1>2 DEF QueryString
  <1>5. limit \in Nat /\ limit >= 1
    BY <1>3
  <1>6. start \in Nat
    BY <1>4
  <1> QED
    BY <1>1, <1>2, <1>5, <1>6

\* So they are for every client.
LEMMA QueryType ==
    ASSUME TypeOK, NEW c \in Clients
    PROVE  /\ query[c].limit \in Nat /\ query[c].limit >= 1
           /\ query[c].start \in Nat
           /\ Offset(c) \in Nat
  <1>1. query[c] \in QueryString
    BY QueriesAreValid DEF TypeOK
  <1>2. query[c].limit \in Nat /\ query[c].limit >= 1 /\ query[c].start \in Nat
    BY <1>1, QueryBounds
  <1> QED
    BY <1>2 DEF Offset

\* Limiting every branch before the union loses nothing of the page: the
\* earliest row that a branch cuts off has a full page of rows before it, and
\* none of those was cut off.
LEMMA BranchesSuffice ==
    ASSUME TypeOK, NEW c \in Clients, NEW n \in Nat, n <= Offset(c) + query[c].limit
    PROVE  First(c, UNION {Branch(c, type) : type \in query[c].event}, n) = First(c, Plain(c), n)
  <1> DEFINE N == Offset(c) + query[c].limit
             Of(type) == {e \in Events : Match(c, type, e)}
             U == UNION {Branch(c, type) : type \in query[c].event}
             P == Plain(c)
  <1>1. N \in Nat /\ n <= N
    BY QueryType
  <1>2. P \in SUBSET Events /\ U \subseteq P
    BY DEF Plain, Branch, First, Match, Wanted
  <1>3. U \in SUBSET Events
    BY <1>2
  <1>4. CASE P = U
    BY <1>4
  <1>5. CASE P # U
    <2>1. P \ U # {} /\ P \ U \in SUBSET Events
      BY <1>2, <1>5
    <2> HIDE DEF U, P
    <2>2. PICK g \in P \ U : \A e \in P \ U : e = g \/ Ahead(c, Key(g), Key(e))
      BY <2>1, FirstExists
    <2>3. g \in Events
      BY <1>2, <2>2
    <2>4. Earlier(c, g, P) \subseteq U
      BY <1>2, <2>2, <2>3, KeyType, AheadIsStrict DEF Earlier
    <2>5. Cardinality(Earlier(c, g, P)) >= N
      <3>1. PICK type \in query[c].event : Match(c, type, g)
        BY <2>2, <2>3 DEF P, Plain, Match, Wanted
      <3>2. g \in Of(type) /\ g \notin Branch(c, type) /\ Of(type) \in SUBSET Events
        BY <2>2, <2>3, <3>1 DEF U
      <3>3. Of(type) \subseteq P
        BY DEF P, Plain, Match, Wanted
      <3>4. ~(Cardinality(Earlier(c, g, Of(type))) < N)
        BY <3>2 DEF Branch, First, Earlier
      <3>5. Earlier(c, g, Of(type)) \subseteq Earlier(c, g, P)
        BY <3>3 DEF Earlier
      <3> HIDE DEF N, Of
      <3> QED
        BY <1>1, <1>2, <2>3, <3>2, <3>4, <3>5, EarlierGrows, EarlierCount
    <2>6. ASSUME NEW e \in P, NEW T \in {U, P}, e = g \/ Ahead(c, Key(g), Key(e))
          PROVE  ~(Cardinality(Earlier(c, e, T)) < n)
      <3>1. e \in Events /\ T \in SUBSET Events
        BY <1>2, <1>3
      <3>2. Earlier(c, g, P) \subseteq Earlier(c, e, T)
        BY <1>2, <2>3, <2>4, <2>6, <3>1, KeyType, AheadIsTransitive DEF Earlier
      <3>3. Cardinality(Earlier(c, g, P)) <= Cardinality(Earlier(c, e, T))
        BY <1>2, <2>3, <3>1, <3>2, EarlierGrows
      <3> HIDE DEF N
      <3> QED
        BY <1>1, <1>2, <2>3, <2>5, <3>1, <3>3, EarlierCount
    <2>7. ASSUME NEW e \in P, ~(e = g \/ Ahead(c, Key(g), Key(e)))
          PROVE  e \in U /\ Earlier(c, e, U) = Earlier(c, e, P)
      <3>1. e \in U
        BY <2>2, <2>7
      <3>2. ASSUME NEW f \in P, Ahead(c, Key(f), Key(e)) PROVE f \in U
        <4>1. SUFFICES ASSUME f \notin U PROVE FALSE
          OBVIOUS
        <4>2. f = g \/ Ahead(c, Key(g), Key(f))
          BY <2>2, <4>1
        <4> QED
          BY <1>2, <2>3, <2>7, <3>2, <4>2, KeyType, AheadIsTransitive
      <3> QED
        BY <1>2, <3>1, <3>2 DEF Earlier
    <2>8. First(c, U, n) \subseteq First(c, P, n)
      BY <1>2, <2>6, <2>7 DEF First, Earlier
    <2>9. First(c, P, n) \subseteq First(c, U, n)
      BY <1>2, <2>6, <2>7 DEF First, Earlier
    <2>10. First(c, U, n) = First(c, P, n)
      BY <2>8, <2>9
    <2> QED
      BY <2>10 DEF U, P
  <1> QED
    BY <1>4, <1>5

\* The page is what the plain query has between the offset and the limit.
LEMMA PageIsPlain ==
    ASSUME TypeOK, NEW c \in Clients
    PROVE  BuildEventIdQuery(c) =
               First(c, Plain(c), Offset(c) + query[c].limit) \ First(c, Plain(c), Offset(c))
  <1>1. /\ Offset(c) \in Nat /\ Offset(c) + query[c].limit \in Nat
        /\ Offset(c) <= Offset(c) + query[c].limit
        /\ Offset(c) + query[c].limit <= Offset(c) + query[c].limit
    BY QueryType
  <1> QED
    BY <1>1, BranchesSuffice DEF BuildEventIdQuery

-----------------------------------------------------------------------------
(* The window moves forward only.                                          *)

WindowInv ==
    \A c \in Clients :
        /\ end[c] <= EndOf(c)
        /\ cursor[c] # None => cursor[c].created < end[c]
        /\ \A e \in ids[c] : created[e] < end[c]

\* At first every window is empty.
LEMMA WindowInit == Init => WindowInv
  <1> SUFFICES ASSUME Init, NEW c \in Clients PROVE end[c] <= EndOf(c)
    BY DEF Init, WindowInv
  <1>1. EndOf(c) \in Nat
    BY TypeInit, EndOfType
  <1>2. end[c] = 0
    BY DEF Init
  <1> QED
    BY <1>1, <1>2

\* A window only grows, and pages are taken from within.
LEMMA WindowStep == TypeOK /\ TypeOK' /\ PageInv /\ ReadInv /\ WindowInv /\ [Next]_vars => WindowInv'
  <1> SUFFICES ASSUME TypeOK, TypeOK', PageInv, ReadInv, WindowInv, [Next]_vars, NEW d \in Clients
               PROVE  /\ end'[d] <= EndOf(d)'
                      /\ cursor'[d] # None => cursor'[d].created < end'[d]
                      /\ \A e \in ids'[d] : created'[e] < end'[d]
    BY DEF WindowInv
  <1>1. /\ query' = query
        /\ \A e \in Events : Visible(e) => Key(e)' = Key(e)
    BY Frame
  <1>2. ids[d] \subseteq Events
    BY DEF TypeOK
  <1>3. \A e \in Events : Visible(e) => created'[e] = created[e]
    BY <1>1 DEF Key
  <1>4. EndOf(d) \in Nat /\ EndOf(d)' \in Nat /\ end[d] \in Nat
    <2>1. EndOf(d)' \in Nat
      <3>1. query'[d].end \in Nat \cup {None}
        <4>1. query'[d] \in QueryString
          BY QueriesAreValid DEF TypeOK
        <4> QED
          BY <4>1 DEF QueryString
      <3> QED
        BY <3>1 DEF TypeOK, EndOf
    <2> QED
      BY <2>1, EndOfType DEF TypeOK
  <1>5. EndOf(d) <= EndOf(d)'
    <2>1. now' \in {now, now + 1} /\ now \in Nat
      BY DEF Next, Request, SelectIds, FetchRows, QueryFails, Insert, Commit, Delete, Tick, vars, TypeOK
    <2> QED
      BY <1>1, <1>4, <2>1 DEF EndOf
  <1>6. CASE Request(d)
    <2>1. end'[d] = EndOf(d) /\ cursor'[d] = cursor[d] /\ ids'[d] = {}
      BY <1>6 DEF Request, TypeOK, PageInv
    <2>2. cursor[d] # None => cursor[d].created \in Nat
      BY DEF TypeOK, Keys
    <2> QED
      BY <1>4, <1>5, <2>1, <2>2 DEF WindowInv
  <1>7. CASE end'[d] = end[d]
    <2>1. end'[d] <= EndOf(d)'
      BY <1>4, <1>5, <1>7 DEF WindowInv
    <2>2. CASE ids'[d] = BuildEventIdQuery(d) /\ cursor'[d] = cursor[d]
      BY <1>3, <1>7, <2>1, <2>2, PageIsOfTable DEF WindowInv, Wanted, InWindow, Visible
    <2>3. CASE FetchRows(d)
      <3>1. ids[d] # {} /\ ids'[d] = {} /\ cursor'[d] = NextCursor(d)
        BY <2>3 DEF FetchRows, PageInv, TypeOK
      <3>2. PICK m \in ids[d] : NextCursor(d) = Key(m)
        BY <1>2, <3>1, LastKeyIsLast DEF NextCursor
      <3>3. Key(m).created = created[m]
        BY <1>2, KeyType
      <3> QED
        BY <1>7, <2>1, <3>1, <3>2, <3>3 DEF WindowInv
    <2>4. CASE ids'[d] \in {ids[d], {}} /\ cursor'[d] = cursor[d]
      BY <1>2, <1>3, <1>7, <2>1, <2>4 DEF WindowInv, ReadInv
    <2> QED
      <3>1. ASSUME NEW c \in Clients, Request(c) \/ SelectIds(c) \/ FetchRows(c) \/ QueryFails(c)
            PROVE  \/ ids'[d] \in {ids[d], {}} /\ cursor'[d] = cursor[d]
                   \/ ids'[d] = BuildEventIdQuery(d) /\ cursor'[d] = cursor[d]
                   \/ FetchRows(d)
        BY <3>1 DEF Request, SelectIds, FetchRows, QueryFails, TypeOK
      <3>2. ASSUME NEW e \in Events, Insert(e) \/ Commit(e) \/ Delete(e) PROVE UNCHANGED <<ids, cursor>>
        BY <3>2 DEF Insert, Commit, Delete
      <3>3. CASE Tick \/ UNCHANGED vars
        BY <3>3, <2>4 DEF Tick, vars
      <3> QED
        BY <2>2, <2>3, <2>4, <3>1, <3>2, <3>3 DEF Next
  <1>8. Request(d) \/ end'[d] = end[d]
    BY DEF Next, Request, SelectIds, FetchRows, QueryFails, Insert, Commit, Delete, Tick, vars, TypeOK
  <1> QED
    BY <1>6, <1>7, <1>8

-----------------------------------------------------------------------------
(* What is still ahead of a client.                                        *)

\* What a request of the traversal may ask for, now or when its window has
\* grown.
Eligible(c, e) ==
    /\ TypeOf[e] \in query[c].event
    /\ SiteOf[e] = query[c].siteId
    /\ query[c].begin < created[e]
    /\ query[c].end # None => created[e] < query[c].end

\* Row e comes after the page in progress, or after the cursor.
Behind(c, e) ==
    IF ids[c] # {} THEN \A f \in ids[c] : Ahead(c, Key(f), Key(e))
                   ELSE cursor[c] # None => Ahead(c, cursor[c], Key(e))

DueInv ==
    \A c \in Clients : \A e \in due[c] :
        /\ Visible(e)
        /\ row[e] = "stored" /\ Eligible(c, e) => e \in items[c] \/ e \in ids[c] \/ Behind(c, e)

\* LIMIT 0 selects nothing.
LEMMA FirstOfNone ==
    ASSUME NEW c \in Clients, NEW S \in SUBSET Events
    PROVE  First(c, S, 0) = {}
  <1> SUFFICES ASSUME NEW e \in S, Cardinality(Earlier(c, e, S)) < 0 PROVE FALSE
    BY DEF First, Earlier
  <1> QED
    BY EarlierCount

\* What is in the window now is what the traversal may ask for.
LEMMA WantedIsEligible ==
    ASSUME TypeOK, WindowInv, NEW c \in Clients, NEW e \in Events, Wanted(c, e)
    PROVE  Eligible(c, e)
  <1>1. end[c] <= EndOf(c) /\ end[c] \in Nat /\ created[e] \in Nat
    BY DEF WindowInv, TypeOK
  <1>2. EndOf(c) \in Nat
    BY EndOfType
  <1> QED
    BY <1>1, <1>2 DEF Wanted, InWindow, Eligible, EndOf

\* A page that is not empty leaves nothing between the place the client had
\* read up to and the page's own rows.
LEMMA PageLeavesNoGap ==
    ASSUME TypeOK, ReadInv, WindowInv, NEW c \in Clients,
           NEW e \in Events, row[e] = "stored", Eligible(c, e), e \notin BuildEventIdQuery(c),
           \/ cursor[c] # None /\ Ahead(c, cursor[c], Key(e))
           \/ cursor[c] = None /\ e \in FirstDue(c),
           NEW f \in BuildEventIdQuery(c)
    PROVE  Ahead(c, Key(f), Key(e))
  <1> DEFINE N == Offset(c) + query[c].limit
  <1>1. /\ N \in Nat /\ Offset(c) \in Nat
        /\ Plain(c) \in SUBSET Events
    BY QueryType DEF Plain
  <1>2. /\ f \in Events /\ created[f] \in Nat /\ created[e] \in Nat /\ end[c] \in Nat
        /\ created[f] < end[c]
    BY PageIsOfTable DEF Wanted, InWindow, TypeOK
  <1>3. Key(e) \in Keys /\ Key(f) \in Keys /\ Key(e).id = e /\ Key(f).id = f
        /\ Key(e).created = created[e] /\ Key(f).created = created[f]
    BY <1>2, KeyType
  <1>4. CASE e \in Plain(c) /\ e \notin First(c, Plain(c), Offset(c))
    <2> HIDE DEF N
    <2>1. f \in First(c, Plain(c), N) /\ e \notin First(c, Plain(c), N)
      BY <1>4, PageIsPlain DEF N
    <2>2. ~Ahead(c, Key(e), Key(f)) /\ e # f
      BY <1>1, <1>4, <2>1, FirstIsPrefix
    <2> QED
      BY <1>3, <2>2, AheadIsTotal
  <1>5. CASE cursor[c] = None
    <2>1. e \in FirstDue(c) /\ Offset(c) = query[c].start
      BY <1>5 DEF Offset
    <2>2. Plain(c) = {g \in Events : row[g] = "stored" /\ Wanted(c, g)}
      BY <1>5 DEF Plain, Seek
    <2> QED
      BY <1>4, <2>1, <2>2 DEF FirstDue
  <1>6. CASE cursor[c] # None /\ created[e] < end[c]
    <2>1. e \in Plain(c)
      BY <1>6 DEF Plain, Wanted, InWindow, Seek, Eligible
    <2>2. First(c, Plain(c), Offset(c)) = {}
      BY <1>1, <1>6, FirstOfNone DEF Offset
    <2> QED
      BY <1>4, <2>1, <2>2
  <1>7. CASE cursor[c] # None /\ ~(created[e] < end[c])
    <2>1. cursor[c].created < end[c] /\ cursor[c].created \in Nat
      BY <1>7 DEF WindowInv, TypeOK, Keys
    <2>2. Ahead(c, cursor[c], Key(e))
      BY <1>7
    <2>3. query[c].order = "asc"
      BY <1>2, <1>3, <1>7, <2>1, <2>2 DEF Ahead, Before
    <2> QED
      BY <1>2, <1>3, <1>7, <2>3 DEF Ahead, Before
  <1> QED
    BY <1>5, <1>6, <1>7

\* At first nothing is due.
LEMMA DueInit == Init => DueInv
  BY DEF Init, DueInv

\* What is due stays given, on the page or ahead, whatever fails or is deleted.
LEMMA DueStep ==
    TypeOK /\ PageInv /\ ReadInv /\ WindowInv /\ DueInv /\ [Next]_vars => DueInv'
  <1> SUFFICES ASSUME TypeOK, PageInv, ReadInv, WindowInv, DueInv, [Next]_vars,
                      NEW d \in Clients, NEW e \in due'[d]
               PROVE  /\ Visible(e)'
                      /\ row'[e] = "stored" /\ Eligible(d, e)' =>
                            e \in items'[d] \/ e \in ids'[d] \/ Behind(d, e)'
    BY DEF DueInv
  <1>1. /\ query' = query
        /\ \A f \in Events : Visible(f) => Visible(f)' /\ Key(f)' = Key(f)
    BY Frame
  <1>2. ids[d] \subseteq Events /\ items[d] \subseteq Events /\ due[d] \subseteq Events
    BY DEF TypeOK
  <1>3. \A f \in Events : Visible(f) => created'[f] = created[f]
    BY <1>1 DEF Key
  <1>4. \A f \in Events : Visible(f) /\ row'[f] = "stored" => row[f] = "stored"
    BY DEF Visible, Next, Request, SelectIds, FetchRows, QueryFails, Insert, Commit, Delete, Tick,
           vars, table, TypeOK
  <1>5. \A f \in Events : Visible(f) /\ Eligible(d, f)' => Eligible(d, f)
    BY <1>1, <1>3 DEF Eligible
  <1>6. e \in due[d] => e \in Events /\ Visible(e) /\ Visible(e)'
    BY <1>1, <1>2 DEF DueInv
  <1>7. CASE e \in due[d] /\ ids'[d] = ids[d] /\ items'[d] = items[d] /\ cursor'[d] = cursor[d]
    <2>1. \A f \in ids[d] : Key(f)' = Key(f)
      BY <1>1, <1>2 DEF ReadInv
    <2>2. Key(e)' = Key(e)
      BY <1>1, <1>6, <1>7
    <2>3. Behind(d, e) => Behind(d, e)'
      BY <1>1, <1>7, <2>1, <2>2 DEF Behind, Ahead
    <2> QED
      BY <1>4, <1>5, <1>6, <1>7, <2>3 DEF DueInv
  <1>8. CASE SelectIds(d)
    <2>1. /\ ids[d] = {} /\ items'[d] = items[d] /\ cursor'[d] = cursor[d]
          /\ UNCHANGED <<row, created>>
      BY <1>8 DEF SelectIds, PageInv, TypeOK, table
    <2>2. \/ cursor[d] # None /\ e \in due[d]
          \/ cursor[d] = None /\ e \in FirstDue(d)
      BY <1>8 DEF SelectIds, TypeOK
    <2>3. e \in Events /\ Visible(e) /\ Visible(e)'
      BY <1>1, <1>6, <2>2 DEF FirstDue, Visible
    <2>4. CASE ids'[d] = BuildEventIdQuery(d) /\ BuildEventIdQuery(d) # {}
      <3> SUFFICES ASSUME row[e] = "stored", Eligible(d, e),
                          e \notin items[d], e \notin BuildEventIdQuery(d),
                          NEW f \in BuildEventIdQuery(d)
                   PROVE  Ahead(d, Key(f), Key(e))'
        BY <1>4, <1>5, <2>1, <2>3, <2>4 DEF Behind
      <3>1. \/ cursor[d] # None /\ Ahead(d, cursor[d], Key(e))
            \/ cursor[d] = None /\ e \in FirstDue(d)
        BY <2>1, <2>2 DEF DueInv, Behind
      <3>2. Ahead(d, Key(f), Key(e))
        BY <2>3, <3>1, PageLeavesNoGap
      <3> QED
        BY <1>1, <2>1, <3>2 DEF Ahead, Key
    <2>5. CASE ids'[d] = ids[d]
      <3>1. CASE cursor[d] = None
        BY <2>1, <2>3, <2>5, <3>1 DEF Behind
      <3>2. CASE cursor[d] # None
        BY <1>7, <2>1, <2>2, <2>5, <3>2
      <3> QED
        BY <3>1, <3>2
    <2> QED
      BY <1>8, <2>4, <2>5 DEF SelectIds, TypeOK
  <1>9. CASE FetchRows(d)
    <2>1. /\ ids[d] # {} /\ ids'[d] = {}
          /\ items'[d] = items[d] \cup {f \in ids[d] : row[f] = "stored"}
          /\ cursor'[d] = NextCursor(d)
          /\ due'[d] = due[d]
          /\ UNCHANGED <<row, created>>
      BY <1>9 DEF FetchRows, PageInv, TypeOK, table
    <2>2. PICK m \in ids[d] : NextCursor(d) = Key(m)
      BY <1>2, <2>1, LastKeyIsLast DEF NextCursor
    <2> SUFFICES ASSUME row[e] = "stored", Eligible(d, e), e \notin items[d], e \notin ids[d]
                 PROVE  Ahead(d, cursor[d], Key(e))'
      BY <1>4, <1>5, <1>6, <2>1 DEF Behind
    <2>3. Ahead(d, Key(m), Key(e))
      BY <2>1, <2>2 DEF DueInv, Behind
    <2> QED
      BY <1>1, <2>1, <2>2, <2>3 DEF Ahead, Key
  <1>10. CASE QueryFails(d)
    <2>1. /\ ids'[d] = {} /\ items'[d] = items[d] /\ cursor'[d] = cursor[d] /\ due'[d] = due[d]
          /\ UNCHANGED <<row, created>>
      BY <1>10 DEF QueryFails, TypeOK, table
    <2>2. CASE ids[d] = {}
      BY <1>7, <2>1, <2>2
    <2>3. CASE ids[d] # {}
      <3> SUFFICES ASSUME row[e] = "stored", Eligible(d, e), e \notin items[d], cursor[d] # None
                   PROVE  Ahead(d, cursor[d], Key(e))'
        BY <1>4, <1>5, <1>6, <2>1 DEF Behind
      <3>1. Ahead(d, cursor[d], Key(e))
        <4>1. CASE e \in ids[d]
          BY <4>1 DEF ReadInv, Seek
        <4>2. CASE e \notin ids[d]
          <5>1. PICK f \in ids[d] : Ahead(d, Key(f), Key(e)) /\ Ahead(d, cursor[d], Key(f))
            BY <2>1, <2>3, <4>2 DEF DueInv, Behind, ReadInv, Seek
          <5>2. Key(f) \in Keys /\ Key(e) \in Keys /\ cursor[d] \in Keys
            BY <1>2, <1>6, <2>1, KeyType DEF TypeOK
          <5> QED
            BY <5>1, <5>2, AheadIsTransitive
        <4> QED
          BY <4>1, <4>2
      <3> QED
        BY <1>1, <2>1, <3>1 DEF Ahead, Key
    <2> QED
      BY <2>2, <2>3
  <1>11. ASSUME NEW g \in Events, Commit(g), e \notin due[d]
         PROVE  e = g /\ Visible(e)' /\ Behind(d, e)'
    <2>1. /\ e = g /\ ~Passed(d, g) /\ row'[g] = "stored"
          /\ UNCHANGED <<ids, cursor, created>>
      BY <1>11 DEF Commit, TypeOK
    <2>2. Behind(d, g)
      <3>1. CASE ids[d] = {}
        BY <2>1, <3>1 DEF Passed, Behind
      <3>2. CASE ids[d] # {}
        <4>1. Ahead(d, LastKey(d, ids[d]), Key(g))
          BY <2>1, <3>2 DEF Passed
        <4>2. PICK m \in ids[d] : /\ LastKey(d, ids[d]) = Key(m)
                                  /\ \A f \in ids[d] : f = m \/ Ahead(d, Key(f), Key(m))
          BY <1>2, <3>2, LastKeyIsLast
        <4> QED
          BY <1>2, <3>2, <4>1, <4>2, KeyType, AheadIsTransitive DEF Behind
      <3> QED
        BY <3>1, <3>2
    <2> QED
      BY <1>1, <2>1, <2>2 DEF Visible, Behind, Ahead, Key
  <1>12. ASSUME NEW c \in Clients, Request(c) \/ SelectIds(c) \/ FetchRows(c) \/ QueryFails(c)
         PROVE  \/ e \in due[d] /\ ids'[d] = ids[d] /\ items'[d] = items[d] /\ cursor'[d] = cursor[d]
                \/ SelectIds(d) \/ FetchRows(d) \/ QueryFails(d)
    BY <1>12 DEF Request, SelectIds, FetchRows, QueryFails, TypeOK
  <1>13. ASSUME NEW g \in Events, Insert(g) \/ Commit(g) \/ Delete(g)
         PROVE  /\ UNCHANGED <<ids, items, cursor>>
                /\ e \in due[d] \/ Commit(g)
    BY <1>13 DEF Insert, Commit, Delete
  <1>14. CASE Tick \/ UNCHANGED vars
    BY <1>7, <1>14 DEF Tick, vars
  <1> QED
    BY <1>7, <1>8, <1>9, <1>10, <1>11, <1>12, <1>13, <1>14 DEF Next

-----------------------------------------------------------------------------
(* The theorems.                                                           *)

IndInv == TypeOK /\ PageInv /\ GateInv /\ ReadInv /\ WindowInv /\ DueInv

\* The parts together are inductive.
LEMMA Inductive == Spec => []IndInv
  <1>1. Init => IndInv
    BY TypeInit, GateInit, ReadInit, WindowInit, DueInit DEF IndInv
  <1>2. IndInv /\ [Next]_vars => IndInv'
    BY TypeStep, PageStep, GateStep, ReadStep, WindowStep, DueStep DEF IndInv
  <1> QED
    BY <1>1, <1>2, PTL DEF Spec

\* Every variable keeps its type, in particular a cursor is the key of a row.
THEOREM TypeCorrect == Spec => []TypeOK
  <1>1. IndInv => TypeOK
    BY DEF IndInv
  <1> QED
    BY <1>1, Inductive, PTL

\* One analytics read per process, and the gate is open whenever nobody reads.
THEOREM GateIsSound == Spec => []OneReaderBehindGate
  <1>1. IndInv => OneReaderBehindGate
    <2> SUFFICES ASSUME TypeOK, GateInv PROVE OneReaderBehindGate
      BY DEF IndInv
    <2> DEFINE reading == {c \in Clients : pc[c] # "idle"}
    <2>1. CASE reading = {}
      <3>1. Cardinality(reading) = 0
        BY <2>1, FS_EmptySet
      <3>2. analyticsActive = FALSE
        BY <2>1, Zenon DEF GateInv, TypeOK
      <3>3. Cardinality(reading) <= 1
        BY <3>1
      <3>4. analyticsActive = (reading # {})
        BY <2>1, <3>2, Zenon
      <3> QED
        BY <3>3, <3>4, Zenon DEF OneReaderBehindGate
    <2>2. CASE reading # {}
      <3>1. PICK c \in reading : reading = {c}
        BY <2>2 DEF GateInv
      <3>2. Cardinality(reading) = 1
        BY <3>1, FS_Singleton
      <3>3. analyticsActive = TRUE
        BY <2>2 DEF GateInv
      <3>4. Cardinality(reading) <= 1
        BY <3>2
      <3>5. analyticsActive = (reading # {})
        BY <2>2, <3>3, Zenon
      <3> QED
        BY <3>4, <3>5, Zenon DEF OneReaderBehindGate
    <2> QED
      BY <2>1, <2>2
  <1> QED
    BY <1>1, Inductive, PTL

\* No page repeats what the client has been given, for any events, queries and
\* interleaving with commits and deletions.
THEOREM NoRepeats == Spec => []PagesDoNotRepeat
  <1>1. IndInv => PagesDoNotRepeat
    BY DEF IndInv, ReadInv, Seek, PagesDoNotRepeat
  <1> QED
    BY <1>1, Inductive, PTL

\* A traversal that finds no further ids has got everything that was ahead of
\* it, for any events, limits and offsets.
THEOREM NothingSkipped == Spec => []NoneSkipped
  <1>1. IndInv => NoneSkipped
    <2> SUFFICES ASSUME TypeOK, PageInv, WindowInv, DueInv, NEW c \in Clients,
                        pc[c] = "ids", BuildEventIdQuery(c) = {},
                        NEW e \in (IF cursor[c] = None THEN FirstDue(c) ELSE due[c]),
                        row[e] = "stored", Wanted(c, e), e \notin items[c]
                 PROVE  FALSE
      BY DEF IndInv, NoneSkipped
    <2>1. ids[c] = {}
      BY DEF PageInv
    <2>2. /\ Offset(c) \in Nat /\ Offset(c) + query[c].limit \in Nat
          /\ Offset(c) + query[c].limit > Offset(c)
          /\ Plain(c) \in SUBSET Events
      BY QueryType DEF Plain
    <2>3. Plain(c) = First(c, Plain(c), Offset(c))
      BY <2>2, PageIsPlain, FirstGrows
    <2>4. CASE cursor[c] = None
      <3>1. Plain(c) = {g \in Events : row[g] = "stored" /\ Wanted(c, g)}
        BY <2>4 DEF Plain, Seek
      <3> QED
        BY <2>3, <2>4, <3>1 DEF FirstDue, Offset
    <2>5. CASE cursor[c] # None
      <3>1. e \in due[c] /\ e \in Events
        BY <2>5 DEF TypeOK
      <3>2. Ahead(c, cursor[c], Key(e))
        BY <2>1, <2>5, <3>1, WantedIsEligible DEF DueInv, Behind
      <3>3. e \in Plain(c)
        BY <3>1, <3>2 DEF Plain, Seek
      <3> QED
        BY <2>2, <2>3, <2>5, <3>3, FirstOfNone DEF Offset
    <2> QED
      BY <2>4, <2>5
  <1> QED
    BY <1>1, Inductive, PTL

=============================================================================
