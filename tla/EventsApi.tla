----------------------------- MODULE EventsApi -----------------------------
(***************************************************************************)
(* GET /v3/{siteId}/events: Ghost reads the stored events page by page,    *)
(* following paging.next, while ingestion stores new events and retention  *)
(* deletes old ones. A page is read in two queries, the ids first and the  *)
(* payloads after them, without a transaction; the next page starts behind *)
(* the last id selected, in the order of (created, id). One read at a time *)
(* is admitted to the process.                                             *)
(***************************************************************************)
EXTENDS Naturals, FiniteSets

CONSTANTS
    Events,   \* rows of NewsletterNotifications, by id: ids are ordered
    TypeOf,   \* the type column
    SiteOf,   \* the site of the row's e-mail, through its batch
    Clients,  \* readers, each on a traversal of its own
    Queries,  \* the query strings a traversal may start with
    None,
    MaxTime   \* bound: the clock

QueryString ==
    [siteId : {SiteOf[e] : e \in Events}, event : SUBSET {TypeOf[e] : e \in Events},
     begin : Nat, end : Nat \cup {None}, order : {"asc", "desc"},
     limit : 1..300, start : 0..10000]

ASSUME EventsApiConstants ==
    /\ Events \subseteq Nat /\ IsFiniteSet(Events)
    /\ None \notin Nat
    /\ None \notin [created : Nat, id : Events]
    /\ MaxTime \in Nat

ASSUME QueriesAreValid == Queries \subseteq QueryString

VARIABLES
    now,              \* the clock of database and process, in milliseconds
    row,              \* each event's row: absent, inserted, stored or deleted
    created,          \* the created column
    analyticsActive,  \* the gate of the process
    pc,               \* where each client's request is
    query,            \* the query string of each traversal
    end,              \* the end of the window of each client's last request
    cursor,           \* the cursor in paging.next, None on the first page
    ids,              \* the ids selected for the page in progress
    items,            \* history: what the client got on this traversal
    due               \* history: what was ahead of the client when it was there

table == <<row, created>>
vars == <<now, table, analyticsActive, pc, query, end, cursor, ids, items, due>>

Key(e) == [created |-> created[e], id |-> e]
Keys == [created : Nat, id : Events]

TypeOK ==
    /\ now \in 1..(MaxTime + 1)
    /\ row \in [Events -> {"absent", "inserted", "stored", "deleted"}]
    /\ created \in [Events -> Nat]
    /\ analyticsActive \in BOOLEAN
    /\ pc \in [Clients -> {"idle", "ids", "rows"}]
    /\ query \in [Clients -> Queries]
    /\ end \in [Clients -> Nat]
    /\ cursor \in [Clients -> Keys \cup {None}]
    /\ ids \in [Clients -> SUBSET Events]
    /\ items \in [Clients -> SUBSET Events]
    /\ due \in [Clients -> SUBSET Events]

Init ==
    /\ now = 1
    /\ row = [e \in Events |-> "absent"]
    /\ created = [e \in Events |-> 0]
    /\ analyticsActive = FALSE
    /\ pc = [c \in Clients |-> "idle"]
    /\ query \in [Clients -> Queries]
    /\ end = [c \in Clients |-> 0]
    /\ cursor = [c \in Clients |-> None]
    /\ ids = [c \in Clients |-> {}]
    /\ items = [c \in Clients |-> {}]
    /\ due = [c \in Clients |-> {}]

-----------------------------------------------------------------------------
(* The order of a traversal.                                               *)

Before(k, l) == k.created < l.created \/ (k.created = l.created /\ k.id < l.id)

\* k comes earlier than l in client c's order.
Ahead(c, k, l) == IF query[c].order = "asc" THEN Before(k, l) ELSE Before(l, k)

\* ORDER BY created, id LIMIT n over a set of rows.
First(c, S, n) == {e \in S : Cardinality({f \in S : Ahead(c, Key(f), Key(e))}) < n}

\* The key of the row that comes last in a page.
LastKey(c, S) == CHOOSE k \in {Key(e) : e \in S} : \A e \in S : e = k.id \/ Ahead(c, Key(e), k)

-----------------------------------------------------------------------------
(* buildEventIdQuery.                                                      *)

Offset(c) == IF cursor[c] = None THEN query[c].start ELSE 0

Seek(c, e) == cursor[c] = None \/ Ahead(c, cursor[c], Key(e))

InWindow(c, e) ==
    /\ SiteOf[e] = query[c].siteId
    /\ query[c].begin < created[e] /\ created[e] < end[c]

Match(c, type, e) == row[e] = "stored" /\ TypeOf[e] = type /\ InWindow(c, e) /\ Seek(c, e)

\* The subquery of one event type. Mutation: the offset is not part of its limit.
Branch_NoOffset(c, type) == First(c, {e \in Events : Match(c, type, e)}, query[c].limit)
Branch(c, type) == First(c, {e \in Events : Match(c, type, e)}, Offset(c) + query[c].limit)

\* UNION ALL of the branches, then LIMIT and OFFSET.
BuildEventIdQuery(c) ==
    LET pageIds == UNION {Branch(c, type) : type \in query[c].event}
    IN  First(c, pageIds, Offset(c) + query[c].limit) \ First(c, pageIds, Offset(c))

-----------------------------------------------------------------------------
(* getEmailEvents, between two awaits.                                     *)

\* end defaults to the current time; begin must come before it.
EndOf(c) == IF query[c].end = None THEN now ELSE query[c].end

\* A request that finds the gate closed is answered 503, one whose window is
\* empty 400: neither changes anything.
Request(c) ==
    /\ pc[c] = "idle"
    /\ query[c].begin < EndOf(c)
    /\ ~analyticsActive
    /\ analyticsActive' = TRUE
    /\ end' = [end EXCEPT ![c] = EndOf(c)]
    /\ pc' = [pc EXCEPT ![c] = "ids"]
    /\ UNCHANGED <<now, table, query, cursor, ids, items, due>>

\* What matches the query, of any type asked for, and has its turn later than
\* the legacy offset of the first page.
Wanted(c, e) == TypeOf[e] \in query[c].event /\ InWindow(c, e)
FirstDue(c) ==
    LET S == {e \in Events : row[e] = "stored" /\ Wanted(c, e)} IN S \ First(c, S, query[c].start)

\* The id query. Without a result the answer is an empty page whose link is
\* the request's own.
SelectIds(c) ==
    /\ pc[c] = "ids"
    /\ LET page == BuildEventIdQuery(c) IN
       \/ /\ page # {}
          /\ ids' = [ids EXCEPT ![c] = page]
          /\ pc' = [pc EXCEPT ![c] = "rows"]
          /\ UNCHANGED analyticsActive
       \/ /\ page = {}
          /\ analyticsActive' = FALSE
          /\ pc' = [pc EXCEPT ![c] = "idle"]
          /\ UNCHANGED ids
    /\ due' = IF cursor[c] = None THEN [due EXCEPT ![c] = FirstDue(c)] ELSE due
    /\ UNCHANGED <<now, table, query, end, cursor, items>>

\* The cursor of paging.next. Mutation: it is taken from the first id.
NextCursor_First(c) ==
    CHOOSE k \in {Key(e) : e \in ids[c]} : \A e \in ids[c] : e = k.id \/ Ahead(c, k, Key(e))
NextCursor(c) == LastKey(c, ids[c])

\* The payload query: what retention removed since is missing from the answer.
FetchRows(c) ==
    /\ pc[c] = "rows"
    /\ items' = [items EXCEPT ![c] = @ \cup {e \in ids[c] : row[e] = "stored"}]
    /\ cursor' = [cursor EXCEPT ![c] = NextCursor(c)]
    /\ ids' = [ids EXCEPT ![c] = {}]
    /\ analyticsActive' = FALSE
    /\ pc' = [pc EXCEPT ![c] = "idle"]
    /\ UNCHANGED <<now, table, query, end, due>>

\* A query fails or exceeds its two seconds, or the answer is lost: the client
\* asks again with the link it has. Mutation: the gate is opened on success only.
QueryFails_GateKept(c) ==
    /\ pc[c] \in {"ids", "rows"}
    /\ ids' = [ids EXCEPT ![c] = {}]
    /\ pc' = [pc EXCEPT ![c] = "idle"]
    /\ UNCHANGED <<now, table, analyticsActive, query, end, cursor, items, due>>
QueryFails(c) ==
    /\ pc[c] \in {"ids", "rows"}
    /\ ids' = [ids EXCEPT ![c] = {}]
    /\ analyticsActive' = FALSE
    /\ pc' = [pc EXCEPT ![c] = "idle"]
    /\ UNCHANGED <<now, table, query, end, cursor, items, due>>

-----------------------------------------------------------------------------
(* Ingestion, reconciliation and retention, as the table shows them.       *)

\* The statement runs and takes its timestamp; nobody else sees the row yet.
Insert(e) ==
    /\ row[e] = "absent"
    /\ row' = [row EXCEPT ![e] = "inserted"]
    /\ created' = [created EXCEPT ![e] = now]
    /\ UNCHANGED <<now, analyticsActive, pc, query, end, cursor, ids, items, due>>

\* Where client c has read up to. Before the first ids nothing is promised.
Passed(c, e) ==
    LET reached == IF ids[c] # {} THEN LastKey(c, ids[c]) ELSE cursor[c]
    IN  reached = None \/ ~Ahead(c, reached, Key(e))

\* The commit, possibly milliseconds later. An update by a redelivered event
\* leaves id, type and created alone.
Commit(e) ==
    /\ row[e] = "inserted"
    /\ row' = [row EXCEPT ![e] = "stored"]
    /\ due' = [c \in Clients |-> IF Passed(c, e) THEN due[c] ELSE due[c] \cup {e}]
    /\ UNCHANGED <<now, created, analyticsActive, pc, query, end, cursor, ids, items>>

\* Retention deletes the row for good.
Delete(e) ==
    /\ row[e] = "stored"
    /\ row' = [row EXCEPT ![e] = "deleted"]
    /\ UNCHANGED <<now, created, analyticsActive, pc, query, end, cursor, ids, items, due>>

Tick ==
    /\ now <= MaxTime
    /\ now' = now + 1
    /\ UNCHANGED <<table, analyticsActive, pc, query, end, cursor, ids, items, due>>

-----------------------------------------------------------------------------
Next ==
    \/ \E c \in Clients : Request(c) \/ SelectIds(c) \/ FetchRows(c) \/ QueryFails(c)
    \/ \E e \in Events : Insert(e) \/ Commit(e) \/ Delete(e)
    \/ Tick

Spec == Init /\ [][Next]_vars

-----------------------------------------------------------------------------
(* Properties.                                                             *)

\* A page selects nothing the client has been given on this traversal, however
\* rows with equal timestamps, late commits and deletions fall between the
\* pages ("sem duplicacoes", the promise of the order (created, id)).
PagesDoNotRepeat == \A c \in Clients : ids[c] \cap items[c] = {}

\* When the id query finds nothing the client has every event of its window
\* that was there when its first page was selected, or was committed ahead of
\* where it had read up to, unless retention deleted it first: equal timestamps,
\* the legacy offset and rows deleted from a page take no other row with them.
NoneSkipped ==
    \A c \in Clients : (pc[c] = "ids" /\ BuildEventIdQuery(c) = {}) =>
        \A e \in (IF cursor[c] = None THEN FirstDue(c) ELSE due[c]) :
            row[e] = "stored" /\ Wanted(c, e) => e \in items[c]

\* The gate is closed exactly while one request reads, and is open again after
\* every way out of it: one analytics read per process, and never none at all.
OneReaderBehindGate ==
    LET reading == {c \in Clients : pc[c] # "idle"} IN
    /\ Cardinality(reading) <= 1
    /\ analyticsActive = (reading # {})

=============================================================================
