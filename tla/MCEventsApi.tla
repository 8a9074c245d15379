---------------------------- MODULE MCEventsApi ----------------------------
EXTENDS EventsApi, TLC

CONSTANTS g1, g2

MCClients == {g1, g2}
MCSymmetry == Permutations(MCClients)

MCTypeOf == [e \in Events |-> IF e = 2 THEN "delivered" ELSE "opened"]
MCSiteOf == [e \in Events |-> "site"]

Query(types, until, order, limit, start) ==
    [siteId |-> "site", event |-> types, begin |-> 0, end |-> until, order |-> order,
     limit |-> limit, start |-> start]

\* Ghost's own poll leaves out the end of the window; the others use a fixed
\* window, a legacy offset and a single type.
MCQueries == {Query({"opened", "delivered"}, None, "asc", 2, 0),
              Query({"opened", "delivered"}, 3, "desc", 1, 1),
              Query({"opened"}, None, "desc", 1, 0)}

=============================================================================
