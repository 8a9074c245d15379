--------------------------- MODULE DashboardAuth ---------------------------
(***************************************************************************)
(* Accounts of the dashboard: every login first runs ensureBootstrapUser,  *)
(* which creates the configured account in an empty table or retires the   *)
(* historical one, and the settings route rotates the credentials of the   *)
(* session's account. Each database statement is a step of its own; the    *)
(* table refuses a second row with an e-mail. Hashes and tokens are        *)
(* abstracted to the password and the account they stand for.              *)
(***************************************************************************)
EXTENDS Naturals, FiniteSets

CONSTANTS
    Logins,        \* login requests, of any replica
    Ids,           \* keys of rows
    Tables,        \* tables the service may find at deployment
    None,
    MaxRotations,  \* bound: credential updates
    MaxFaults      \* bound: statements that fail

\* LEGACY_ADMIN_EMAIL, DASHBOARD_INITIAL_ADMIN_EMAIL, and one set later.
Emails == {"legacy", "configured", "chosen"}
Passwords == {"default", "configured", "chosen"}
Row == [id : Ids, email : Emails, password : Passwords]

\* Primary key and unique index of DashboardUser.
Keyed(table) ==
    \A r, s \in table : r.id = s.id \/ r.email = s.email => r = s

ASSUME AuthConstants ==
    /\ IsFiniteSet(Ids)
    /\ \A table \in Tables : table \subseteq Row /\ Keyed(table)
    /\ None \notin Ids /\ None \notin {"no", "zero", "some"} /\ None \notin {200, 401, 500, 503}
    /\ "no" \notin Ids
    /\ {MaxRotations, MaxFaults} \subseteq Nat

\* What people type: the historical, the configured or the chosen account.
Credentials == {[email |-> "legacy", password |-> "default"],
                [email |-> "configured", password |-> "configured"],
                [email |-> "chosen", password |-> "chosen"]}

VARIABLES
    users,      \* the table DashboardUser
    configured, \* the environment names an e-mail and a strong password
    pc,         \* where each login is
    typed,      \* its credentials
    count,      \* what it read: is the table empty (None: not read yet)
    legacyUser, \* the legacy row's id, "no", or None: not read yet
    found,      \* the row it is about to verify
    status,     \* its answer
    session,    \* the account and e-mail in its token, None without cookie
    faults,
    rotations,  \* credential updates done so far
    fresh,      \* history: logins that began after a rotation
    deployed    \* history: the table found at deployment

read == <<count, legacyUser>>
vars == <<users, configured, pc, typed, read, found, status, session, faults, rotations,
          fresh, deployed>>

Token == [sub : Ids, email : Emails]

TypeOK ==
    /\ users \subseteq Row /\ Keyed(users)
    /\ configured \in BOOLEAN
    /\ pc \in [Logins -> {"idle", "reading", "finding", "deleting", "updating", "creating",
                          "converging", "lookup", "verifying", "done"}]
    /\ typed \in [Logins -> Credentials \cup {None}]
    /\ count \in [Logins -> {"zero", "some", None}]
    /\ legacyUser \in [Logins -> Ids \cup {"no", None}]
    /\ found \in [Logins -> Row \cup {None}]
    /\ status \in [Logins -> {200, 401, 500, 503, None}]
    /\ session \in [Logins -> Token \cup {None}]
    /\ faults \in 0..MaxFaults
    /\ rotations \in 0..MaxRotations
    /\ fresh \subseteq Logins
    /\ deployed \in Tables

Init ==
    /\ users \in Tables
    /\ configured \in BOOLEAN
    /\ pc = [l \in Logins |-> "idle"]
    /\ typed = [l \in Logins |-> None]
    /\ count = [l \in Logins |-> None]
    /\ legacyUser = [l \in Logins |-> None]
    /\ found = [l \in Logins |-> None]
    /\ status = [l \in Logins |-> None]
    /\ session = [l \in Logins |-> None]
    /\ faults = 0
    /\ rotations = 0
    /\ fresh = {}
    /\ deployed = users

RowWith(email) == {r \in users : r.email = email}
RowOf(id) == {r \in users : r.id = id}

-----------------------------------------------------------------------------
Goto(l, place) == pc' = [pc EXCEPT ![l] = place]

Answer(l, code) ==
    /\ Goto(l, "done")
    /\ status' = [status EXCEPT ![l] = code]

Begin(l) ==
    /\ pc[l] = "idle"
    /\ Goto(l, "reading")
    /\ \E c \in Credentials : typed' = [typed EXCEPT ![l] = c]
    /\ fresh' = IF rotations > 0 THEN fresh \cup {l} ELSE fresh
    /\ UNCHANGED <<users, configured, read, found, status, session, faults, rotations, deployed>>

\* ensureBootstrapUser: what follows the two reads. Without valid credentials
\* in the environment no account is written. Mutation: a table with rows needs
\* nothing.
Bootstrapped_AnyRow(seenCount, seenLegacy) == seenCount = "some"
Bootstrapped(seenCount, seenLegacy) == seenCount = "some" /\ seenLegacy = "no"

AfterReads(l, seenCount, seenLegacy) ==
    IF seenCount = None \/ seenLegacy = None
    THEN UNCHANGED <<pc, status>>
    ELSE CASE Bootstrapped(seenCount, seenLegacy) -> Goto(l, "lookup") /\ UNCHANGED status
           [] ~configured /\ ~Bootstrapped(seenCount, seenLegacy) -> Answer(l, 503)
           [] OTHER -> Goto(l, IF seenLegacy = "no" THEN "creating" ELSE "finding") /\ UNCHANGED status

\* Mutation: only rows of the configured e-mail are counted.
Counted_Configured == RowWith("configured")
Counted == users

ReadCount(l) ==
    /\ pc[l] = "reading" /\ count[l] = None
    /\ count' = [count EXCEPT ![l] = IF Counted = {} THEN "zero" ELSE "some"]
    /\ AfterReads(l, count'[l], legacyUser[l])
    /\ UNCHANGED <<users, configured, typed, legacyUser, found, session, faults, rotations,
                   fresh, deployed>>

ReadLegacy(l) ==
    /\ pc[l] = "reading" /\ legacyUser[l] = None
    /\ legacyUser' = [legacyUser EXCEPT
          ![l] = IF RowWith("legacy") = {} THEN "no" ELSE (CHOOSE r \in RowWith("legacy") : TRUE).id]
    /\ AfterReads(l, count[l], legacyUser'[l])
    /\ UNCHANGED <<users, configured, typed, count, found, session, faults, rotations,
                   fresh, deployed>>

\* The statements that leave the table alone.
Same(l) == UNCHANGED <<users, configured, typed, read, session, faults, rotations, fresh, deployed>>

FindConfigured(l) ==
    /\ pc[l] = "finding"
    /\ Goto(l, IF \E r \in RowWith("configured") : r.id # legacyUser[l]
               THEN "deleting" ELSE "updating")
    /\ UNCHANGED <<found, status>>
    /\ Same(l)

\* A write succeeds, and the login goes on unless the answer is lost on its way
\* back; or the table refuses it and the login goes to where the error takes it.
Write(l, table) ==
    /\ users' = table
    /\ \/ /\ Goto(l, "lookup")
          /\ UNCHANGED <<status, faults>>
       \/ /\ faults < MaxFaults
          /\ faults' = faults + 1
          /\ Answer(l, 503)
Refused(l) == UNCHANGED <<users, faults>> /\ Answer(l, 503)

DeleteLegacy(l) ==
    /\ pc[l] = "deleting"
    /\ IF RowOf(legacyUser[l]) # {} THEN Write(l, users \ RowOf(legacyUser[l])) ELSE Refused(l)
    /\ UNCHANGED <<configured, typed, read, found, session, rotations, fresh, deployed>>

UpdateLegacy(l) ==
    LET id == legacyUser[l]
        row == [id |-> id, email |-> "configured", password |-> "configured"]
    IN  /\ pc[l] = "updating"
        /\ IF RowOf(id) # {} /\ RowWith("configured") \subseteq RowOf(id)
           THEN Write(l, (users \ RowOf(id)) \cup {row})
           ELSE Refused(l)
        /\ UNCHANGED <<configured, typed, read, found, session, rotations, fresh, deployed>>

\* Mutation: a bare insert, whose conflict is an error like any other.
UniqueConflict_Fatal(l) == Answer(l, 503)
UniqueConflict(l) == Goto(l, "converging") /\ UNCHANGED status

Create(l) ==
    /\ pc[l] = "creating"
    /\ \/ /\ RowWith("configured") = {}
          /\ \E id \in Ids \ {r.id : r \in users} :
                Write(l, users \cup {[id |-> id, email |-> "configured", password |-> "configured"]})
       \/ /\ RowWith("configured") # {}
          /\ UniqueConflict(l)
          /\ UNCHANGED <<users, faults>>
    /\ UNCHANGED <<configured, typed, read, found, session, rotations, fresh, deployed>>

\* "Concurrent bootstrap requests converge on the same configured account."
Converge(l) ==
    /\ pc[l] = "converging"
    /\ IF RowWith("configured") # {} THEN Goto(l, "lookup") /\ UNCHANGED status ELSE Answer(l, 503)
    /\ UNCHANGED found
    /\ Same(l)

-----------------------------------------------------------------------------
(* The login route, after ensureBootstrapUser.                             *)

Lookup(l) ==
    /\ pc[l] = "lookup"
    /\ \/ /\ RowWith(typed[l].email) = {}
          /\ Answer(l, 401)
          /\ UNCHANGED found
       \/ /\ \E r \in RowWith(typed[l].email) : found' = [found EXCEPT ![l] = r]
          /\ Goto(l, "verifying")
          /\ UNCHANGED status
    /\ Same(l)

\* verifyPassword and createSession. The key of the signature is there: without
\* it no request passes the proxy.
Verify(l) ==
    /\ pc[l] = "verifying"
    /\ IF found[l].password # typed[l].password
       THEN Answer(l, 401) /\ UNCHANGED session
       ELSE /\ Answer(l, 200)
            /\ session' = [session EXCEPT ![l] = [sub |-> found[l].id, email |-> found[l].email]]
    /\ UNCHANGED <<users, configured, typed, read, found, faults, rotations, fresh, deployed>>

\* A statement fails and writes nothing: inside the try block of ensureBootstrapUser the error
\* becomes a DashboardBootstrapError, elsewhere it is a plain one.
StatementFails(l) ==
    /\ faults < MaxFaults
    /\ \/ pc[l] \in {"reading", "lookup", "converging"} /\ Answer(l, 500)
       \/ pc[l] \in {"finding", "deleting", "updating", "creating"} /\ Answer(l, 503)
    /\ faults' = faults + 1
    /\ UNCHANGED <<users, configured, typed, read, found, session, rotations, fresh, deployed>>

-----------------------------------------------------------------------------
(* The settings and logout routes.                                         *)

\* handleDashboardAuth lets a request through that brings an unexpired token.
\* The account it names may be gone by then, or have another e-mail.
HasSession(l) == session[l] # None

\* PUT updates the account of the session, found by its id. A missing row or
\* an e-mail already taken is answered 500.
Rotate(l) ==
    /\ HasSession(l)
    /\ rotations < MaxRotations
    /\ \E email \in {"configured", "chosen"} :
          /\ RowOf(session[l].sub) # {}
          /\ RowWith(email) \subseteq RowOf(session[l].sub)
          /\ users' = (users \ RowOf(session[l].sub))
                        \cup {[id |-> session[l].sub, email |-> email, password |-> "chosen"]}
    /\ rotations' = rotations + 1
    /\ UNCHANGED <<configured, pc, typed, read, found, status, session, faults, fresh, deployed>>

\* The cookie is cleared, or the token expires.
Logout(l) ==
    /\ HasSession(l)
    /\ session' = [session EXCEPT ![l] = None]
    /\ UNCHANGED <<users, configured, pc, typed, read, found, status, faults, rotations, fresh, deployed>>

-----------------------------------------------------------------------------
Login(l) ==
    \/ Begin(l) \/ ReadCount(l) \/ ReadLegacy(l)
    \/ FindConfigured(l) \/ DeleteLegacy(l) \/ UpdateLegacy(l) \/ Create(l) \/ Converge(l)
    \/ Lookup(l) \/ Verify(l) \/ StatementFails(l)

Next == \E l \in Logins : Login(l) \/ Rotate(l) \/ Logout(l)

Spec == Init /\ [][Next]_vars

-----------------------------------------------------------------------------
(* Properties.                                                             *)

\* Past ensureBootstrapUser the historical account is gone for good, whichever
\* concurrent login retired it and whatever failed: no answer but 500 and 503
\* is ever given while its row exists, and no session names it.
LegacyIsRetired ==
    \A l \in Logins :
        /\ pc[l] \in {"lookup", "verifying"} \/ status[l] \in {200, 401} => RowWith("legacy") = {}
        /\ session[l] # None => session[l].email # "legacy"

\* On a table that is empty or holds only the historical row, concurrent first
\* logins converge: one account, and every login with the configured
\* credentials gets in ("Concurrent bootstrap requests converge on the same
\* configured account").
BootstrapConverges ==
    (/\ deployed \subseteq {r \in Row : r.email = "legacy"}
     /\ configured
     /\ faults = 0 /\ rotations = 0)
    => /\ Cardinality(users) <= 1
       /\ \A l \in Logins : status[l] \in {None, 200, 401}
       /\ \A l \in Logins : status[l] # None /\ typed[l].email = "configured" => status[l] = 200

\* Once credentials have been rotated, the environment's are history: a login
\* that begins after a rotation never touches the table again, so that later
\* rotations happen through the settings route only (CAPROVER_OPERATIONS.md:55).
LaterLoginsChangeNothing ==
    [][\A l \in fresh : pc'[l] # pc[l] => users' = users]_vars

=============================================================================
