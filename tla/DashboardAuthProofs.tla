------------------------ MODULE DashboardAuthProofs ------------------------
(***************************************************************************)
(* Proofs about DashboardAuth: for any number of concurrent logins and any *)
(* table found at deployment, the historical account is retired before an  *)
(* answer is given, first logins converge on one account, and logins after *)
(* a rotation of the credentials leave the table alone.                    *)
(***************************************************************************)
EXTENDS DashboardAuth, FiniteSetTheorems, TLAPS

NoLegacy == RowWith("legacy") = {}

\* What a login carries from one statement to the next.
Carries(l) ==
    /\ pc[l] = "idle" => count[l] = None /\ legacyUser[l] = None
    /\ pc[l] # "idle" => typed[l] \in Credentials
    /\ pc[l] # "done" => status[l] = None
    /\ pc[l] \in {"finding", "deleting", "updating"} => legacyUser[l] \in Ids
    /\ pc[l] \in {"creating", "converging"} => legacyUser[l] = "no" /\ count[l] = "zero"
    /\ pc[l] = "verifying" => /\ found[l] \in Row /\ found[l].email # "legacy"
                              /\ found[l].email = typed[l].email

\* What a login read of the legacy row stays true of it: the row that was
\* found is the only one there can be, and no step brings one back.
LegacyIsKnown(l) ==
    /\ legacyUser[l] # None => \A r \in users : r.email = "legacy" => r.id = legacyUser[l]
    /\ legacyUser[l] \in Ids => \E r \in deployed : r.email = "legacy" /\ r.id = legacyUser[l]

\* The table never empties: what is deleted is always beside another row.
Inhabited(l) ==
    /\ count[l] = "some" => users # {}
    /\ count[l] = "zero" => deployed = {}
    /\ pc[l] = "deleting" => \E r \in users : r.id # legacyUser[l]

LegacyStays == \A r \in users : r.email = "legacy" => r \in deployed

\* Past the bootstrap there is an account and no historical one.
PastBootstrap(l) ==
    /\ pc[l] \in {"lookup", "verifying"} \/ status[l] \in {200, 401} => NoLegacy
    /\ session[l] # None => NoLegacy /\ session[l] \in Token /\ session[l].email # "legacy"

\* After a rotation, a login that begins finds nothing to bootstrap.
Rotated ==
    /\ rotations > 0 => NoLegacy /\ users # {}
    /\ \A l \in fresh : /\ rotations > 0
                        /\ pc[l] \in {"reading", "lookup", "verifying", "done"}
                        /\ count[l] \in {"some", None} /\ legacyUser[l] \in {"no", None}

IndInv ==
    /\ TypeOK
    /\ deployed # {} => users # {}
    /\ LegacyStays
    /\ Rotated
    /\ \A l \in Logins : Carries(l) /\ LegacyIsKnown(l) /\ Inhabited(l) /\ PastBootstrap(l)

\* The deployments of BootstrapConverges, as long as nothing failed and nobody
\* rotated.
FirstDeployment ==
    /\ deployed \subseteq {r \in Row : r.email = "legacy"}
    /\ configured
    /\ faults = 0 /\ rotations = 0

\* One row, the historical or the configured one, under one key.
OneAccount ==
    /\ \A r, s \in users : r = s
    /\ \A r \in users : \/ r.email = "legacy"
                        \/ r.email = "configured" /\ r.password = "configured"
    /\ \A r \in users, d \in deployed : r.id = d.id

\* No login is about to delete, and one past the bootstrap finds the configured
\* account.
OnItsWay(l) ==
    /\ pc[l] # "deleting"
    /\ pc[l] \in {"converging", "lookup", "verifying"} => RowWith("configured") # {}
    /\ pc[l] = "verifying" => found[l].password = "configured"
    /\ status[l] \in {None, 200, 401}
    /\ status[l] # None /\ typed[l].email = "configured" => status[l] = 200

Converges == FirstDeployment => OneAccount /\ \A l \in Logins : OnItsWay(l)

\* The invariants hold of the table found at deployment, with no login begun.
LEMMA InitIndInv == Init => IndInv /\ Converges
<1> SUFFICES ASSUME Init PROVE IndInv /\ Converges
  OBVIOUS
<1>1. users \subseteq Row /\ Keyed(users) /\ deployed \in Tables
  BY AuthConstants DEF Init
<1>2. configured \in BOOLEAN
  BY DEF Init
<1>3. faults \in 0..MaxFaults /\ rotations \in 0..MaxRotations
  BY AuthConstants DEF Init
<1>4. TypeOK
  BY <1>1, <1>2, <1>3 DEF Init, TypeOK
<1>5. (deployed # {} => users # {}) /\ LegacyStays /\ Rotated
  BY DEF Init, LegacyStays, Rotated
<1>6. ASSUME NEW l \in Logins
      PROVE  Carries(l) /\ LegacyIsKnown(l) /\ Inhabited(l) /\ PastBootstrap(l) /\ OnItsWay(l)
  BY AuthConstants DEF Init, Carries, LegacyIsKnown, Inhabited, PastBootstrap, OnItsWay
<1>7. FirstDeployment => OneAccount
  BY <1>1 DEF Init, FirstDeployment, OneAccount, Keyed
<1> QED BY <1>4, <1>5, <1>6, <1>7 DEF IndInv, Converges

-----------------------------------------------------------------------------
(* What a statement may do to the table.                                   *)

\* No statement brings a historical row back, empties the table, or removes the
\* row that a pending deletion leaves.
TableKept ==
    /\ users' \subseteq Row /\ Keyed(users')
    /\ \A r \in users' : r.email = "legacy" => r \in users
    /\ users # {} => users' # {}
    /\ \A k \in Logins : pc[k] = "deleting" => \E r \in users' : r.id # legacyUser[k]

\* An update in place of a row, by its key, to an e-mail nobody else has.
LEMMA UpdateKeepsTable ==
    ASSUME IndInv, NEW id \in Ids, NEW row \in Row, row.id = id, row.email # "legacy",
           RowOf(id) # {}, RowWith(row.email) \subseteq RowOf(id),
           users' = (users \ RowOf(id)) \cup {row}
    PROVE  TableKept
<1>1. users \subseteq Row /\ Keyed(users)
  BY DEF IndInv, TypeOK
<1>2. users' \subseteq Row /\ users' # {}
  BY <1>1
<1>3. Keyed(users')
  <2> SUFFICES ASSUME NEW r \in users', NEW s \in users', r.id = s.id \/ r.email = s.email
               PROVE  r = s
    BY DEF Keyed
  <2>1. ASSUME NEW q \in users', q # row PROVE q \in users /\ q.id # id /\ q.email # row.email
    BY <2>1 DEF RowOf, RowWith
  <2> QED BY <1>1, <2>1 DEF Keyed
<1>4. \A r \in users' : r.email = "legacy" => r \in users
  OBVIOUS
<1>5. ASSUME NEW k \in Logins, pc[k] = "deleting" PROVE \E r \in users' : r.id # legacyUser[k]
  <2>1. PICK r \in users : r.id # legacyUser[k]
    BY <1>5 DEF IndInv, Inhabited
  <2> QED BY <2>1 DEF RowOf
<1> QED BY <1>2, <1>3, <1>4, <1>5 DEF TableKept

\* An insertion of a row with a fresh key and e-mail.
LEMMA InsertKeepsTable ==
    ASSUME IndInv, NEW id \in Ids \ {r.id : r \in users}, NEW row \in Row, row.id = id,
           row.email # "legacy", RowWith(row.email) = {}, users' = users \cup {row}
    PROVE  TableKept
<1>1. users \subseteq Row /\ Keyed(users)
  BY DEF IndInv, TypeOK
<1>2. users' \subseteq Row /\ users' # {}
  BY <1>1
<1>3. Keyed(users')
  BY <1>1 DEF Keyed, RowWith
<1>4. \A k \in Logins : pc[k] = "deleting" => \E r \in users' : r.id # legacyUser[k]
  BY DEF IndInv, Inhabited
<1> QED BY <1>2, <1>3, <1>4 DEF TableKept

\* A statement that writes nothing.
LEMMA ReadKeepsTable == ASSUME IndInv, users' = users PROVE TableKept
  BY DEF IndInv, TypeOK, Inhabited, TableKept

\* Every login that found a historical row found the same one.
LEMMA OneLegacyId ==
    ASSUME IndInv, NEW k \in Logins, NEW l \in Logins, legacyUser[k] \in Ids, legacyUser[l] \in Ids
    PROVE  legacyUser[k] = legacyUser[l]
<1>1. PICK r \in deployed : r.email = "legacy" /\ r.id = legacyUser[k]
  BY DEF IndInv, LegacyIsKnown
<1>2. PICK s \in deployed : s.email = "legacy" /\ s.id = legacyUser[l]
  BY DEF IndInv, LegacyIsKnown
<1>3. Keyed(deployed)
  BY AuthConstants DEF IndInv, TypeOK
<1> QED BY <1>1, <1>2, <1>3 DEF Keyed

\* The deletion of the historical row, beside the configured one.
LEMMA DeleteKeepsTable ==
    ASSUME IndInv, NEW l \in Logins, pc[l] = "deleting", users' = users \ RowOf(legacyUser[l])
    PROVE  TableKept
<1>1. users \subseteq Row /\ Keyed(users)
  BY DEF IndInv, TypeOK
<1>2. ASSUME NEW k \in Logins, pc[k] = "deleting" PROVE \E r \in users' : r.id # legacyUser[k]
  <2>1. legacyUser[k] = legacyUser[l]
    BY <1>2, OneLegacyId DEF IndInv, Carries
  <2>2. PICK r \in users : r.id # legacyUser[k]
    BY <1>2 DEF IndInv, Inhabited
  <2> QED BY <2>1, <2>2 DEF RowOf
<1> QED BY <1>1, <1>2 DEF TableKept, Keyed

-----------------------------------------------------------------------------
(* What the steps of the logins have in common.                            *)

LocalsKept(k) ==
    /\ pc'[k] = pc[k] /\ typed'[k] = typed[k] /\ count'[k] = count[k]
    /\ legacyUser'[k] = legacyUser[k] /\ found'[k] = found[k] /\ status'[k] = status[k]
    /\ session'[k] = session[k]

LoginInv(l) == Carries(l) /\ LegacyIsKnown(l) /\ Inhabited(l) /\ PastBootstrap(l)

\* What a login knows stays true while other logins write.
LEMMA OthersKeepLogin ==
    ASSUME IndInv, TableKept, deployed' = deployed, NEW k \in Logins, LocalsKept(k)
    PROVE  LoginInv(k)'
<1>1. LoginInv(k)
  BY DEF IndInv, LoginInv
<1>2. NoLegacy => NoLegacy'
  BY DEF TableKept, NoLegacy, RowWith
<1>3. Carries(k)'
  BY <1>1 DEF LoginInv, Carries, LocalsKept
<1>4. LegacyIsKnown(k)'
  BY <1>1 DEF LoginInv, LegacyIsKnown, LocalsKept, TableKept
<1>5. Inhabited(k)'
  BY <1>1 DEF LoginInv, Inhabited, LocalsKept, TableKept
<1>6. PastBootstrap(k)'
  BY <1>1, <1>2 DEF LoginInv, PastBootstrap, LocalsKept
<1> QED BY <1>3, <1>4, <1>5, <1>6 DEF LoginInv

\* So that a step preserves the invariant when it does for its own login.
LEMMA StepKeepsIndInv ==
    ASSUME IndInv, TableKept, deployed' = deployed, NEW l \in Logins,
           \A k \in Logins \ {l} : LocalsKept(k), LoginInv(l)', TypeOK', Rotated'
    PROVE  IndInv'
<1>1. \A k \in Logins : LoginInv(k)'
  BY OthersKeepLogin
<1>2. (deployed # {} => users # {})' /\ LegacyStays'
  BY DEF IndInv, TableKept, LegacyStays
<1> QED BY <1>1, <1>2 DEF IndInv, LoginInv

\* A login that is not fresh, or stays where a fresh one may be, with what a
\* fresh one reads.
FreshAt(l) ==
    l \in fresh => /\ pc'[l] \in {"reading", "lookup", "verifying", "done"}
                   /\ count'[l] \in {"some", None} /\ legacyUser'[l] \in {"no", None}

LEMMA RotatedIsKept ==
    ASSUME IndInv, TableKept, NEW l \in Logins, \A k \in Logins \ {l} : LocalsKept(k),
           rotations' = rotations, fresh' = fresh, FreshAt(l)
    PROVE  Rotated'
<1>1. rotations' > 0 => NoLegacy' /\ users' # {}
  BY DEF IndInv, Rotated, TableKept, NoLegacy, RowWith
<1>2. ASSUME NEW k \in fresh
      PROVE  /\ rotations' > 0
             /\ pc'[k] \in {"reading", "lookup", "verifying", "done"}
             /\ count'[k] \in {"some", None} /\ legacyUser'[k] \in {"no", None}
  <2>1. k \in Logins /\ rotations > 0
    BY DEF IndInv, Rotated, TypeOK
  <2>2. CASE k = l
    BY <2>1, <2>2 DEF FreshAt
  <2>3. CASE k # l
    BY <2>1, <2>3 DEF LocalsKept, IndInv, Rotated
  <2> QED BY <2>2, <2>3
<1> QED BY <1>1, <1>2 DEF Rotated

-----------------------------------------------------------------------------
(* One lemma per statement.                                                *)

\* The request arrives; after a rotation there is nothing left to bootstrap.
LEMMA BeginKeeps == ASSUME IndInv, NEW l \in Logins, Begin(l) PROVE IndInv'
<1>1. TableKept
  BY ReadKeepsTable DEF Begin
<1>2. deployed' = deployed /\ \A k \in Logins \ {l} : LocalsKept(k)
  BY DEF IndInv, TypeOK, Begin, Goto, read, LocalsKept
<1>3. TypeOK'
  BY DEF IndInv, TypeOK, Begin, Goto, read
<1>4. LoginInv(l)'
  BY DEF IndInv, TypeOK, Begin, Goto, read, LoginInv, Carries, LegacyIsKnown, Inhabited,
         PastBootstrap, NoLegacy, RowWith
<1>5. Rotated'
  BY DEF IndInv, TypeOK, Begin, Goto, read, Rotated, Carries, NoLegacy, RowWith
<1> QED BY <1>1, <1>2, <1>3, <1>4, <1>5, StepKeepsIndInv

\* The outcomes of the two reads.
LEMMA AfterReadsCases ==
    ASSUME NEW l \in Logins, NEW c, NEW g, AfterReads(l, c, g)
    PROVE  \/ (c = None \/ g = None) /\ UNCHANGED <<pc, status>>
           \/ c # None /\ g # None /\ c = "some" /\ g = "no" /\ Goto(l, "lookup") /\ UNCHANGED status
           \/ c # None /\ g # None /\ ~(c = "some" /\ g = "no") /\ ~configured /\ Answer(l, 503)
           \/ /\ c # None /\ c # "some" /\ g = "no" /\ configured
              /\ Goto(l, "creating") /\ UNCHANGED status
           \/ g # None /\ g # "no" /\ configured /\ Goto(l, "finding") /\ UNCHANGED status
  BY DEF AfterReads, Bootstrapped

\* A read of the table, when it is the first of the two or both are known.
LEMMA ReadKeeps ==
    ASSUME IndInv, NEW l \in Logins, pc[l] = "reading",
           NEW c \in {"zero", "some", None}, NEW g \in Ids \cup {"no", None},
           count' = [count EXCEPT ![l] = c], legacyUser' = [legacyUser EXCEPT ![l] = g],
           c = "some" => users # {}, c = "zero" => deployed = {},
           g # None => \A r \in users : r.email = "legacy" => r.id = g,
           g \in Ids => \E r \in deployed : r.email = "legacy" /\ r.id = g,
           l \in fresh => c # "zero" /\ g \notin Ids,
           AfterReads(l, c, g),
           UNCHANGED <<users, configured, typed, found, session, faults, rotations, fresh, deployed>>
    PROVE  IndInv'
<1>1. TableKept
  BY ReadKeepsTable
<1>2. /\ pc' = [pc EXCEPT ![l] = pc'[l]] /\ status' = [status EXCEPT ![l] = status'[l]]
      /\ status'[l] \in {None, 503} /\ (status'[l] # None => pc'[l] = "done")
      /\ pc'[l] \in {"reading", "lookup", "done", "creating", "finding"}
      /\ pc'[l] = "lookup" => c = "some" /\ g = "no"
      /\ pc'[l] = "creating" => c = "zero" /\ g = "no"
      /\ pc'[l] = "finding" => g \in Ids
  <2>1. /\ pc \in [Logins -> {"idle", "reading", "finding", "deleting", "updating", "creating",
                               "converging", "lookup", "verifying", "done"}]
        /\ status \in [Logins -> {200, 401, 500, 503, None}] /\ status[l] = None
    BY DEF IndInv, TypeOK, Carries
  <2>2. CASE UNCHANGED <<pc, status>> /\ (c = None \/ g = None)
    BY <2>1, <2>2
  <2>3. CASE c = "some" /\ g = "no" /\ Goto(l, "lookup") /\ UNCHANGED status
    BY <2>1, <2>3 DEF Goto
  <2>4. CASE Answer(l, 503)
    BY <2>1, <2>4 DEF Goto, Answer
  <2>5. CASE c # None /\ c # "some" /\ g = "no" /\ Goto(l, "creating") /\ UNCHANGED status
    BY <2>1, <2>5 DEF Goto
  <2>6. CASE g # None /\ g # "no" /\ Goto(l, "finding") /\ UNCHANGED status
    BY <2>1, <2>6 DEF Goto
  <2> QED BY <2>2, <2>3, <2>4, <2>5, <2>6, AfterReadsCases
<1>3. \A k \in Logins \ {l} : LocalsKept(k)
  BY <1>2 DEF IndInv, TypeOK, LocalsKept
<1>4. TypeOK'
  BY <1>2 DEF IndInv, TypeOK
<1>5. LoginInv(l)'
  <2>1. count'[l] = c /\ legacyUser'[l] = g
    BY DEF IndInv, TypeOK
  <2>2. Carries(l)'
    BY <1>2, <2>1 DEF IndInv, TypeOK, Carries
  <2>3. LegacyIsKnown(l)' /\ Inhabited(l)'
    BY <1>2, <2>1 DEF LegacyIsKnown, Inhabited
  <2>4. PastBootstrap(l)'
    <3>1. g = "no" => NoLegacy
      BY AuthConstants DEF IndInv, TypeOK, NoLegacy, RowWith, Row
    <3>2. session[l] # None => NoLegacy /\ session[l] \in Token /\ session[l].email # "legacy"
      BY DEF IndInv, PastBootstrap
    <3> QED BY <1>2, <3>1, <3>2, AuthConstants DEF PastBootstrap, NoLegacy, RowWith
  <2> QED BY <2>2, <2>3, <2>4 DEF LoginInv
<1>6. FreshAt(l)
  BY <1>2, AuthConstants DEF IndInv, TypeOK, Rotated, FreshAt
<1> QED BY <1>1, <1>3, <1>4, <1>5, <1>6, RotatedIsKept, StepKeepsIndInv

\* The count: an empty table was found empty, and nobody rotated.
LEMMA ReadCountKeeps == ASSUME IndInv, NEW l \in Logins, ReadCount(l) PROVE IndInv'
<1>1. PICK c \in {"zero", "some", None} :
        /\ count' = [count EXCEPT ![l] = c] /\ AfterReads(l, c, legacyUser[l])
        /\ c = "some" => users # {}
        /\ c = "zero" => users = {}
  <2>1. l \in DOMAIN count
    BY DEF IndInv, TypeOK
  <2>2. PICK c \in {"zero", "some"} : c = IF Counted = {} THEN "zero" ELSE "some"
    OBVIOUS
  <2>3. count' = [count EXCEPT ![l] = c] /\ AfterReads(l, c, legacyUser[l])
    BY <2>1, <2>2 DEF ReadCount
  <2> QED BY <2>2, <2>3 DEF Counted
<1>2. c = "zero" => deployed = {} /\ l \notin fresh
  BY <1>1 DEF IndInv, Rotated
<1>3. legacyUser' = [legacyUser EXCEPT ![l] = legacyUser[l]] /\ legacyUser[l] \in Ids \cup {"no", None}
  BY DEF IndInv, TypeOK, ReadCount
<1>4. legacyUser[l] # None => \A r \in users : r.email = "legacy" => r.id = legacyUser[l]
  BY DEF IndInv, LegacyIsKnown
<1>5. legacyUser[l] \in Ids => /\ \E r \in deployed : r.email = "legacy" /\ r.id = legacyUser[l]
                               /\ l \notin fresh
  BY AuthConstants DEF IndInv, LegacyIsKnown, Rotated
<1>6. /\ pc[l] = "reading"
      /\ UNCHANGED <<users, configured, typed, found, session, faults, rotations, fresh, deployed>>
  BY DEF ReadCount
<1>7. (c = "zero" => deployed = {}) /\ (l \in fresh => c # "zero" /\ legacyUser[l] \notin Ids)
  BY <1>2, <1>5
<1> QED BY <1>1, <1>3, <1>4, <1>5, <1>6, <1>7, ReadKeeps

\* The search for the historical row, which was there at deployment.
LEMMA ReadLegacyKeeps == ASSUME IndInv, NEW l \in Logins, ReadLegacy(l) PROVE IndInv'
<1>1. PICK g \in Ids \cup {"no", None} :
        /\ legacyUser' = [legacyUser EXCEPT ![l] = g] /\ AfterReads(l, count[l], g)
        /\ g \in Ids => \E r \in users : r.email = "legacy" /\ r.id = g
        /\ \A r \in users : r.email = "legacy" => r.id = g
  <2>1. users \subseteq Row /\ Keyed(users) /\ l \in DOMAIN legacyUser
    BY DEF IndInv, TypeOK
  <2>2. CASE RowWith("legacy") = {}
    <3>1. legacyUser' = [legacyUser EXCEPT ![l] = "no"] /\ AfterReads(l, count[l], "no")
      BY <2>1, <2>2 DEF ReadLegacy
    <3>2. \A r \in users : r.email # "legacy"
      BY <2>2 DEF RowWith
    <3>3. "no" \notin Ids
      BY AuthConstants
    <3> QED BY <3>1, <3>2, <3>3
  <2>3. CASE RowWith("legacy") # {}
    <3>1. PICK r \in RowWith("legacy") : r = CHOOSE q \in RowWith("legacy") : TRUE
      BY <2>3
    <3>2. r \in users /\ r.email = "legacy" /\ r.id \in Ids
      BY <2>1 DEF RowWith, Row
    <3>3. \A q \in users : q.email = "legacy" => q.id = r.id
      BY <2>1, <3>2 DEF Keyed
    <3>4. legacyUser' = [legacyUser EXCEPT ![l] = r.id] /\ AfterReads(l, count[l], r.id)
      BY <2>1, <2>3, <3>1 DEF ReadLegacy
    <3> QED BY <3>2, <3>3, <3>4
  <2> QED BY <2>2, <2>3
<1>2. count' = [count EXCEPT ![l] = count[l]] /\ count[l] \in {"zero", "some", None}
  BY DEF IndInv, TypeOK, ReadLegacy
<1>3. (count[l] = "some" => users # {}) /\ (count[l] = "zero" => deployed = {})
  BY DEF IndInv, Inhabited
<1>4. g \in Ids => \E r \in deployed : r.email = "legacy" /\ r.id = g
  BY <1>1 DEF IndInv, LegacyStays
<1>5. l \in fresh => count[l] # "zero" /\ g \notin Ids
  BY <1>1, AuthConstants DEF IndInv, Rotated, NoLegacy, RowWith
<1>6. /\ pc[l] = "reading"
      /\ UNCHANGED <<users, configured, typed, found, session, faults, rotations, fresh, deployed>>
  BY DEF ReadLegacy
<1> QED BY <1>1, <1>2, <1>3, <1>4, <1>5, <1>6, ReadKeeps

\* A login that comes to the search for the configured account is not fresh.
LEMMA BootstrapIsNotFresh ==
    ASSUME IndInv, NEW l \in Logins,
           pc[l] \in {"finding", "deleting", "updating", "creating", "converging"}
    PROVE  l \notin fresh
  BY DEF IndInv, Rotated

\* The historical row is deleted only beside the configured one.
LEMMA FindConfiguredKeeps == ASSUME IndInv, NEW l \in Logins, FindConfigured(l) PROVE IndInv'
<1>1. TableKept
  BY ReadKeepsTable DEF FindConfigured, Same
<1>2. deployed' = deployed /\ \A k \in Logins \ {l} : LocalsKept(k)
  BY DEF IndInv, TypeOK, FindConfigured, Goto, Same, read, LocalsKept
<1>3. TypeOK'
  BY DEF IndInv, TypeOK, FindConfigured, Goto, Same, read
<1>4. LoginInv(l)'
  BY DEF IndInv, TypeOK, FindConfigured, Goto, Same, read, LoginInv, Carries, LegacyIsKnown,
         Inhabited, PastBootstrap, NoLegacy, RowWith
<1>5. Rotated'
  BY <1>1, <1>2, RotatedIsKept, BootstrapIsNotFresh DEF FindConfigured, Same, FreshAt
<1> QED BY <1>1, <1>2, <1>3, <1>4, <1>5, StepKeepsIndInv

\* A login that ends in an error leaves everything else as it is.
LEMMA ErrorKeeps ==
    ASSUME IndInv, NEW l \in Logins, NEW code \in {500, 503}, Answer(l, code), pc[l] # "idle",
           faults' \in 0..MaxFaults,
           UNCHANGED <<users, configured, typed, read, found, session, rotations, fresh, deployed>>
    PROVE  IndInv'
<1>1. TableKept
  BY ReadKeepsTable
<1>2. deployed' = deployed /\ \A k \in Logins \ {l} : LocalsKept(k)
  BY DEF IndInv, TypeOK, Answer, Goto, read, LocalsKept
<1>3. TypeOK'
  BY DEF IndInv, TypeOK, Answer, Goto, read
<1>4. LoginInv(l)'
  BY DEF IndInv, TypeOK, Answer, Goto, read, LoginInv, Carries, LegacyIsKnown, Inhabited,
         PastBootstrap, NoLegacy, RowWith
<1>5. FreshAt(l)
  BY DEF IndInv, TypeOK, Rotated, FreshAt, Answer, Goto, read
<1> QED BY <1>1, <1>2, <1>3, <1>4, <1>5, RotatedIsKept, StepKeepsIndInv

\* A write that leaves no historical row takes the login past the bootstrap, or
\* to an error if its answer is lost.
LEMMA WriteKeeps ==
    ASSUME IndInv, NEW l \in Logins, pc[l] \in {"deleting", "updating", "creating"},
           NEW table, Write(l, table), TableKept, NoLegacy',
           UNCHANGED <<configured, typed, read, found, session, rotations, fresh, deployed>>
    PROVE  IndInv'
<1>0. /\ faults' \in 0..MaxFaults
      /\ \/ pc' = [pc EXCEPT ![l] = "lookup"] /\ status' = status
         \/ pc' = [pc EXCEPT ![l] = "done"] /\ status' = [status EXCEPT ![l] = 503]
  BY AuthConstants DEF IndInv, TypeOK, Write, Goto, Answer
<1>1. deployed' = deployed /\ \A k \in Logins \ {l} : LocalsKept(k)
  BY <1>0 DEF IndInv, TypeOK, read, LocalsKept
<1>2. TypeOK'
  BY <1>0 DEF IndInv, TypeOK, read, TableKept, Keyed
<1>3. LoginInv(l)'
  <2>1. Carries(l)'
    BY <1>0 DEF IndInv, TypeOK, read, Carries
  <2>2. LegacyIsKnown(l)' /\ Inhabited(l)'
    BY <1>0 DEF IndInv, TypeOK, read, LegacyIsKnown, Inhabited, TableKept
  <2>3. PastBootstrap(l)'
    BY DEF IndInv, PastBootstrap
  <2> QED BY <2>1, <2>2, <2>3 DEF LoginInv
<1>4. FreshAt(l)
  BY BootstrapIsNotFresh DEF FreshAt
<1> QED BY <1>1, <1>2, <1>3, <1>4, RotatedIsKept, StepKeepsIndInv

\* The deletion and the update aim at the row that the login found, so that none
\* is left.
LEMMA DeleteLegacyKeeps == ASSUME IndInv, NEW l \in Logins, DeleteLegacy(l) PROVE IndInv'
<1>1. CASE RowOf(legacyUser[l]) # {}
  <2> DEFINE table == users \ RowOf(legacyUser[l])
  <2>1. users' = table /\ pc[l] = "deleting" /\ Write(l, table)
    BY <1>1 DEF DeleteLegacy, Write
  <2>2. legacyUser[l] # None
    BY <2>1, AuthConstants DEF IndInv, Carries
  <2>3. NoLegacy'
    BY <2>1, <2>2 DEF IndInv, LegacyIsKnown, NoLegacy, RowWith, RowOf
  <2> QED BY <2>1, <2>3, DeleteKeepsTable, WriteKeeps DEF DeleteLegacy
<1>2. CASE RowOf(legacyUser[l]) = {}
  BY <1>2, ErrorKeeps DEF DeleteLegacy, Refused, IndInv, TypeOK
<1> QED BY <1>1, <1>2

LEMMA UpdateLegacyKeeps == ASSUME IndInv, NEW l \in Logins, UpdateLegacy(l) PROVE IndInv'
<1> DEFINE id == legacyUser[l]
           row == [id |-> id, email |-> "configured", password |-> "configured"]
           accepted == RowOf(id) # {} /\ RowWith("configured") \subseteq RowOf(id)
<1>1. CASE accepted
  <2> DEFINE table == (users \ RowOf(id)) \cup {row}
  <2>1. users' = table /\ pc[l] = "updating" /\ Write(l, table)
    BY <1>1 DEF UpdateLegacy, Write
  <2>2. id \in Ids /\ row \in Row /\ row.id = id /\ row.email = "configured"
    BY <2>1 DEF IndInv, Carries, Row, Emails, Passwords
  <2>3. TableKept
    BY <1>1, <2>1, <2>2, UpdateKeepsTable
  <2>4. NoLegacy'
    BY <2>1, <2>2, AuthConstants DEF IndInv, LegacyIsKnown, NoLegacy, RowWith, RowOf
  <2> QED BY <2>1, <2>3, <2>4, WriteKeeps DEF UpdateLegacy
<1>2. CASE ~accepted
  BY <1>2, ErrorKeeps DEF UpdateLegacy, Refused, IndInv, TypeOK
<1> QED BY <1>1, <1>2

\* The configured account is created where there was no historical one.
LEMMA CreateKeeps == ASSUME IndInv, NEW l \in Logins, Create(l) PROVE IndInv'
<1>0. NoLegacy
  BY AuthConstants DEF Create, IndInv, TypeOK, Carries, LegacyIsKnown, NoLegacy, RowWith, Row
<1>1. ASSUME NEW id \in Ids \ {r.id : r \in users}, RowWith("configured") = {},
             Write(l, users \cup {[id |-> id, email |-> "configured", password |-> "configured"]})
      PROVE  IndInv'
  <2> DEFINE row == [id |-> id, email |-> "configured", password |-> "configured"]
  <2>1. row \in Row /\ row.id = id /\ row.email = "configured" /\ users' = users \cup {row}
    BY <1>1 DEF Row, Emails, Passwords, Write
  <2>2. TableKept
    BY <1>1, <2>1, InsertKeepsTable
  <2>3. NoLegacy'
    BY <1>0, <2>1 DEF NoLegacy, RowWith
  <2> QED BY <1>1, <2>2, <2>3, WriteKeeps DEF Create, Write
<1>2. ASSUME UniqueConflict(l), UNCHANGED <<users, faults>> PROVE IndInv'
  <2>1. TableKept
    BY <1>2, ReadKeepsTable
  <2>2. deployed' = deployed /\ \A k \in Logins \ {l} : LocalsKept(k)
    BY <1>2 DEF IndInv, TypeOK, UniqueConflict, Create, Goto, read, LocalsKept
  <2>3. TypeOK'
    BY <1>2 DEF IndInv, TypeOK, UniqueConflict, Create, Goto, read
  <2>4. LoginInv(l)'
    BY <1>2 DEF IndInv, TypeOK, UniqueConflict, Create, Goto, read, LoginInv, Carries,
                LegacyIsKnown, Inhabited, PastBootstrap, NoLegacy, RowWith
  <2>5. FreshAt(l)
    BY BootstrapIsNotFresh DEF Create, FreshAt
  <2> QED BY <2>1, <2>2, <2>3, <2>4, <2>5, RotatedIsKept, StepKeepsIndInv DEF Create
<1> QED BY <1>1, <1>2 DEF Create

\* The conflict is settled by a look at the account.
LEMMA ConvergeKeeps == ASSUME IndInv, NEW l \in Logins, Converge(l) PROVE IndInv'
<1>1. CASE RowWith("configured") # {}
  <2>1. TableKept
    BY ReadKeepsTable DEF Converge, Same
  <2>2. deployed' = deployed /\ \A k \in Logins \ {l} : LocalsKept(k)
    BY <1>1 DEF IndInv, TypeOK, Converge, Same, Goto, read, LocalsKept
  <2>3. TypeOK'
    BY <1>1 DEF IndInv, TypeOK, Converge, Same, Goto, read
  <2>4. LoginInv(l)'
    <3>1. NoLegacy
      BY AuthConstants DEF Converge, IndInv, TypeOK, Carries, LegacyIsKnown, NoLegacy, RowWith, Row
    <3> QED BY <1>1, <3>1 DEF IndInv, TypeOK, Converge, Same, Goto, read, LoginInv, Carries,
                              LegacyIsKnown, Inhabited, PastBootstrap, NoLegacy, RowWith
  <2>5. FreshAt(l)
    BY BootstrapIsNotFresh DEF Converge, FreshAt
  <2> QED BY <2>1, <2>2, <2>3, <2>4, <2>5, RotatedIsKept, StepKeepsIndInv DEF Converge, Same
<1>2. CASE RowWith("configured") = {}
  BY <1>2, ErrorKeeps DEF Converge, Same, IndInv, TypeOK
<1> QED BY <1>1, <1>2

\* Past the bootstrap a login only reads.
LEMMA LookupKeeps == ASSUME IndInv, NEW l \in Logins, Lookup(l) PROVE IndInv'
<1>1. TableKept
  BY ReadKeepsTable DEF Lookup, Same
<1>2. NoLegacy /\ pc[l] = "lookup"
  BY DEF Lookup, IndInv, PastBootstrap
<1>3. deployed' = deployed /\ \A k \in Logins \ {l} : LocalsKept(k)
  BY DEF IndInv, TypeOK, Lookup, Answer, Same, Goto, read, LocalsKept
<1>4. TypeOK'
  BY DEF IndInv, TypeOK, Lookup, Answer, Same, Goto, read, RowWith
<1>5. Carries(l)'
  BY <1>2 DEF IndInv, TypeOK, Lookup, Answer, Same, Goto, read, Carries, RowWith, NoLegacy
<1>6. LegacyIsKnown(l)' /\ Inhabited(l)' /\ PastBootstrap(l)'
  BY <1>2 DEF IndInv, TypeOK, Lookup, Answer, Same, Goto, read, LegacyIsKnown, Inhabited,
              PastBootstrap, RowWith, NoLegacy
<1>7. FreshAt(l)
  BY DEF IndInv, TypeOK, Rotated, FreshAt, Lookup, Answer, Same, Goto, read
<1> QED BY <1>1, <1>3, <1>4, <1>5, <1>6, <1>7, RotatedIsKept, StepKeepsIndInv DEF Lookup, Same, LoginInv

LEMMA VerifyKeeps == ASSUME IndInv, NEW l \in Logins, Verify(l) PROVE IndInv'
<1>1. TableKept
  BY ReadKeepsTable DEF Verify
<1>2. NoLegacy /\ pc[l] = "verifying" /\ found[l] \in Row /\ found[l].email # "legacy"
  BY DEF Verify, IndInv, PastBootstrap, Carries
<1>3. PICK code \in {200, 401} : Answer(l, code)
  BY DEF Verify
<1>4. /\ session' \in [Logins -> Token \cup {None}]
      /\ \A k \in Logins \ {l} : session'[k] = session[k]
      /\ session'[l] # None => session'[l] \in Token /\ session'[l].email # "legacy"
  <2>1. session \in [Logins -> Token \cup {None}]
    BY DEF IndInv, TypeOK
  <2>2. CASE UNCHANGED session
    BY <2>1, <2>2 DEF IndInv, PastBootstrap
  <2>3. CASE session' = [session EXCEPT ![l] = [sub |-> found[l].id, email |-> found[l].email]]
    <3>1. [sub |-> found[l].id, email |-> found[l].email] \in Token
      BY <1>2 DEF Token, Row
    <3> QED BY <1>2, <2>1, <2>3, <3>1
  <2> QED BY <2>2, <2>3 DEF Verify
<1>a. /\ pc' = [pc EXCEPT ![l] = "done"] /\ status' = [status EXCEPT ![l] = code]
      /\ UNCHANGED <<users, configured, typed, count, legacyUser, found>>
      /\ UNCHANGED <<faults, rotations, fresh, deployed>>
  BY <1>3 DEF Verify, Answer, Goto, read
<1>5. deployed' = deployed /\ \A k \in Logins \ {l} : LocalsKept(k)
  BY <1>4, <1>a DEF IndInv, TypeOK, LocalsKept
<1>6. TypeOK'
  BY <1>4, <1>a DEF IndInv, TypeOK
<1>7. Carries(l)' /\ LegacyIsKnown(l)' /\ Inhabited(l)'
  BY <1>2, <1>3 DEF IndInv, TypeOK, Verify, Answer, Goto, read, Carries, LegacyIsKnown, Inhabited
<1>8. PastBootstrap(l)'
  BY <1>2, <1>4 DEF IndInv, TypeOK, Verify, PastBootstrap, NoLegacy, RowWith
<1>9. FreshAt(l)
  BY <1>3 DEF IndInv, TypeOK, Rotated, FreshAt, Verify, Answer, Goto, read
<1> QED BY <1>1, <1>5, <1>6, <1>7, <1>8, <1>9, RotatedIsKept, StepKeepsIndInv DEF Verify, LoginInv

LEMMA StatementFailsKeeps == ASSUME IndInv, NEW l \in Logins, StatementFails(l) PROVE IndInv'
<1>1. faults' \in 0..MaxFaults
  BY AuthConstants DEF IndInv, TypeOK, StatementFails
<1> QED BY <1>1, ErrorKeeps DEF StatementFails

\* A rotation needs a session, and with it the end of the bootstrap.
LEMMA RotateKeeps == ASSUME IndInv, NEW l \in Logins, Rotate(l) PROVE IndInv'
<1>1. PICK email \in {"configured", "chosen"} :
          /\ RowOf(session[l].sub) # {}
          /\ RowWith(email) \subseteq RowOf(session[l].sub)
          /\ users' = (users \ RowOf(session[l].sub))
                        \cup {[id |-> session[l].sub, email |-> email, password |-> "chosen"]}
  BY DEF Rotate
<1> DEFINE row == [id |-> session[l].sub, email |-> email, password |-> "chosen"]
<1>2. NoLegacy /\ session[l] \in Token
  BY DEF Rotate, HasSession, IndInv, PastBootstrap
<1>3. session[l].sub \in Ids /\ row \in Row /\ row.id = session[l].sub /\ row.email = email
  BY <1>2 DEF Token, Row, Emails, Passwords
<1>4. TableKept
  BY <1>1, <1>3, UpdateKeepsTable
<1>5. deployed' = deployed /\ \A k \in Logins : LocalsKept(k)
  BY DEF Rotate, read, LocalsKept
<1>6. rotations' \in 0..MaxRotations /\ rotations' > 0
  BY AuthConstants DEF IndInv, TypeOK, Rotate
<1>7. TypeOK'
  BY <1>4, <1>6 DEF IndInv, TypeOK, Rotate, read, TableKept, Keyed
<1>8. NoLegacy' /\ users' # {}
  BY <1>1, <1>2, <1>4 DEF NoLegacy, RowWith, TableKept
<1>9. Rotated'
  BY <1>6, <1>8 DEF IndInv, Rotated, Rotate, read
<1>10. LoginInv(l)'
  BY <1>4, <1>5, OthersKeepLogin
<1> QED BY <1>4, <1>5, <1>7, <1>9, <1>10, StepKeepsIndInv

LEMMA LogoutKeeps == ASSUME IndInv, NEW l \in Logins, Logout(l) PROVE IndInv'
<1>1. TableKept
  BY ReadKeepsTable DEF Logout
<1>2. deployed' = deployed /\ \A k \in Logins \ {l} : LocalsKept(k)
  BY DEF IndInv, TypeOK, Logout, read, LocalsKept
<1>3. TypeOK'
  BY DEF IndInv, TypeOK, Logout, read
<1>4. LoginInv(l)'
  BY DEF IndInv, TypeOK, Logout, read, LoginInv, Carries, LegacyIsKnown, Inhabited,
         PastBootstrap, NoLegacy, RowWith
<1>5. FreshAt(l)
  BY DEF IndInv, TypeOK, Rotated, FreshAt, Logout, read
<1> QED BY <1>1, <1>2, <1>3, <1>4, <1>5, RotatedIsKept, StepKeepsIndInv DEF Logout

LEMMA StutterKeeps == IndInv /\ UNCHANGED vars => IndInv'
<1> SUFFICES ASSUME IndInv, UNCHANGED vars PROVE IndInv'
  OBVIOUS
<1>1. TableKept /\ deployed' = deployed /\ \A k \in Logins : LocalsKept(k)
  BY ReadKeepsTable DEF vars, read, LocalsKept
<1>2. TypeOK' /\ Rotated'
  BY DEF IndInv, TypeOK, Rotated, NoLegacy, RowWith, Keyed, vars, read
<1>3. (deployed # {} => users # {})' /\ LegacyStays'
  BY DEF IndInv, LegacyStays, vars
<1>4. \A k \in Logins : LoginInv(k)'
  BY <1>1, OthersKeepLogin
<1> QED BY <1>2, <1>3, <1>4 DEF IndInv, LoginInv

LEMMA NextKeeps == IndInv /\ [Next]_vars => IndInv'
<1> SUFFICES ASSUME IndInv, Next PROVE IndInv'
  BY StutterKeeps
<1>1. PICK l \in Logins : Login(l) \/ Rotate(l) \/ Logout(l)
  BY DEF Next
<1> QED BY <1>1, BeginKeeps, ReadCountKeeps, ReadLegacyKeeps, FindConfiguredKeeps, DeleteLegacyKeeps,
           UpdateLegacyKeeps, CreateKeeps, ConvergeKeeps, LookupKeeps, VerifyKeeps,
           StatementFailsKeeps, RotateKeeps, LogoutKeeps DEF Login

LEMMA IndInvHolds == Spec => []IndInv
<1>1. Init => IndInv
  BY InitIndInv
<1> QED BY <1>1, NextKeeps, PTL DEF Spec

-----------------------------------------------------------------------------
(* The first logins converge.                                              *)

\* What a step leaves of the convergence: the one account stays one, and the
\* configured account stays.
AccountKept == OneAccount' /\ (RowWith("configured") # {} => RowWith("configured")' # {})

LEMMA SameTableKeepsAccount ==
    ASSUME OneAccount, users' = users, deployed' = deployed PROVE AccountKept
  BY DEF OneAccount, AccountKept, RowWith

\* The other logins are still on their way.
LEMMA OthersOnTheirWay ==
    ASSUME AccountKept, NEW k \in Logins, OnItsWay(k), LocalsKept(k) PROVE OnItsWay(k)'
  BY DEF AccountKept, OnItsWay, LocalsKept

\* In a first deployment the login at work finds its place.
LEMMA LoginConverges ==
    ASSUME IndInv, IndInv', FirstDeployment, FirstDeployment', OneAccount,
           \A k \in Logins : OnItsWay(k), NEW l \in Logins, Login(l)
    PROVE  AccountKept /\ \A k \in Logins : OnItsWay(k)'
<1>0. /\ deployed' = deployed /\ configured' = configured
      /\ pc \in [Logins -> {"idle", "reading", "finding", "deleting", "updating", "creating",
                             "converging", "lookup", "verifying", "done"}]
      /\ typed \in [Logins -> Credentials \cup {None}] /\ count \in [Logins -> {"zero", "some", None}]
      /\ legacyUser \in [Logins -> Ids \cup {"no", None}] /\ found \in [Logins -> Row \cup {None}]
      /\ status \in [Logins -> {200, 401, 500, 503, None}]
      /\ session \in [Logins -> Token \cup {None}] /\ users \subseteq Row
  BY DEF IndInv, TypeOK, Login, Begin, ReadCount, ReadLegacy, FindConfigured, DeleteLegacy, UpdateLegacy,
         Create, Converge, Lookup, Verify, StatementFails, Same
<1>1. \A k \in Logins \ {l} : LocalsKept(k)
  <2>1. CASE Begin(l)
    BY <1>0, <2>1 DEF Begin, Goto, read, LocalsKept
  <2>2. CASE ReadCount(l) \/ ReadLegacy(l)
    <3>1. /\ \A k \in Logins \ {l} : count'[k] = count[k] /\ legacyUser'[k] = legacyUser[k]
          /\ UNCHANGED <<typed, found, session>>
      BY <1>0, <2>2 DEF ReadCount, ReadLegacy
    <3>2. PICK c, g : AfterReads(l, c, g)
      BY <2>2 DEF ReadCount, ReadLegacy
    <3>3. \A k \in Logins \ {l} : pc'[k] = pc[k] /\ status'[k] = status[k]
      BY <1>0, <3>2, AfterReadsCases DEF Goto, Answer
    <3> QED BY <3>1, <3>3 DEF LocalsKept
  <2>3. CASE FindConfigured(l) \/ DeleteLegacy(l) \/ UpdateLegacy(l) \/ Create(l)
    BY <1>0, <2>3 DEF FindConfigured, DeleteLegacy, UpdateLegacy, Create, Write, Refused, UniqueConflict,
                      Answer, Goto, Same, read, LocalsKept
  <2>4. CASE Converge(l) \/ Lookup(l) \/ Verify(l) \/ StatementFails(l)
    BY <1>0, <2>4 DEF Converge, Lookup, Verify, StatementFails, Answer, Goto, Same, read, LocalsKept
  <2> QED BY <2>1, <2>2, <2>3, <2>4 DEF Login
<1>2. SUFFICES AccountKept /\ OnItsWay(l)'
  BY <1>1, OthersOnTheirWay
<1>3. OnItsWay(l) /\ LoginInv(l) /\ LoginInv(l)'
  BY DEF IndInv, LoginInv
<1>f. faults' # faults + 1
  BY DEF FirstDeployment
<1>4. CASE Begin(l)
  <2>1. AccountKept
    BY <1>0, <1>4, SameTableKeepsAccount DEF Begin
  <2>2. OnItsWay(l)'
    BY <1>0, <1>3, <1>4 DEF Begin, Goto, OnItsWay, LoginInv, Carries
  <2> QED BY <2>1, <2>2
<1>5. CASE ReadCount(l) \/ ReadLegacy(l)
  <2>1. AccountKept /\ pc[l] = "reading" /\ users' = users /\ UNCHANGED <<typed, found>>
    BY <1>0, <1>5, SameTableKeepsAccount DEF ReadCount, ReadLegacy
  <2>2. PICK c, g : AfterReads(l, c, g) /\ c = count'[l] /\ g = legacyUser'[l]
    BY <1>0, <1>5 DEF ReadCount, ReadLegacy
  <2>3. pc'[l] \in {"reading", "lookup", "creating", "finding"} /\ status'[l] = None
        /\ (pc'[l] = "lookup" => c = "some")
    <3>1. configured /\ status[l] = None
      BY <1>3, <2>1 DEF FirstDeployment, LoginInv, Carries
    <3> QED BY <1>0, <2>1, <2>2, <3>1, AfterReadsCases DEF Goto
  <2>4. pc'[l] = "lookup" => RowWith("configured")' # {}
    <3>1. pc'[l] = "lookup" => users # {} /\ NoLegacy'
      BY <1>3, <2>1, <2>2, <2>3 DEF LoginInv, Inhabited, PastBootstrap
    <3> QED BY <2>1, <3>1 DEF OneAccount, NoLegacy, RowWith
  <2> QED BY <2>1, <2>3, <2>4 DEF OnItsWay
<1>6. CASE FindConfigured(l)
  <2>1. AccountKept
    BY <1>0, <1>6, SameTableKeepsAccount DEF FindConfigured, Same
  <2>2. \A r \in users : r.id = legacyUser[l]
    BY <1>3, <1>6 DEF FindConfigured, LoginInv, Carries, LegacyIsKnown, OneAccount
  <2>3. pc'[l] = "updating"
    BY <1>0, <1>6, <2>2 DEF FindConfigured, Goto, RowWith
  <2> QED BY <1>0, <1>3, <1>6, <2>1, <2>3 DEF FindConfigured, Same, OnItsWay
<1>7. CASE DeleteLegacy(l)
  BY <1>3, <1>7 DEF DeleteLegacy, OnItsWay
<1>8. CASE UpdateLegacy(l)
  <2> DEFINE id == legacyUser[l]
             row == [id |-> id, email |-> "configured", password |-> "configured"]
  <2>1. pc[l] = "updating" /\ id \in Ids
    BY <1>3, <1>8 DEF UpdateLegacy, LoginInv, Carries
  <2>2. PICK d \in deployed : d.id = id
    BY <1>3, <2>1 DEF LoginInv, LegacyIsKnown
  <2>3. users # {} /\ users = RowOf(id)
    BY <2>2 DEF IndInv, OneAccount, RowOf
  <2>4. users' = {row} /\ Goto(l, "lookup") /\ UNCHANGED <<status, typed, found>>
    BY <1>f, <1>8, <2>3 DEF UpdateLegacy, Write, RowWith
  <2>5. \A e \in deployed : e.id = id
    BY <2>2, <2>3 DEF OneAccount
  <2>6. row.id = id /\ row.email = "configured" /\ row.password = "configured"
    OBVIOUS
  <2> HIDE DEF row
  <2>7. RowWith("configured")' # {}
    BY <2>4, <2>6 DEF RowWith
  <2>8. AccountKept
    BY <1>0, <2>4, <2>5, <2>6, <2>7 DEF AccountKept, OneAccount
  <2> QED BY <1>0, <1>3, <2>1, <2>4, <2>7, <2>8 DEF OnItsWay, Goto
<1>9. CASE Create(l)
  <2>1. pc[l] = "creating" /\ deployed = {} /\ NoLegacy /\ UNCHANGED <<typed, found>>
    BY <1>0, <1>3, <1>9, AuthConstants DEF Create, LoginInv, Carries, Inhabited, LegacyIsKnown, NoLegacy, RowWith, Row
  <2>2. ASSUME NEW id \in Ids, RowWith("configured") = {},
               Write(l, users \cup {[id |-> id, email |-> "configured", password |-> "configured"]})
        PROVE  AccountKept /\ OnItsWay(l)'
    <3> DEFINE row == [id |-> id, email |-> "configured", password |-> "configured"]
    <3>1. users = {}
      BY <2>1, <2>2 DEF OneAccount, NoLegacy, RowWith
    <3>2. users' = {row} /\ Goto(l, "lookup") /\ UNCHANGED status
      BY <1>f, <2>2, <3>1 DEF Write
    <3>3. row.email = "configured" /\ row.password = "configured"
      OBVIOUS
    <3> HIDE DEF row
    <3>4. RowWith("configured")' # {}
      BY <3>2, <3>3 DEF RowWith
    <3>5. AccountKept
      BY <1>0, <2>1, <3>2, <3>3, <3>4 DEF AccountKept, OneAccount
    <3> QED BY <1>0, <1>3, <2>1, <3>2, <3>4, <3>5 DEF OnItsWay, Goto
  <2>3. ASSUME RowWith("configured") # {}, UniqueConflict(l), UNCHANGED users
        PROVE  AccountKept /\ OnItsWay(l)'
    <3>1. AccountKept
      BY <1>0, <2>3, SameTableKeepsAccount
    <3> QED BY <1>0, <1>3, <2>1, <2>3, <3>1 DEF OnItsWay, UniqueConflict, Goto, AccountKept
  <2> QED BY <1>9, <2>2, <2>3 DEF Create
<1>10. CASE Converge(l)
  <2>1. AccountKept
    BY <1>0, <1>10, SameTableKeepsAccount DEF Converge, Same
  <2> QED BY <1>0, <1>3, <1>10, <2>1 DEF Converge, Goto, Same, OnItsWay, AccountKept
<1>11. CASE Lookup(l)
  <2>1. AccountKept /\ RowWith("configured") # {} /\ pc[l] = "lookup" /\ typed' = typed
    BY <1>0, <1>3, <1>11, SameTableKeepsAccount DEF Lookup, Same, OnItsWay
  <2>2. CASE RowWith(typed[l].email) = {} /\ Answer(l, 401) /\ UNCHANGED found
    BY <1>0, <1>3, <2>1, <2>2 DEF Answer, Goto, OnItsWay
  <2>3. ASSUME NEW r \in RowWith(typed[l].email), found' = [found EXCEPT ![l] = r],
               Goto(l, "verifying"), UNCHANGED status
        PROVE  OnItsWay(l)'
    <3>1. NoLegacy
      BY <1>3, <2>1 DEF LoginInv, PastBootstrap
    <3>2. r.password = "configured"
      BY <2>3, <3>1 DEF RowWith, NoLegacy, OneAccount
    <3> QED BY <1>0, <1>3, <2>1, <2>3, <3>2 DEF Goto, OnItsWay, AccountKept
  <2> QED BY <1>11, <2>1, <2>2, <2>3 DEF Lookup
<1>12. CASE Verify(l)
  <2>1. AccountKept /\ pc[l] = "verifying" /\ typed' = typed /\ found[l].password = "configured"
    BY <1>0, <1>3, <1>12, SameTableKeepsAccount DEF Verify, OnItsWay
  <2>2. typed[l].email = "configured" => typed[l].password = "configured"
    BY <1>3, <2>1 DEF LoginInv, Carries, Credentials
  <2> QED BY <1>0, <1>3, <1>12, <2>1, <2>2 DEF Verify, Answer, Goto, OnItsWay
<1>13. CASE StatementFails(l)
  BY <1>13 DEF StatementFails, FirstDeployment, IndInv, TypeOK
<1> QED BY <1>4, <1>5, <1>6, <1>7, <1>8, <1>9, <1>10, <1>11, <1>12, <1>13 DEF Login

LEMMA ConvergesIsKept == IndInv /\ IndInv' /\ Converges /\ [Next]_vars => Converges'
<1> SUFFICES ASSUME IndInv, IndInv', Converges, [Next]_vars, FirstDeployment'
             PROVE  OneAccount' /\ \A k \in Logins : OnItsWay(k)'
  BY DEF Converges
<1>1. CASE UNCHANGED vars
  <2>1. FirstDeployment
    BY <1>1 DEF FirstDeployment, vars
  <2>2. AccountKept /\ \A k \in Logins : LocalsKept(k)
    BY <1>1, <2>1, SameTableKeepsAccount DEF Converges, vars, read, LocalsKept
  <2> QED BY <2>1, <2>2, OthersOnTheirWay DEF Converges, AccountKept
<1>2. ASSUME NEW l \in Logins, Login(l) PROVE OneAccount' /\ \A k \in Logins : OnItsWay(k)'
  <2>1. deployed' = deployed /\ configured' = configured /\ rotations' = rotations
        /\ (faults' = faults \/ faults' = faults + 1)
    BY <1>2 DEF Login, Begin, ReadCount, ReadLegacy, FindConfigured, DeleteLegacy, UpdateLegacy,
                Create, Write, Refused, Converge, Lookup, Verify, StatementFails, Same
  <2>2. faults \in Nat
    BY AuthConstants DEF IndInv, TypeOK
  <2>3. FirstDeployment
    BY <2>1, <2>2 DEF FirstDeployment
  <2> QED BY <1>2, <2>3, LoginConverges DEF Converges, AccountKept
<1>3. ASSUME NEW l \in Logins, Rotate(l) PROVE FALSE
  BY <1>3, AuthConstants DEF Rotate, FirstDeployment, IndInv, TypeOK
<1>4. ASSUME NEW l \in Logins, Logout(l) PROVE OneAccount' /\ \A k \in Logins : OnItsWay(k)'
  <2>1. FirstDeployment
    BY <1>4 DEF Logout, FirstDeployment
  <2>2. AccountKept
    BY <1>4, <2>1, SameTableKeepsAccount DEF Converges, Logout
  <2> QED BY <1>4, <2>1, <2>2 DEF Converges, AccountKept, OnItsWay, Logout
<1> QED BY <1>1, <1>2, <1>3, <1>4 DEF Next

-----------------------------------------------------------------------------
(* The results.                                                            *)

\* No login is answered and no session issued past ensureBootstrapUser while the
\* historical account exists, for any number of concurrent logins, any table
\* found at deployment and any failing statement.
THEOREM HistoricalAccountIsRetired == Spec => []LegacyIsRetired
<1>1. IndInv => LegacyIsRetired
  BY DEF IndInv, PastBootstrap, NoLegacy, LegacyIsRetired
<1> QED BY <1>1, IndInvHolds, PTL

\* Concurrent first logins converge on one account, and let in everyone who types
\* the configured credentials.
THEOREM FirstLoginsConverge == Spec => []BootstrapConverges
<1>1. IndInv /\ Converges => BootstrapConverges
  <2> SUFFICES ASSUME IndInv, OneAccount, \A l \in Logins : OnItsWay(l)
               PROVE  /\ Cardinality(users) <= 1
                      /\ \A l \in Logins : status[l] \in {None, 200, 401}
                      /\ \A l \in Logins :
                            status[l] # None /\ typed[l].email = "configured" => status[l] = 200
    BY DEF Converges, FirstDeployment, BootstrapConverges
  <2>1. users = {} \/ \E r \in users : users = {r}
    BY DEF OneAccount
  <2>2. Cardinality(users) <= 1
    <3>1. CASE users = {}
      BY <3>1, FS_EmptySet
    <3>2. ASSUME NEW r \in users, users = {r} PROVE Cardinality(users) = 1
      <4>1. Cardinality({r}) = 1
        BY FS_Singleton
      <4> QED BY <3>2, <4>1
    <3> QED BY <2>1, <3>1, <3>2
  <2> QED BY <2>2 DEF OnItsWay
<1>2. Spec => []Converges
  <2>1. Init => Converges
    BY InitIndInv
  <2> QED BY <2>1, ConvergesIsKept, IndInvHolds, PTL DEF Spec
<1> QED BY <1>1, <1>2, IndInvHolds, PTL

\* A login that begins after a rotation never writes: the settings route is the
\* only way to change the credentials from then on.
THEOREM RotationIsFinal == Spec => LaterLoginsChangeNothing
<1>1. IndInv /\ [Next]_vars => [\A l \in fresh : pc'[l] # pc[l] => users' = users]_vars
  <2> SUFFICES ASSUME IndInv, Next, NEW l \in fresh, pc'[l] # pc[l] PROVE users' = users
    BY DEF vars
  <2>1. l \in Logins /\ pc[l] \in {"reading", "lookup", "verifying", "done"}
    BY DEF IndInv, Rotated, TypeOK
  <2>2. PICK k \in Logins : Login(k) \/ Rotate(k) \/ Logout(k)
    BY DEF Next
  <2>3. CASE DeleteLegacy(k) \/ UpdateLegacy(k) \/ Create(k)
    <3>1. pc[k] \in {"deleting", "updating", "creating"} /\ k # l
      BY <2>1, <2>3 DEF DeleteLegacy, UpdateLegacy, Create
    <3>2. pc'[l] = pc[l]
      BY <2>1, <2>3, <3>1 DEF IndInv, TypeOK, DeleteLegacy, UpdateLegacy, Create, Write, Refused,
                              UniqueConflict, Answer, Goto
    <3> QED BY <3>2
  <2>4. CASE Rotate(k)
    BY <2>4 DEF Rotate
  <2> QED BY <2>2, <2>3, <2>4 DEF Login, Begin, ReadCount, ReadLegacy, FindConfigured, Converge, Lookup,
                                  Verify, StatementFails, Same, Logout
<1> QED BY <1>1, IndInvHolds, PTL DEF Spec, LaterLoginsChangeNothing

=============================================================================
