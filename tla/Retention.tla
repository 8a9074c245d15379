----------------------------- MODULE Retention -----------------------------
(***************************************************************************)
(* Newsletter retention: an operator's dry run selects expired batches and *)
(* publishes an escrow file with every row, a private artifact and a       *)
(* public manifest; an apply run deletes the batches, one Serializable     *)
(* transaction each, after comparing them with the escrow. The two share a *)
(* MariaDB named lock, which is lost with its connection; the tables are   *)
(* written by the rest of the proxy all the while, and the dry run reads   *)
(* them in separate queries. A published file is never changed, and a hash *)
(* stands for the content it is computed from.                             *)
(***************************************************************************)
EXTENDS RetentionTables, Sequences, SequencesExt

CONSTANTS
    DryRuns, Applies,  \* command invocations without and with --apply
    DryRunLines,       \* dry-run command lines: policy and output paths
    ApplyLines,        \* apply command lines: policy and input paths
    Paths,             \* file names
    None

Commands == DryRuns \cup Applies

Sites == {SiteOf[b] : b \in Batches}
Policies == [siteId : Sites, cutoff : Nat, maxBatches : Nat \ {0}, maxMessages : Nat \ {0}]

(***************************************************************************)
(* What the commands work on: candidates of a selection, records of an     *)
(* escrow stream, and the three kinds of files.                            *)
(***************************************************************************)
Candidate == [id : Batches, messageCount : Nat, errorCount : Nat, notificationCount : Nat,
              orphanCount : Nat, messages : SUBSET Messages]
EscrowRecord == [id : Batches, messages : SUBSET Messages, errors : SUBSET Errors,
                 notifications : SUBSET Notifications]
ManifestEntry == [batchId : Nat, createdAt : Nat, messageCount : Nat, notificationCount : Nat,
                  errorCount : Nat]
ManifestFile == [kind : {"manifest"}, siteId : Sites, cutoff : Nat, batches : Seq(ManifestEntry)]
EscrowFile == [kind : {"escrow"}, siteId : Sites, cutoff : Nat, manifest : ManifestFile,
               records : Seq(EscrowRecord)]
ArtifactFile == [kind : {"artifact"}, manifest : ManifestFile, escrow : EscrowFile,
                 bindings : Seq(Batches)]

ASSUME RetentionConstants ==
    /\ DryRuns \cap Applies = {}
    /\ None \notin Commands \cup Paths /\ None \notin {"ok", "failed"}
    /\ None \notin ManifestFile /\ None \notin EscrowFile /\ None \notin ArtifactFile
    /\ DryRunLines \subseteq
         {l \in [policy : Policies, escrowOut : Paths \cup {None},
                 privateArtifactOut : Paths \cup {None},
                 manifestOut : Paths \cup {None}] :
            /\ l.privateArtifactOut # None => l.escrowOut # None
            /\ l.escrowOut # None => l.escrowOut \notin
                                       {l.privateArtifactOut, l.manifestOut}
            /\ l.manifestOut # None => l.manifestOut # l.privateArtifactOut}
    /\ ApplyLines \subseteq
         {l \in [policy : Policies, manifestFile : Paths,
                 privateArtifactFile : Paths, escrowFile : Paths] :
            /\ l.manifestFile # l.privateArtifactFile
            /\ l.escrowFile \notin {l.manifestFile, l.privateArtifactFile}}

VARIABLES
    holder,      \* the owner of the named lock
    pc,          \* where each command is
    line,        \* its command line
    candidates,  \* dry run: the candidate records
    at,          \* dry run: the candidate being loaded or streamed
    records,     \* dry run: the escrow records streamed so far
    moments,     \* history: the tables when a batch's e-mails were streamed
    files,       \* published files
    input,       \* apply: the files read and verified
    completed,   \* apply: completedBatchCount
    removed,     \* history: the batches each apply run deleted
    outcome      \* what the command reported

dryRun == <<candidates, at, records, moments>>
applying == <<input, completed, removed>>
vars == <<tables, holder, pc, line, dryRun, files, applying, outcome>>

Leased == {"select", "messages", "orphans", "plan", "parent", "rows", "errors",
           "notifications", "validate", "escrow", "artifact", "manifest", "apply"}

Policy(p) == line[p].policy
Expired_Inclusive(b, policy) ==
    SiteOf[b] = policy.siteId /\ CreatedOf[b] <= policy.cutoff

Expired(b, policy) == SiteOf[b] = policy.siteId /\ CreatedOf[b] < policy.cutoff

\* The sum of a list of counts, as the size of a disjoint union: no recursion.
SumOver(counts) == Cardinality(UNION {{i} \X (1..counts[i]) : i \in DOMAIN counts})

(***************************************************************************)
(* The canonical order of candidates, shared by the loader, the plan, the  *)
(* manifest and the escrow stream: creation time, batchId, the counts and, *)
(* where the private id is known, the id. The database lists batches by    *)
(* creation time and id.                                                   *)
(***************************************************************************)
SortKey(c) == <<CreatedOf[c.id], BatchIdOf[c.id], c.messageCount,
                c.notificationCount, c.errorCount, c.id>>
Older(c, d) ==
    \/ CreatedOf[c.id] < CreatedOf[d.id]
    \/ CreatedOf[c.id] = CreatedOf[d.id] /\ c.id < d.id
Before(c, d) ==
    \E i \in 1..6 :
       /\ SortKey(c)[i] < SortKey(d)[i]
       /\ \A j \in 1..(i - 1) : SortKey(c)[j] = SortKey(d)[j]

\* The listings of a set in an order: one, if the order is total on it.
Ordered(S, Precedes(_, _)) ==
    {s \in [1..Cardinality(S) -> S] :
       \A i, j \in 1..Cardinality(S) : i < j => Precedes(s[i], s[j])}

ManifestBatch(c) ==
    [batchId |-> BatchIdOf[c.id], createdAt |-> CreatedOf[c.id],
     messageCount |-> c.messageCount, notificationCount |-> c.notificationCount,
     errorCount |-> c.errorCount]

(***************************************************************************)
(* The three files of a dry run.                                           *)
(***************************************************************************)
Manifest(policy, cs) ==
    [kind |-> "manifest", siteId |-> policy.siteId, cutoff |-> policy.cutoff,
     batches |-> [i \in DOMAIN cs |-> ManifestBatch(cs[i])]]
Escrow(policy, cs, rs) ==
    [kind |-> "escrow", siteId |-> policy.siteId, cutoff |-> policy.cutoff,
     manifest |-> Manifest(policy, cs), records |-> rs]
Artifact(policy, cs, rs) ==
    [kind |-> "artifact", manifest |-> Manifest(policy, cs),
     escrow |-> Escrow(policy, cs, rs),
     bindings |-> [i \in DOMAIN cs |-> cs[i].id]]

EscrowMatchesManifest(e, m) ==
    /\ e.siteId = m.siteId
    /\ e.cutoff = m.cutoff
    /\ e.manifest = m
    /\ Len(e.records) = Len(m.batches)
    /\ SumOver([i \in DOMAIN e.records |-> Cardinality(e.records[i].messages)])
         = SumOver([i \in DOMAIN m.batches |-> m.batches[i].messageCount])
    /\ SumOver([i \in DOMAIN e.records |-> Cardinality(e.records[i].errors)])
         = SumOver([i \in DOMAIN m.batches |-> m.batches[i].errorCount])
    /\ SumOver([i \in DOMAIN e.records |-> Cardinality(e.records[i].notifications)])
         = SumOver([i \in DOMAIN m.batches |-> m.batches[i].notificationCount])

----------------------------------------------------------------------------
Init ==
    /\ TablesInit
    /\ holder = None
    /\ pc = [p \in Commands |-> "idle"]
    /\ line = [p \in Commands |-> None]
    /\ candidates = [p \in DryRuns |-> <<>>]
    /\ at = [p \in DryRuns |-> 1]
    /\ records = [p \in DryRuns |-> <<>>]
    /\ moments = [p \in DryRuns |-> <<>>]
    /\ files = [f \in Paths |-> None]
    /\ input = [p \in Applies |-> None]
    /\ completed = [p \in Applies |-> 0]
    /\ removed = [p \in Applies |-> <<>>]
    /\ outcome = [p \in Commands |-> None]

GoTo(p, label) == pc' = [pc EXCEPT ![p] = label]

Fail_KeepsLease(p) ==
    outcome' = [outcome EXCEPT ![p] = "failed"] /\ GoTo(p, "done")

\* A throw: the finally block releases the lease, if there is one.
Fail(p) ==
    /\ outcome' = [outcome EXCEPT ![p] = "failed"]
    /\ GoTo(p, IF pc[p] \in Leased THEN "release" ELSE "done")

Succeed(p) ==
    /\ outcome' = [outcome EXCEPT ![p] = "ok"]
    /\ GoTo(p, "release")

(***************************************************************************)
(* Both commands: parse the command line, take the named lock, give it     *)
(* back. A lease whose connection was lost cannot be released, and that    *)
(* overrides the result.                                                   *)
(***************************************************************************)
Begin(p) ==
    /\ pc[p] = "idle"
    /\ \E l \in IF p \in DryRuns THEN DryRunLines ELSE ApplyLines :
          line' = [line EXCEPT ![p] = l]
    /\ GoTo(p, IF p \in DryRuns THEN "lock" ELSE "read")
    /\ UNCHANGED <<tables, holder, dryRun, files, applying, outcome>>

TryAcquire(p) ==
    /\ pc[p] = "lock"
    /\ IF holder = None
         THEN /\ holder' = p
              /\ GoTo(p, IF p \in DryRuns THEN "select" ELSE "apply")
              /\ UNCHANGED outcome
         ELSE Fail(p) /\ UNCHANGED holder
    /\ UNCHANGED <<tables, line, dryRun, files, applying>>

Release(p) ==
    /\ pc[p] = "release"
    /\ GoTo(p, "done")
    /\ IF holder = p
         THEN holder' = None /\ UNCHANGED outcome
         ELSE outcome' = [outcome EXCEPT ![p] = "failed"] /\ UNCHANGED holder
    /\ UNCHANGED <<tables, line, dryRun, files, applying>>

\* An I/O or database error, or evidence that is not healthy and fresh. After the
\* last batch: the escrow source fails to close, which overrides the receipt.
Throw(p) ==
    /\ pc[p] \notin {"idle", "release", "done", "crashed"}
    /\ Fail(p)
    /\ UNCHANGED <<tables, holder, line, dryRun, files, applying>>

\* The process dies; the server frees the lock of a closed connection.
Crash(p) ==
    /\ pc[p] \notin {"idle", "done", "crashed"}
    /\ GoTo(p, "crashed")
    /\ holder' = IF holder = p THEN None ELSE holder
    /\ UNCHANGED <<tables, line, dryRun, files, applying, outcome>>

\* The lock's own connection is lost while the command goes on.
LoseLock(p) ==
    /\ holder = p
    /\ holder' = None
    /\ UNCHANGED <<tables, pc, line, dryRun, files, applying, outcome>>

----------------------------------------------------------------------------
(***************************************************************************)
(* Dry run, selection: one query for the batches with their counts, then   *)
(* two for each batch that has e-mails.                                    *)
(***************************************************************************)
LoadBatches(p) ==
    LET C == {[id |-> b, messageCount |-> Cardinality(MessagesIn(b)),
               errorCount |-> Cardinality(ErrorsIn(b)), notificationCount |-> 0,
               orphanCount |-> 0, messages |-> {}] :
                 b \in {b \in batches : Expired(b, Policy(p))}}
    IN  /\ pc[p] = "select"
        /\ \E found \in Ordered(C, Older) :
             IF /\ Len(found) <= Policy(p).maxBatches
                /\ SumOver([i \in DOMAIN found |-> found[i].messageCount]) <= Policy(p).maxMessages
               THEN /\ candidates' = [candidates EXCEPT ![p] = found]
                    /\ GoTo(p, IF found = <<>> THEN "plan" ELSE "messages")
                    /\ UNCHANGED outcome
               ELSE Fail(p) /\ UNCHANGED candidates
        /\ UNCHANGED <<tables, holder, line, at, records, moments, files, applying>>

Advance_NoReset(p, again, then) ==
    /\ at' = [at EXCEPT ![p] = @ + 1]
    /\ GoTo(p, IF at[p] < Len(candidates[p]) THEN again ELSE then)

\* The step after candidate at[p]: the next one at `again`, or `then`.
Advance(p, again, then) ==
    IF at[p] < Len(candidates[p])
      THEN at' = [at EXCEPT ![p] = @ + 1] /\ GoTo(p, again)
      ELSE at' = [at EXCEPT ![p] = 1] /\ GoTo(p, then)

LoadMessages(p) ==
    LET c == candidates[p][at[p]]
        M == MessagesIn(c.id)
    IN  /\ pc[p] = "messages"
        /\ IF c.messageCount = 0
             THEN Advance(p, "messages", "plan") /\ UNCHANGED <<candidates, outcome>>
             ELSE IF Cardinality(M) = c.messageCount
               THEN /\ candidates' = [candidates EXCEPT ![p][at[p]] =
                          [@ EXCEPT !.messages = M,
                             !.notificationCount = Cardinality(NotificationsOn(M))]]
                    /\ GoTo(p, "orphans")
                    /\ UNCHANGED <<at, outcome>>
               ELSE Fail(p) /\ UNCHANGED <<candidates, at>>
        /\ UNCHANGED <<tables, holder, line, records, moments, files, applying>>

CountBatchLinkedOrphans(p) ==
    /\ pc[p] = "orphans"
    /\ candidates' = [candidates EXCEPT ![p][at[p]].orphanCount =
                        Cardinality(OpenOrphansOn(candidates[p][at[p]].messages))]
    /\ Advance(p, "messages", "plan")
    /\ UNCHANGED <<tables, holder, line, records, moments, files, applying, outcome>>

\* Sorting by the complete key and the checks of the selection plan.
BuildSelectionPlan(p) ==
    LET cs == candidates[p]
    IN  /\ pc[p] = "plan"
        /\ IF \A i \in DOMAIN cs : cs[i].orphanCount = 0
             THEN /\ \E sorted \in Ordered(Range(cs), Before) :
                        candidates' = [candidates EXCEPT ![p] = sorted]
                  /\ GoTo(p, IF line[p].escrowOut = None THEN "manifest"
                             ELSE IF cs = <<>> THEN "escrow" ELSE "parent")
                  /\ UNCHANGED outcome
             ELSE Fail(p) /\ UNCHANGED candidates
        /\ UNCHANGED <<tables, holder, line, at, records, moments, files, applying>>

(***************************************************************************)
(* Dry run, escrow stream: up to five queries for each candidate, each     *)
(* held against the counts of the selection. The stream's own checks and   *)
(* sort of the candidates repeat those of the selection.                   *)
(***************************************************************************)
LoadBatchRow(p) ==
    LET b == candidates[p][at[p]].id
    IN  /\ pc[p] = "parent"
        /\ IF b \in batches /\ Expired(b, Policy(p))
             THEN /\ records' = [records EXCEPT ![p] = Append(@,
                        [id |-> b, messages |-> {}, errors |-> {}, notifications |-> {}])]
                  /\ GoTo(p, "rows")
                  /\ UNCHANGED outcome
             ELSE Fail(p) /\ UNCHANGED records
        /\ UNCHANGED <<tables, holder, line, candidates, at, moments, files, applying>>

LoadMessageRows(p) ==
    LET c == candidates[p][at[p]]
    IN  /\ pc[p] = "rows"
        /\ IF Cardinality(MessagesIn(c.id)) = c.messageCount
             THEN /\ records' = [records EXCEPT ![p][at[p]].messages = MessagesIn(c.id)]
                  /\ moments' = [moments EXCEPT ![p] = Append(@, Snapshot(c.id))]
                  /\ GoTo(p, "errors")
                  /\ UNCHANGED outcome
             ELSE Fail(p) /\ UNCHANGED <<records, moments>>
        /\ UNCHANGED <<tables, holder, line, candidates, at, files, applying>>

LoadErrorRows(p) ==
    LET c == candidates[p][at[p]]
    IN  /\ pc[p] = "errors"
        /\ IF Cardinality(ErrorsIn(c.id)) = c.errorCount
             THEN /\ records' = [records EXCEPT ![p][at[p]].errors = ErrorsIn(c.id)]
                  /\ IF c.messageCount > 0
                       THEN GoTo(p, "notifications") /\ UNCHANGED at
                       ELSE Advance(p, "parent", "escrow")
                  /\ UNCHANGED outcome
             ELSE Fail(p) /\ UNCHANGED <<records, at>>
        /\ UNCHANGED <<tables, holder, line, candidates, moments, files, applying>>

LoadNotificationRows_Uncounted(p) ==
    LET N == NotificationsIn(candidates[p][at[p]].id)
    IN  /\ pc[p] = "notifications"
        /\ records' = [records EXCEPT ![p][at[p]].notifications = N]
        /\ GoTo(p, "validate")
        /\ UNCHANGED <<tables, holder, line, candidates, at, moments, files,
                       applying, outcome>>

LoadNotificationRows(p) ==
    LET c == candidates[p][at[p]]
        N == NotificationsIn(c.id)
    IN  /\ pc[p] = "notifications"
        /\ IF /\ Cardinality(N) = c.notificationCount
              /\ \A n \in N : MessageOf[n] \in records[p][at[p]].messages
             THEN /\ records' = [records EXCEPT ![p][at[p]].notifications = N]
                  /\ GoTo(p, "validate")
                  /\ UNCHANGED outcome
             ELSE Fail(p) /\ UNCHANGED records
        /\ UNCHANGED <<tables, holder, line, candidates, at, moments, files, applying>>

ValidateOrphanCount(p) ==
    /\ pc[p] = "validate"
    /\ IF OpenOrphansOn(records[p][at[p]].messages) = {}
         THEN Advance(p, "parent", "escrow") /\ UNCHANGED outcome
         ELSE Fail(p) /\ UNCHANGED at
    /\ UNCHANGED <<tables, holder, line, candidates, records, moments, files, applying>>

(***************************************************************************)
(* Dry run, publication: a complete anonymous file is linked to its name,  *)
(* which fails if the name exists. A JSON output accepts an existing file  *)
(* with exactly its content, the escrow does not.                          *)
(***************************************************************************)
NameIsFree(f) == files[f] = None
ExistingOutputIsExact(f, content) == files[f] = content

PublishJson_AcceptsAny(p, f, content, next) ==
    files' = [files EXCEPT ![f] = IF @ = None THEN content ELSE @] /\ next

PublishJson(p, f, content, next) ==
    IF NameIsFree(f) \/ ExistingOutputIsExact(f, content)
      THEN /\ files' = [files EXCEPT ![f] = content]
           /\ next
      ELSE Fail(p) /\ UNCHANGED files

WriteEscrowFile(p) ==
    LET f == line[p].escrowOut
        content == Escrow(Policy(p), candidates[p], records[p])
    IN  /\ pc[p] = "escrow"
        /\ IF NameIsFree(f) /\ EscrowMatchesManifest(content, content.manifest)
             THEN /\ files' = [files EXCEPT ![f] = content]
                  /\ GoTo(p, IF line[p].privateArtifactOut = None
                               THEN "manifest" ELSE "artifact")
                  /\ UNCHANGED outcome
             ELSE Fail(p) /\ UNCHANGED files
        /\ UNCHANGED <<tables, holder, line, dryRun, applying>>

WriteArtifact(p) ==
    /\ pc[p] = "artifact"
    /\ IF candidates[p] = <<>>
         THEN Fail(p) /\ UNCHANGED files
         ELSE PublishJson(p, line[p].privateArtifactOut,
                          Artifact(Policy(p), candidates[p], records[p]),
                          GoTo(p, "manifest") /\ UNCHANGED outcome)
    /\ UNCHANGED <<tables, holder, line, dryRun, applying>>

WriteManifest(p) ==
    /\ pc[p] = "manifest"
    /\ IF line[p].manifestOut = None
         THEN Succeed(p) /\ UNCHANGED files
         ELSE PublishJson(p, line[p].manifestOut,
                          Manifest(Policy(p), candidates[p]), Succeed(p))
    /\ UNCHANGED <<tables, holder, line, dryRun, applying>>

----------------------------------------------------------------------------
(***************************************************************************)
(* Apply, admission: manifest and artifact are read and confirmed against  *)
(* the operator's hashes, the escrow is verified and must be the one the   *)
(* artifact commits to, and the policy must be the dry run's and large     *)
(* enough.                                                                 *)
(***************************************************************************)
ParseApplyContext_NoCaps(policy, m, a) ==
    /\ m.siteId = policy.siteId
    /\ m.cutoff = policy.cutoff
    /\ a.manifest = m
    /\ EscrowMatchesManifest(a.escrow, m)
    /\ a.bindings # <<>>
    /\ Len(a.bindings) = Len(m.batches)

ParseApplyContext(policy, m, a) ==
    /\ m.siteId = policy.siteId
    /\ m.cutoff = policy.cutoff
    /\ a.manifest = m
    /\ EscrowMatchesManifest(a.escrow, m)
    /\ a.bindings # <<>>
    /\ Len(a.bindings) = Len(m.batches)
    /\ Len(m.batches) <= policy.maxBatches
    /\ SumOver([i \in DOMAIN m.batches |-> m.batches[i].messageCount]) <= policy.maxMessages

IsFile(f, kind) == files[f] # None /\ files[f].kind = kind

VerifiedEscrowSource(e, a) == e = a.escrow

Admitted(p) ==
    LET l == line[p]
    IN  /\ IsFile(l.manifestFile, "manifest")
        /\ IsFile(l.privateArtifactFile, "artifact")
        /\ IsFile(l.escrowFile, "escrow")
        /\ ParseApplyContext(l.policy, files[l.manifestFile],
                             files[l.privateArtifactFile])
        /\ VerifiedEscrowSource(files[l.escrowFile], files[l.privateArtifactFile])

ReadInputs(p) ==
    /\ pc[p] = "read"
    /\ IF Admitted(p)
         THEN /\ input' = [input EXCEPT ![p] =
                    [manifest |-> files[line[p].manifestFile],
                     bindings |-> files[line[p].privateArtifactFile].bindings,
                     escrow |-> files[line[p].escrowFile]]]
              /\ GoTo(p, "lock")
              /\ UNCHANGED outcome
         ELSE Fail(p) /\ UNCHANGED input
    /\ UNCHANGED <<tables, holder, line, dryRun, files, completed, removed>>

(***************************************************************************)
(* Apply, one batch: a Serializable transaction that reads the batch's     *)
(* rows again, compares them with the verified escrow and deletes exactly  *)
(* them. The commit may be lost on its way back: the rows are gone and the *)
(* batch is reported as the failed one.                                    *)
(***************************************************************************)
Current(p) == completed[p] + 1

MatchesManifestBatch(b, mb) ==
    /\ BatchIdOf[b] = mb.batchId
    /\ CreatedOf[b] = mb.createdAt
    /\ Cardinality(MessagesIn(b)) = mb.messageCount
    /\ Cardinality(ErrorsIn(b)) = mb.errorCount
    /\ Cardinality(NotificationsIn(b)) = mb.notificationCount

ExactEscrowBatchRecords(b, rec) == Snapshot(b) = rec

Revalidated_TrustsDryRun(p) ==
    LET b == input[p].bindings[Current(p)]
    IN  b \in batches /\ Expired(b, Policy(p)) /\ OpenOrphansOn(MessagesIn(b)) = {}

Revalidated_IgnoresOrphans(p) ==
    LET b == input[p].bindings[Current(p)]
    IN  /\ b \in batches
        /\ Expired(b, Policy(p))
        /\ MatchesManifestBatch(b, input[p].manifest.batches[Current(p)])
        /\ ExactEscrowBatchRecords(b, input[p].escrow.records[Current(p)])

Revalidated(p) ==
    LET b == input[p].bindings[Current(p)]
    IN  /\ b \in batches
        /\ Expired(b, Policy(p))
        /\ MatchesManifestBatch(b, input[p].manifest.batches[Current(p)])
        /\ OpenOrphansOn(MessagesIn(b)) = {}
        /\ ExactEscrowBatchRecords(b, input[p].escrow.records[Current(p)])

HasNextBatch(p) == pc[p] = "apply" /\ Current(p) <= Len(input[p].bindings)

Commit(p) ==
    LET b == input[p].bindings[Current(p)]
    IN  /\ DeleteBatch(b)
        /\ removed' = [removed EXCEPT ![p] = Append(@, b)]

ApplyBatch(p) ==
    /\ HasNextBatch(p)
    /\ Revalidated(p)
    /\ Commit(p)
    /\ completed' = [completed EXCEPT ![p] = @ + 1]
    /\ UNCHANGED <<holder, pc, line, dryRun, files, input, outcome>>

ApplyBatchUnacknowledged(p) ==
    /\ HasNextBatch(p)
    /\ Revalidated(p)
    /\ Commit(p)
    /\ Fail(p)
    /\ UNCHANGED <<holder, line, dryRun, files, input, completed>>

ApplyBatchRefused_Skips(p) ==
    /\ HasNextBatch(p)
    /\ ~Revalidated(p)
    /\ completed' = [completed EXCEPT ![p] = @ + 1]
    /\ UNCHANGED <<tables, holder, pc, line, dryRun, files, input, removed, outcome>>

ApplyBatchRefused(p) ==
    /\ HasNextBatch(p)
    /\ ~Revalidated(p)
    /\ Fail(p)
    /\ UNCHANGED <<tables, holder, line, dryRun, files, applying>>

IssueReceipt(p) ==
    /\ pc[p] = "apply"
    /\ Current(p) > Len(input[p].bindings)
    /\ Succeed(p)
    /\ UNCHANGED <<tables, holder, line, dryRun, files, applying>>

----------------------------------------------------------------------------
DryRunStep(p) ==
    \/ LoadBatches(p) \/ LoadMessages(p) \/ CountBatchLinkedOrphans(p)
    \/ BuildSelectionPlan(p)
    \/ LoadBatchRow(p) \/ LoadMessageRows(p) \/ LoadErrorRows(p)
    \/ LoadNotificationRows(p) \/ ValidateOrphanCount(p)
    \/ WriteEscrowFile(p) \/ WriteArtifact(p) \/ WriteManifest(p)

ApplyStep(p) ==
    \/ ReadInputs(p)
    \/ ApplyBatch(p) \/ ApplyBatchUnacknowledged(p) \/ ApplyBatchRefused(p)
    \/ IssueReceipt(p)

CommandStep(p) ==
    \/ TryAcquire(p)
    \/ p \in DryRuns /\ DryRunStep(p)
    \/ p \in Applies /\ ApplyStep(p)
    \/ Release(p)

ProxyStep ==
    /\ Writers
    /\ UNCHANGED <<holder, pc, line, dryRun, files, applying, outcome>>

Next ==
    \/ \E p \in Commands : \/ Begin(p) \/ CommandStep(p)
                           \/ Throw(p) \/ Crash(p) \/ LoseLock(p)
    \/ ProxyStep

Spec == Init /\ [][Next]_vars

----------------------------------------------------------------------------
(***************************************************************************)
(* Properties                                                              *)
(***************************************************************************)

\* Types of the state: a lock owner is a command, the loop index of a dry run
\* stays within its candidates, and the count an apply run reports never passes
\* the bindings of its artifact.
TypeOK ==
    /\ TablesTypeOK
    /\ holder \in Commands \cup {None}
    /\ pc \in [Commands -> Leased \cup
                 {"idle", "lock", "read", "release", "done", "crashed"}]
    /\ \A p \in Commands :
          line[p] \in (IF p \in DryRuns THEN DryRunLines ELSE ApplyLines) \cup {None}
    /\ candidates \in [DryRuns -> Seq(Candidate)]
    /\ records \in [DryRuns -> Seq(EscrowRecord)]
    /\ moments \in [DryRuns -> Seq(EscrowRecord)]
    /\ files \in [Paths -> ManifestFile \cup EscrowFile \cup ArtifactFile \cup {None}]
    /\ \A p \in DryRuns :
          /\ at[p] \in 1..(Len(candidates[p]) + 1)
          /\ candidates[p] # <<>> => at[p] <= Len(candidates[p])
          /\ Len(records[p]) <= Len(candidates[p])
    /\ \A p \in Applies :
          /\ completed[p] \in Nat
          /\ input[p] # None => completed[p] <= Len(input[p].bindings)
          /\ removed[p] \in Seq(Batches)
    /\ outcome \in [Commands -> {None, "ok", "failed"}]

EscrowFiles == {f \in Paths : IsFile(f, "escrow")}
Escrowed ==
    UNION {UNION {RowsIn(files[f].records[i]) : i \in DOMAIN files[f].records} :
             f \in EscrowFiles}

\* Every row that retention deletes is in a published escrow file, whatever the
\* rest of the proxy stored between the dry run and the apply run, whichever
\* files of different dry runs the operator combined, and even if the named lock
\* was lost and two apply runs overlap.
DeletedIsEscrowed == deleted \subseteq Escrowed

\* A deleted batch leaves nothing behind: no e-mail or failure without its
\* batch and no notification without its e-mail, also when an apply run stops
\* between two batches or the sender stores e-mails at the same time.
ForeignKeysHold ==
    /\ \A m \in messages : BatchOf[m] \in batches
    /\ \A e \in errors : BatchOf[e] \in batches
    /\ \A n \in notifications : MessageOf[n] \in messages

\* Retention deletes only batches of the confirmed site that were created
\* strictly before the confirmed cutoff.
OnlyExpiredDeleted ==
    \A p \in Applies : \A i \in DOMAIN removed[p] :
       /\ SiteOf[removed[p][i]] = Policy(p).siteId
       /\ CreatedOf[removed[p][i]] < Policy(p).cutoff

\* One apply run never deletes more batches or e-mails than its own
\* --max-batches and --max-messages allow, even with the files of a dry run
\* that had larger limits.
WithinCaps ==
    \A p \in Applies : removed[p] # <<>> =>
       /\ Len(removed[p]) <= Policy(p).maxBatches
       /\ Cardinality({m \in deleted \cap Messages : BatchOf[m] \in Range(removed[p])})
            <= Policy(p).maxMessages

\* What an apply run reports is what it did: it deletes the artifact's batches
\* in order, a receipt means all of them and no other, and after a failure the
\* reported count is exact up to the one batch whose commit was not
\* acknowledged. No batch is deleted by two runs.
ReportIsExact ==
    /\ \A p \in Applies :
          /\ removed[p] # <<>> => IsPrefix(removed[p], input[p].bindings)
          /\ outcome[p] = "ok" => removed[p] = input[p].bindings
          /\ \/ Len(removed[p]) = completed[p]
             \/ outcome[p] # "ok" /\ Len(removed[p]) = completed[p] + 1
    /\ \A p, q \in Applies : p # q => Range(removed[p]) \cap Range(removed[q]) = {}

\* The dry run reads without a transaction, but an escrow it publishes is not
\* torn: for each batch it holds exactly the rows that existed at one moment,
\* because every later query is held against an earlier count. Only of a batch
\* that an apply has deleted since may rows be missing: then they were escrowed
\* before.
EscrowIsConsistentCut ==
    \A p \in DryRuns :
       pc[p] \in {"escrow", "artifact", "manifest"} /\ line[p].escrowOut # None
         => /\ Len(records[p]) = Len(moments[p])
            /\ \A i \in DOMAIN records[p] :
                  candidates[p][i].id \in batches => records[p][i] = moments[p][i]

\* A dry run that reports success has its own escrow, artifact and manifest
\* under the names it was given, though other dry runs write to the same names:
\* an existing file is accepted only if it is identical.
SuccessPublishedOwnFiles ==
    \A p \in DryRuns : outcome[p] = "ok" =>
       LET l == line[p]
       IN  /\ l.escrowOut # None =>
                files[l.escrowOut] = Escrow(l.policy, candidates[p], records[p])
           /\ l.privateArtifactOut # None =>
                files[l.privateArtifactOut] =
                  Artifact(l.policy, candidates[p], records[p])
           /\ l.manifestOut # None =>
                files[l.manifestOut] = Manifest(l.policy, candidates[p])

\* An event kept as an open orphan whose e-mail has a row can still be
\* reconciled after any step: retention never deletes the e-mail under it.
ReconcilableStaysSo ==
    [][\A n \in Notifications :
         orphans[n] = "open" /\ MessageOf[n] \in messages
           => MessageOf[n] \in messages']_vars

\* A command that has ended keeps no lock: after success, failure, a lost
\* connection or the death of the process, on every path out of the two
\* finally blocks, the next command can take it.
EndedHoldsNoLock == holder # None => pc[holder] \in Leased \cup {"release"}

=============================================================================
