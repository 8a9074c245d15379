---------------------------- MODULE MCRetention ----------------------------
(***************************************************************************)
(* Constants of the retention runs. Batches 1 and 2 tie on every public    *)
(* field; batch 3 was created exactly at the cutoff.                       *)
(***************************************************************************)
EXTENDS Retention

CONSTANTS m1, m2, e1, n1, f1, f2, f3, f4

MCSiteOf == [b \in Batches |-> "site"]
MCBatchIdOf == [b \in Batches |-> 7]
MCCreatedOf == [b \in Batches |-> IF b = 3 THEN 2 ELSE 1]
MCBatchOf == [r \in Messages \cup Errors |-> IF r = m2 THEN 2 ELSE 1]
MCMessageOf == [n \in Notifications |-> m1]

Wide == [siteId |-> "site", cutoff |-> 2, maxBatches |-> 3, maxMessages |-> 3]
Narrow == [Wide EXCEPT !.maxMessages = 1]

DryRunTo(policy, escrow, artifact, manifest) ==
    [policy |-> policy, escrowOut |-> escrow, privateArtifactOut |-> artifact,
     manifestOut |-> manifest]
ApplyFrom(policy, escrow, artifact, manifest) ==
    [policy |-> policy, escrowFile |-> escrow, privateArtifactFile |-> artifact,
     manifestFile |-> manifest]

OneSet == {DryRunTo(Wide, f1, f2, f3)}
SharedOutputs == OneSet \cup {DryRunTo(Wide, f4, f2, f3), DryRunTo(Narrow, None, None, f3)}
WideOnly == {ApplyFrom(Wide, f1, f2, f3)}
MixedInputs == {ApplyFrom(Wide, f1, f2, f3), ApplyFrom(Narrow, f1, f2, f3)}

\* The invocations of a command are interchangeable.
Symmetry == Permutations(DryRuns) \cup Permutations(Applies)

=============================================================================
