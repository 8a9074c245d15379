-------------------------- MODULE MCDashboardAuth --------------------------
EXTENDS DashboardAuth, TLC

CONSTANTS l1, l2, l3, i1, i2

MCLogins == {l1, l2, l3}
MCIds == {i1, i2}

Legacy == [id |-> i1, email |-> "legacy", password |-> "default"]
Account(email) == [id |-> i2, email |-> email, password |-> "chosen"]

\* Empty, historical, historical beside the configured account, rotated.
MCTables == {{}, {Legacy}, {Legacy, Account("configured")}, {Account("chosen")}}

Requests == Permutations(MCLogins)

=============================================================================
