---------------------------- MODULE MCSyncCycle ----------------------------
(* Small instances of SyncCycle for TLC.                                   *)
EXTENDS SyncCycle, TLC

CONSTANTS m1, m2, s1, s2

TwoMailboxes == { m1, m2 }
OneMailbox == { m1 }
TwoSessions == { s1, s2 }

AllEnv == EnvKinds
NoEnv == {}
ForceEnv == { "force" }

\* Faults and commands the claim, the sweep and the rescue must absorb.
AbsorbedEnv == { "crash", "listFail", "claimFail", "catchFail", "recordFail", "import" }

Symmetry == Permutations(Mailboxes) \cup Permutations(SessionIds)
=============================================================================
