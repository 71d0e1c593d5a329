-------------------------- MODULE MCBuildLifecycle --------------------------
(***************************************************************************)
(* Small instances of BuildLifecycle.                                      *)
(***************************************************************************)
EXTENDS BuildLifecycle, TLC

CONSTANTS jobA, jobB

\* An approval gate with two votes, nothing else.
GateCount == [j \in Jobs |-> 2]
NoLimit   == [j \in Jobs |-> 0]
NoGroups  == [j \in Jobs |-> {}]
NoPassed  == [j \in Jobs |-> {}]

\* One slot for jobA; the jobs share a serial group and have one of their own.
OneSlot     == [j \in Jobs |-> IF j = jobA THEN 1 ELSE 0]
SharedGroup == [j \in Jobs |-> IF j = jobA THEN {"deploy", "a"} ELSE {"deploy", "b"}]
AThenB      == [j \in Jobs |-> IF j = jobA THEN {jobB} ELSE {}]
NoGate      == [j \in Jobs |-> 0]

\* One vote is enough.
OneVote == [j \in Jobs |-> 1]

Symmetry == Permutations(Clients) \cup Permutations(Users) \cup Permutations(Workers)
=============================================================================
