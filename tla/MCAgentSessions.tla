---- MODULE MCAgentSessions ----
(* Four calls, two session keys, two session ids; three messages in a transcript are      *)
(* compacted to one.                                                                      *)
EXTENDS AgentSessions, TLC

\* Calls, keys and ids are interchangeable, and only safety is checked.
MCSymmetry == Permutations(Calls) \cup Permutations(Keys) \cup Permutations(Ids)
====
