---- MODULE MCBoardStore ----
(* Two services, one call each; both may be asked anything, in any order, for ever. *)
EXTENDS BoardStore, TLC
CONSTANTS a, b

MCServices == {a, b}
MCCalls == {a, b}
MCSvcOf(c) == c

\* Services, handles, fingerprints, tasks and values are interchangeable, and only safety is checked.
MCSymmetry == Permutations(MCServices) \cup Permutations(Handles) \cup Permutations(Stamps)
              \cup Permutations(Tasks) \cup Permutations(Values)

\* Overlapping calls: fewer symmetries, so that a counterexample comes sooner.
MCOverlapSymmetry == Permutations(Handles) \cup Permutations(Stamps)
====
