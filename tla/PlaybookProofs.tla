---- MODULE PlaybookProofs ----
(***************************************************************************)
(* For any playbook, titles and turns: every state is well typed, and a    *)
(* run that no user moved has earned every phase it passed, whatever its   *)
(* stores lose.  The second rests on the matching: more artifacts never    *)
(* make an expected one missing, although the others may claim a name      *)
(* before those that did.  With it, what a check found complete in what    *)
(* the store had stays complete among all that was made, and each check,   *)
(* and each copy of the run, carries with it that all phases up to its own *)
(* are.                                                                    *)
(***************************************************************************)
EXTENDS Playbook, Integers, WellFoundedInduction, TLAPS

USE ExpectedAssumption, ScoreAssumption, BoundsAssumption

----------------------------------------------------------------------------
(* Every nonempty set of natural numbers has a least element.              *)

\* A set that a well-founded relation covers has a least element.
LEMMA LeastIn ==
    ASSUME NEW R, IsWellFoundedOn(R, Nat), \A x, y \in Nat : y < x => <<y, x>> \in R,
           NEW T, T \subseteq Nat, T # {}
    PROVE  \E x \in T : \A y \in T : x <= y
<1>1. PICK x \in T : \A y \in T : ~(<<y, x>> \in R)
  BY WFMin
<1>2. ASSUME NEW y \in T PROVE x <= y
  <2>1. x \in Nat /\ y \in Nat
    BY <1>1
  <2>2. ~(y < x)
    BY <2>1, <1>1
  <2> QED BY <2>1, <2>2
<1> QED BY <1>1, <1>2

\* The order of the natural numbers is such a relation.
LEMMA LessThanIsWellFounded ==
    \E R : IsWellFoundedOn(R, Nat) /\ \A x, y \in Nat : y < x => <<y, x>> \in R
<1> DEFINE R == OpToRel(<, Nat)
<1>1. IsWellFoundedOn(R, Nat)
  BY NatLessThanWellFounded
<1>2. \A x, y \in Nat : y < x => <<y, x>> \in R
  BY DEF OpToRel
<1> HIDE DEF R
<1> QED BY <1>1, <1>2

\* So every nonempty set of natural numbers has one.
LEMMA LeastElement ==
    ASSUME NEW T, T \subseteq Nat, T # {}
    PROVE  \E x \in T : \A y \in T : x <= y
BY LessThanIsWellFounded, LeastIn

----------------------------------------------------------------------------
(* The matching                                                            *)

\* What is left of the artifacts after n names have claimed theirs.
Free(match, n, there) == there \ {match[j] : j \in 1..n}

\* The first n names of the phase have claimed their best artifacts.
Greedy(match, n, p, titles, there) ==
    /\ match \in [1..n -> there]
    /\ \A i \in 1..n : IsBest(match[i], Expected[p][i], titles, Free(match, i - 1, there))

\* With the artifacts of all, the first n names find a match as well, which leaves free what
\* the old one left free.
Matched(n, match, p, there, titles, all) ==
    \E f : Greedy(f, n, p, titles, all) /\ Free(match, n, there) \subseteq Free(f, n, all)

\* Types of a phase.
LEMMA PhaseTypes ==
    ASSUME NEW p \in Phases
    PROVE  /\ Expected[p] \in Seq(Names) /\ Len(Expected[p]) \in Nat
           /\ DOMAIN Expected[p] = 1..Len(Expected[p])
BY DEF Phases

\* A phase is complete if all its names find artifacts one after the other.
LEMMA CompleteIsGreedy ==
    ASSUME NEW p \in Phases, NEW titles, NEW there
    PROVE  Complete(p, titles, there) <=> \E match : Greedy(match, Len(Expected[p]), p, titles, there)
BY PhaseTypes DEF Complete, Greedy, Free

\* An index more.
LEMMA AppendFacts ==
    ASSUME NEW titles \in Seq(Titles), NEW title \in Titles
    PROVE  /\ Append(titles, title) \in Seq(Titles)
           /\ DOMAIN titles = 1..Len(titles) /\ Len(titles) \in Nat
           /\ DOMAIN Append(titles, title) = DOMAIN titles \cup {Len(titles) + 1}
           /\ Len(titles) + 1 \notin DOMAIN titles
           /\ \A a \in DOMAIN titles : Append(titles, title)[a] = titles[a]
OBVIOUS

\* Scores are percentages, and artifacts are numbered.
LEMMA ScoresAreNumbers ==
    ASSUME NEW titles \in Seq(Titles), NEW p \in Phases, NEW i \in 1..Len(Expected[p]),
           NEW a \in DOMAIN titles
    PROVE  /\ Score[titles[a]][Expected[p][i]] \in Int /\ Score[titles[a]][Expected[p][i]] <= 100
           /\ a \in Int /\ a <= Len(titles)
<1>1. titles[a] \in Titles /\ a \in Int /\ a <= Len(titles)
  OBVIOUS
<1>2. Expected[p][i] \in Names
  BY PhaseTypes
<1>3. Score[titles[a]] \in [Names -> 0..100]
  BY <1>1
<1>4. Score[titles[a]][Expected[p][i]] \in 0..100
  BY <1>2, <1>3
<1>5. \A x \in 0..100 : x \in Int /\ x <= 100
  OBVIOUS
<1> QED BY <1>1, <1>4, <1>5

\* If there is a candidate, one is the best.
LEMMA SomeIsBest ==
    ASSUME NEW titles \in Seq(Titles), NEW p \in Phases, NEW i \in 1..Len(Expected[p]),
           NEW free \in SUBSET DOMAIN titles, NEW m \in Candidates(Expected[p][i], titles, free)
    PROVE  \E b : IsBest(b, Expected[p][i], titles, free)
<1> DEFINE name == Expected[p][i]
<1> DEFINE s(a) == Score[titles[a]][name]
<1> DEFINE L == Len(titles)
<1> DEFINE C == Candidates(name, titles, free)
<1>1. \A a \in C : s(a) \in Int /\ s(a) <= 100 /\ a \in Int /\ a <= L
  BY ScoresAreNumbers DEF Candidates
<1>2. m \in C /\ L \in Nat
  OBVIOUS
<1> HIDE DEF s, C, L
<1>3. PICK x \in {100 - s(a) : a \in C} : \A y \in {100 - s(a) : a \in C} : x <= y
  <2>1. {100 - s(a) : a \in C} \subseteq Nat
    <3>1. \A a \in C : 100 - s(a) \in Nat
      BY <1>1
    <3> QED BY <3>1
  <2>2. {100 - s(a) : a \in C} # {}
    BY <1>2
  <2> QED BY <2>1, <2>2, LeastElement
<1> DEFINE D == {a \in C : 100 - s(a) = x}
<1>4. PICK z \in {L - a : a \in D} : \A y \in {L - a : a \in D} : z <= y
  <2>1. {L - a : a \in D} \subseteq Nat
    BY <1>1, <1>2
  <2>2. {L - a : a \in D} # {}
    BY <1>3
  <2> QED BY <2>1, <2>2, LeastElement
<1>5. PICK b \in D : L - b = z
  BY <1>4
<1>6. ASSUME NEW a \in C PROVE s(a) < s(b) \/ (s(a) = s(b) /\ a <= b)
  <2>1. x <= 100 - s(a) /\ 100 - s(b) = x
    BY <1>3, <1>5
  <2>2. s(a) \in Int /\ s(b) \in Int /\ a \in Int /\ b \in Int
    BY <1>1, <1>5
  <2>3. CASE s(a) = s(b)
    <3>1. a \in D
      BY <2>1, <2>3
    <3>2. L - b <= L - a
      BY <3>1, <1>4, <1>5
    <3> QED BY <2>2, <2>3, <3>2, <1>2
  <2>4. CASE s(a) # s(b)
    <3>1. 100 - s(b) <= 100 - s(a)
      BY <2>1
    <3> QED BY <3>1, <2>2, <2>4
  <2> QED BY <2>3, <2>4
<1>7. b \in C
  BY <1>5
<1> QED BY <1>6, <1>7 DEF IsBest, C, s

\* What is best of more is best of less, if it is there.
LEMMA BestOfLess ==
    ASSUME NEW titles \in Seq(Titles), NEW p \in Phases, NEW i \in 1..Len(Expected[p]),
           NEW all \in SUBSET DOMAIN titles, NEW free \in SUBSET all,
           NEW m, IsBest(m, Expected[p][i], titles, free),
           NEW b \in free, IsBest(b, Expected[p][i], titles, all)
    PROVE  b = m
<1> DEFINE s(a) == Score[titles[a]][Expected[p][i]]
<1>1. /\ m \in free /\ s(m) >= 50 /\ s(b) >= 50
      /\ s(b) < s(m) \/ (s(b) = s(m) /\ b <= m)
      /\ s(m) < s(b) \/ (s(m) = s(b) /\ m <= b)
  BY DEF IsBest, Candidates
<1>2. s(m) \in Int /\ s(b) \in Int /\ m \in Int /\ b \in Int
  BY <1>1, ScoresAreNumbers
<1> HIDE DEF s
<1> QED BY <1>1, <1>2

\* If the first n names still find artifacts, so does the next one.
LEMMA MatchedStep ==
    ASSUME NEW p \in Phases, NEW titles \in Seq(Titles),
           NEW all \in SUBSET DOMAIN titles, NEW there \in SUBSET all,
           NEW match, Greedy(match, Len(Expected[p]), p, titles, there),
           NEW n \in Nat, n < Len(Expected[p]),
           Matched(n, match, p, there, titles, all)
    PROVE  Matched(n + 1, match, p, there, titles, all)
<1> DEFINE name == Expected[p][n + 1]
<1> DEFINE free == Free(match, n, there)
<1> DEFINE m == match[n + 1]
<1>1. PICK f : Greedy(f, n, p, titles, all) /\ free \subseteq Free(f, n, all)
  BY DEF Matched
<1>2. n + 1 \in 1..Len(Expected[p]) /\ (n + 1) - 1 = n
  BY PhaseTypes
<1>3. m \in there /\ IsBest(m, name, titles, free)
  BY <1>2 DEF Greedy
<1>4. m \in Candidates(name, titles, Free(f, n, all))
  BY <1>1, <1>3 DEF IsBest, Candidates
<1>5. Free(f, n, all) \in SUBSET DOMAIN titles /\ free \in SUBSET Free(f, n, all)
  BY <1>1 DEF Free
<1>6. PICK b : IsBest(b, name, titles, Free(f, n, all))
  BY <1>2, <1>4, <1>5, SomeIsBest
<1>7. b \in Free(f, n, all) /\ b \in all
  BY <1>6 DEF IsBest, Candidates, Free
<1>8. b \in free => b = m
  <2> SUFFICES ASSUME b \in free PROVE b = m
    OBVIOUS
  <2> DEFINE more == Free(f, n, all)
  <2>1. more \in SUBSET DOMAIN titles /\ free \in SUBSET more
    BY <1>5
  <2>2. IsBest(m, Expected[p][n + 1], titles, free) /\ IsBest(b, Expected[p][n + 1], titles, more)
    BY <1>3, <1>6
  <2>3. b \in free
    OBVIOUS
  <2> HIDE DEF free, m, more
  <2> QED BY <1>2, <2>1, <2>2, <2>3, BestOfLess
<1> DEFINE g == [i \in 1..(n + 1) |-> IF i = n + 1 THEN b ELSE f[i]]
<1>9. 1..(n + 1) = 1..n \cup {n + 1} /\ n + 1 \notin 1..n
  OBVIOUS
<1>10. /\ f \in [1..n -> all] /\ g \in [1..(n + 1) -> all]
       /\ \A i \in 1..n : g[i] = f[i]
       /\ g[n + 1] = b
  BY <1>1, <1>7, <1>9 DEF Greedy
<1> HIDE DEF g
<1>11. ASSUME NEW k \in 0..n PROVE Free(g, k, all) = Free(f, k, all)
  <2>1. \A j \in 1..k : g[j] = f[j]
    BY <1>10
  <2> QED BY <2>1 DEF Free
<1>12. ASSUME NEW i \in 1..(n + 1)
       PROVE  IsBest(g[i], Expected[p][i], titles, Free(g, i - 1, all))
  <2>1. CASE i = n + 1
    BY <2>1, <1>2, <1>6, <1>10, <1>11
  <2>2. CASE i \in 1..n
    <3>1. i - 1 \in 0..n
      BY <2>2
    <3> QED BY <2>2, <3>1, <1>1, <1>10, <1>11 DEF Greedy
  <2> QED BY <2>1, <2>2, <1>9
<1>13. Greedy(g, n + 1, p, titles, all)
  BY <1>10, <1>12 DEF Greedy
<1>14. Free(g, n + 1, all) = Free(f, n, all) \ {b}
  <2>1. {g[j] : j \in 1..n \cup {n + 1}} = {g[j] : j \in 1..n} \cup {g[n + 1]}
    OBVIOUS
  <2>2. {g[j] : j \in 1..(n + 1)} = {g[j] : j \in 1..n} \cup {b}
    BY <2>1, <1>9, <1>10
  <2>3. Free(g, n, all) = Free(f, n, all)
    BY <1>11
  <2> QED BY <2>2, <2>3 DEF Free
<1>15. Free(match, n + 1, there) = free \ {m}
  <2>1. {match[j] : j \in 1..(n + 1)} = {match[j] : j \in 1..n} \cup {m}
    BY <1>9
  <2> QED BY <2>1 DEF Free
<1>16. Free(match, n + 1, there) \subseteq Free(g, n + 1, all)
  <2> HIDE DEF free, m
  <2> QED BY <1>1, <1>8, <1>14, <1>15
<1> QED BY <1>13, <1>16 DEF Matched

\* No name yet needs no artifact.
LEMMA MatchedFromZero ==
    ASSUME NEW p \in Phases, NEW titles, NEW all, NEW there \in SUBSET all, NEW match
    PROVE  Matched(0, match, p, there, titles, all)
<1> DEFINE f == [i \in {} |-> 0]
<1>1. 1..0 = {} /\ f \in [1..0 -> all]
  OBVIOUS
<1>2. Greedy(f, 0, p, titles, all)
  BY <1>1 DEF Greedy
<1>3. Free(f, 0, all) = all /\ Free(match, 0, there) = there
  BY <1>1 DEF Free
<1> HIDE DEF f
<1> QED BY <1>2, <1>3 DEF Matched

\* More artifacts never make an expected artifact missing.
LEMMA CompleteWithMore ==
    ASSUME NEW p \in Phases, NEW titles \in Seq(Titles),
           NEW all \in SUBSET DOMAIN titles, NEW there \in SUBSET all,
           Complete(p, titles, there)
    PROVE  Complete(p, titles, all)
<1> DEFINE N == Len(Expected[p])
<1> DEFINE M(n, match) == Matched(n, match, p, there, titles, all)
<1>1. PICK match : Greedy(match, N, p, titles, there)
  BY CompleteIsGreedy
<1>2. N \in Nat
  BY PhaseTypes
<1> DEFINE Bad == {n \in Nat : n <= N /\ ~M(n, match)}
<1>3. M(0, match)
  BY MatchedFromZero
<1>4. \A n \in Nat : n < N /\ M(n, match) => M(n + 1, match)
  BY <1>1, MatchedStep
<1>5. Bad = {}
  <2> SUFFICES ASSUME Bad # {} PROVE FALSE
    OBVIOUS
  <2> HIDE DEF M
  <2>1. PICK n \in Bad : \A k \in Bad : n <= k
    BY LeastElement
  <2>2. n \in Nat /\ n # 0 /\ n <= N /\ ~M(n, match)
    BY <2>1, <1>3
  <2>3. n - 1 \in Nat /\ n - 1 < N /\ (n - 1) + 1 = n
    BY <2>2, <1>2
  <2>4. n - 1 \notin Bad
    BY <2>1, <2>3
  <2>5. M(n - 1, match)
    BY <2>2, <2>3, <2>4, <1>2
  <2> QED BY <2>2, <2>3, <2>5, <1>4
<1>6. M(N, match)
  <2> HIDE DEF M, N
  <2>1. N <= N
    BY <1>2
  <2> QED BY <2>1, <1>2, <1>5
<1>7. \E g : Greedy(g, N, p, titles, all)
  BY <1>6 DEF Matched
<1> QED BY <1>7, CompleteIsGreedy

\* Only the titles of the artifacts there matter.
LEMMA SameTitles ==
    ASSUME NEW p \in Phases, NEW titles, NEW more, NEW there,
           \A a \in there : more[a] = titles[a], Complete(p, titles, there)
    PROVE  Complete(p, more, there)
<1>1. \A name, free : free \subseteq there => Candidates(name, more, free) = Candidates(name, titles, free)
  BY DEF Candidates
<1>2. ASSUME NEW name, NEW free \in SUBSET there, NEW a, IsBest(a, name, titles, free)
      PROVE  IsBest(a, name, more, free)
  <2>1. Candidates(name, more, free) = Candidates(name, titles, free)
    BY <1>1
  <2>2. \A b \in Candidates(name, titles, free) : more[b] = titles[b]
    BY DEF Candidates
  <2> QED BY <1>2, <2>1, <2>2 DEF IsBest
<1> QED BY <1>2 DEF Complete

\* One artifact more never makes an expected artifact missing again.
LEMMA CompleteStays ==
    ASSUME NEW p \in Phases, NEW titles \in Seq(Titles), NEW title \in Titles,
           Complete(p, titles, DOMAIN titles)
    PROVE  Complete(p, Append(titles, title), DOMAIN Append(titles, title))
<1> DEFINE more == Append(titles, title)
<1>1. more \in Seq(Titles) /\ DOMAIN titles \in SUBSET DOMAIN more
      /\ \A a \in DOMAIN titles : more[a] = titles[a]
  BY AppendFacts
<1> HIDE DEF more
<1>2. Complete(p, more, DOMAIN titles)
  BY <1>1, SameTitles
<1>3. Complete(p, more, DOMAIN more)
  BY <1>1, <1>2, CompleteWithMore
<1> QED BY <1>3 DEF more

\* A phase that expects nothing is complete.
LEMMA NothingExpected ==
    ASSUME NEW p \in Phases, NEW titles, NEW there, Expected[p] = <<>>
    PROVE  Complete(p, titles, there)
<1>1. DOMAIN Expected[p] = {}
  OBVIOUS
<1> DEFINE f == [i \in {} |-> 0]
<1>2. f \in [DOMAIN Expected[p] -> there] /\ DOMAIN f = {}
  BY <1>1
<1> HIDE DEF f
<1> QED BY <1>2 DEF Complete

----------------------------------------------------------------------------
(* The invariant                                                           *)

\* All artifacts a phase expects were made.
Made(p) == Complete(p, artifacts, DOMAIN artifacts)

Earned(p) == \A q \in Phases : q < p => Made(q)

\* All phases before the one a check works on are complete, and so is that one once the
\* check is about to write.
CheckIsEarned(t) ==
    /\ turn[t].pc \in {"list", "write"} => Earned(turn[t].phase)
    /\ turn[t].pc = "write" => Made(turn[t].phase)

\* So are the phases that a record of the run has passed.
RecordIsEarned(record) ==
    /\ Earned(record.phase)
    /\ record.status = "completed" => \A q \in Phases : Made(q)

RunIsEarned == RecordIsEarned(run) /\ RecordIsEarned(stale)

Inv == TypeOK /\ (moves = 0 => RunIsEarned /\ \A t \in Turns : CheckIsEarned(t))

RunRecord == [status : Statuses, phase : Phases \cup {0}]

\* Nothing has begun.
LEMMA InitInv == Init => Inv
<1> SUFFICES ASSUME Init PROVE Inv
  OBVIOUS
<1>1. TypeOK
  <2>1. <<>> \in Seq(Titles) /\ Len(<<>>) = 0
    OBVIOUS
  <2>2. 1 \in Phases
    BY DEF Phases
  <2>3. run \in RunRecord /\ stale \in RunRecord
    BY <2>2 DEF Init, Statuses, Transitions, RunRecord
  <2>4. artifacts \in Seq(Titles) /\ Len(artifacts) <= MaxArtifacts /\ kept \subseteq DOMAIN artifacts
    BY <2>1 DEF Init
  <2>5. turn \in [Turns -> [pc : {"new", "extract", "read", "list", "write", "over"},
                            left : Seq(Titles), phase : Phases \cup {0}]]
    BY <2>1 DEF Init
  <2>6. \A t \in Turns : turn[t].pc = "new"
    BY DEF Init
  <2>7. MaxIncidents \in Nat /\ moves = 0 /\ losses = 0
    BY DEF Init
  <2>8. moves \in 0..MaxIncidents /\ losses \in 0..MaxIncidents
    BY <2>7
  <2>9. lost \in BOOLEAN /\ start \in {"new", "created", "over"}
    BY DEF Init
  <2> QED BY <2>3, <2>4, <2>5, <2>6, <2>8, <2>9 DEF TypeOK, RunRecord
<1>2. RunIsEarned
  <2>1. \A q \in Phases : ~(q < 1)
    BY DEF Phases
  <2> QED BY <2>1 DEF Init, RunIsEarned, RecordIsEarned, Earned
<1> QED BY <1>1, <1>2 DEF Init, Inv, CheckIsEarned

\* Artifacts that stay, or get one more, keep every phase complete that was.
LEMMA EarnedStays ==
    ASSUME TypeOK, artifacts' = artifacts \/ \E title \in Titles : artifacts' = Append(artifacts, title)
    PROVE  /\ \A q \in Phases : Made(q) => Made(q)'
           /\ \A p : Earned(p) => (\A q \in Phases : q < p => Made(q)')
<1>1. artifacts \in Seq(Titles)
  BY DEF TypeOK
<1>2. \A q \in Phases : Made(q) => Made(q)'
  BY <1>1, CompleteStays DEF Made
<1> QED BY <1>2 DEF Earned

\* Steps that leave the run, or set it to what it was, and each turn, or end its check.
LEMMA QuietStep ==
    ASSUME Inv, TypeOK', moves' = moves, {run', stale'} \subseteq {run, stale},
           artifacts' = artifacts \/ \E title \in Titles : artifacts' = Append(artifacts, title),
           \A t \in Turns : turn'[t] = turn[t] \/ turn'[t].pc \notin {"list", "write"}
    PROVE  Inv'
<1> USE DEF Inv
<1>1. ASSUME moves = 0 PROVE RunIsEarned'
  BY <1>1, EarnedStays DEF RunIsEarned, RecordIsEarned, Earned
<1>2. ASSUME moves = 0, NEW t \in Turns PROVE CheckIsEarned(t)'
  <2>1. CASE turn'[t] = turn[t]
    <3>1. turn[t].pc = "write" => turn[t].phase \in Phases
      BY DEF TypeOK
    <3> QED BY <3>1, <2>1, <1>2, EarnedStays DEF CheckIsEarned, Earned
  <2>2. CASE turn'[t].pc \notin {"list", "write"}
    BY <2>2 DEF CheckIsEarned
  <2> QED BY <2>1, <2>2
<1> QED BY <1>1, <1>2

\* Steps of users that count as moves.
LEMMA MoveStep ==
    ASSUME Inv, TypeOK', UserMoves
    PROVE  Inv'
<1>1. moves \in Nat /\ moves' = moves + 1
  BY DEF Inv, TypeOK, UserMoves
<1>2. moves' # 0
  BY <1>1
<1> QED BY <1>2 DEF Inv

\* A status that validateTransition allows is one.
LEMMA TransitionTypes ==
    /\ \A from \in Statuses : Transitions[from] \subseteq Statuses \ {"none", "draft"}
    /\ Statuses = {"none", "draft", "running", "waiting_review", "blocked", "completed", "cancelled"}
BY DEF Statuses, Transitions

\* SetRun keeps a copy that was there, or the record it writes.
LEMMA SetRunFacts ==
    ASSUME TypeOK, NEW record \in RunRecord, SetRun(record)
    PROVE  run' = record /\ stale' \in {stale, run, record} /\ stale' \in RunRecord
BY DEF SetRun, TypeOK, RunRecord

\* UpdateStatus keeps the types, and completes only when asked to.
LEMMA UpdateStatusFacts ==
    ASSUME TypeOK, NEW status \in Statuses, UpdateStatus(status)
    PROVE  /\ run' \in RunRecord /\ stale' \in RunRecord
           /\ stale' \in {stale, run, run'}
           /\ run'.phase = run.phase
           /\ run'.status = run.status \/ run'.status = status
<1>1. run \in RunRecord
  BY DEF TypeOK, RunRecord
<1> DEFINE record == IF status \in Transitions[run.status] THEN [run EXCEPT !.status = status] ELSE run
<1>2. /\ record \in RunRecord /\ record.phase = run.phase
      /\ record.status = run.status \/ record.status = status
  BY <1>1 DEF RunRecord
<1>3. SetRun(record)
  BY DEF UpdateStatus
<1> HIDE DEF record
<1> QED BY <1>2, <1>3, SetRunFacts

\* advancePhase writes the phase it is given, or nothing.
LEMMA AdvancePhaseFacts ==
    ASSUME TypeOK, NEW phase \in Phases \cup {0}, AdvancePhase(phase)
    PROVE  /\ run' \in RunRecord /\ stale' \in RunRecord
           /\ stale' \in {stale, run, run'}
           /\ run'.status = run.status
           /\ run'.phase = run.phase \/ run'.phase = phase
<1>1. run \in RunRecord
  BY DEF TypeOK, RunRecord
<1> DEFINE record == IF run.status = "running" THEN [run EXCEPT !.phase = phase] ELSE run
<1>2. /\ record \in RunRecord /\ record.status = run.status
      /\ record.phase = run.phase \/ record.phase = phase
  BY <1>1 DEF RunRecord
<1>3. SetRun(record)
  BY DEF AdvancePhase
<1> HIDE DEF record
<1> QED BY <1>2, <1>3, SetRunFacts

\* A run starts in the first phase.
LEMMA CreateRunStep == Inv /\ CreateRun => Inv'
<1> SUFFICES ASSUME Inv, CreateRun PROVE Inv'
  OBVIOUS
<1>1. 1 \in Phases /\ \A q \in Phases : ~(q < 1)
  BY DEF Phases
<1> DEFINE draft == [status |-> "draft", phase |-> 1]
<1>2. draft \in RunRecord /\ SetRun(draft) /\ draft.phase = 1 /\ draft.status = "draft"
  BY <1>1, TransitionTypes DEF CreateRun, RunRecord
<1> HIDE DEF draft
<1>5. run' = draft /\ stale' \in {stale, run, draft} /\ stale' \in RunRecord
  BY <1>2, SetRunFacts DEF Inv
<1>6. TypeOK'
  BY <1>2, <1>5 DEF Inv, TypeOK, CreateRun, RunRecord
<1>3. RunIsEarned => RunIsEarned'
  BY <1>1, <1>2, <1>5 DEF CreateRun, RunIsEarned, RecordIsEarned, Earned, Made
<1>4. \A t \in Turns : CheckIsEarned(t) => CheckIsEarned(t)'
  BY DEF CreateRun, CheckIsEarned, Earned, Made
<1> QED BY <1>6, <1>3, <1>4 DEF Inv, CreateRun

\* A status other than completed, and the rest of the state kept.
LEMMA StatusStep ==
    ASSUME Inv, NEW status \in Statuses, status # "completed", UpdateStatus(status),
           UNCHANGED <<artifacts, kept, turn, moves, losses, lost>>,
           start' \in {"new", "created", "over"}
    PROVE  Inv'
<1>1. TypeOK'
  BY UpdateStatusFacts DEF Inv, TypeOK, RunRecord
<1>2. RunIsEarned => RunIsEarned'
  BY UpdateStatusFacts DEF Inv, RunIsEarned, RecordIsEarned, Earned, Made
<1>3. \A t \in Turns : CheckIsEarned(t) => CheckIsEarned(t)'
  BY DEF CheckIsEarned, Earned, Made
<1> QED BY <1>1, <1>2, <1>3 DEF Inv

\* An artifact is made, and the store has it.
LEMMA AddArtifactFacts ==
    ASSUME TypeOK, NEW title \in Titles, AddArtifact(title)
    PROVE  /\ artifacts' = Append(artifacts, title)
           /\ artifacts' \in Seq(Titles) /\ Len(artifacts') <= MaxArtifacts
           /\ kept' \subseteq DOMAIN artifacts'
<1>1. /\ artifacts \in Seq(Titles) /\ kept \subseteq DOMAIN artifacts /\ Len(artifacts) < MaxArtifacts
      /\ artifacts' = Append(artifacts, title) /\ kept' = kept \cup {Len(artifacts) + 1}
  BY DEF TypeOK, AddArtifact
<1>2. artifacts' \in Seq(Titles) /\ Len(artifacts') <= MaxArtifacts
  BY <1>1
<1> QED BY <1>1, <1>2, AppendFacts

\* Users move the run, and are remembered for it.
LEMMA UsersStep == Inv /\ Users => Inv'
<1> SUFFICES ASSUME Inv, Users PROVE Inv'
  OBVIOUS
<1>1. ASSUME NEW status \in Statuses, PatchStatus(status) PROVE Inv'
  <2>1. CASE status = "completed"
    <3>1. TypeOK' /\ UserMoves
      BY <1>1, <2>1, UpdateStatusFacts DEF Inv, TypeOK, PatchStatus, UserMoves, RunRecord
    <3> QED BY <3>1, MoveStep
  <2>2. CASE status # "completed"
    BY <1>1, <2>2, StatusStep DEF PatchStatus, Inv, TypeOK
  <2> QED BY <2>1, <2>2
<1>2. ASSUME NEW phase \in Phases \cup {0}, UserAdvances(phase) PROVE Inv'
  <2>1. TypeOK' /\ UserMoves
    BY <1>2, AdvancePhaseFacts DEF Inv, TypeOK, UserAdvances, UserMoves, RunRecord
  <2> QED BY <2>1, MoveStep
<1>3. ASSUME NEW title \in Titles, CreateArtifact(title) PROVE Inv'
  <2>1. artifacts' \in Seq(Titles) /\ Len(artifacts') <= MaxArtifacts /\ kept' \subseteq DOMAIN artifacts'
        /\ artifacts' = Append(artifacts, title)
    BY <1>3, AddArtifactFacts DEF CreateArtifact, Inv
  <2>2. TypeOK'
    BY <1>3, <2>1 DEF Inv, TypeOK, CreateArtifact, others
  <2> QED BY <1>3, <2>1, <2>2, QuietStep DEF CreateArtifact, others
<1>4. ASSUME NEW a \in DOMAIN artifacts, NEW title \in Titles, UpdateArtifact(a, title) PROVE Inv'
  <2>1. artifacts \in Seq(Titles) /\ artifacts' = [artifacts EXCEPT ![a] = title]
    BY <1>4 DEF UpdateArtifact, Inv, TypeOK
  <2>2. artifacts' \in Seq(Titles) /\ Len(artifacts') = Len(artifacts) /\ DOMAIN artifacts' = DOMAIN artifacts
    BY <2>1
  <2>3. TypeOK' /\ UserMoves
    BY <1>4, <2>2 DEF Inv, TypeOK, UpdateArtifact, UserMoves
  <2> QED BY <2>3, MoveStep
<1> QED BY <1>1, <1>2, <1>3, <1>4 DEF Users

----------------------------------------------------------------------------
(* The turns                                                               *)

TurnTypes == [pc : {"new", "extract", "read", "list", "write", "over"},
              left : Seq(Titles), phase : Phases \cup {0}]

\* One turn changes, to an entry of the type.
LEMMA TurnTypesStay ==
    ASSUME TypeOK, NEW t \in Turns, NEW entry \in TurnTypes, turn' = [turn EXCEPT ![t] = entry],
           entry.pc = "extract" => entry.left # <<>>,
           entry.pc \in {"list", "write"} => entry.phase \in Phases,
           UNCHANGED <<run, artifacts, kept, stale, lost, others>>
    PROVE  TypeOK' /\ turn'[t] = entry /\ \A u \in Turns \ {t} : turn'[u] = turn[u]
BY DEF TypeOK, TurnTypes, others

\* A chat turn has its answer.
LEMMA AnswerStep ==
    ASSUME Inv, NEW t \in Turns, NEW sections \in Sections, Answer(t, sections)
    PROVE  Inv'
<1> DEFINE entry == [pc |-> "extract", left |-> sections, phase |-> 0]
<1>1. sections \in Seq(Titles) /\ sections # <<>>
  <2>1. PICK n \in 1..MaxSections : sections \in [1..n -> Titles]
    BY DEF Sections
  <2> QED BY <2>1
<1>2. entry \in TurnTypes
  BY <1>1 DEF TurnTypes
<1>3. TypeOK' /\ turn'[t] = entry /\ \A u \in Turns \ {t} : turn'[u] = turn[u]
  BY <1>1, <1>2, TurnTypesStay DEF Answer, Inv
<1> QED BY <1>3, QuietStep DEF Answer, others

\* A section becomes an artifact: those before it stay.
LEMMA ExtractStep ==
    ASSUME Inv, NEW t \in Turns, Extract(t)
    PROVE  Inv'
<1> DEFINE left == Tail(turn[t].left)
<1> DEFINE entry == [turn[t] EXCEPT !.left = left, !.pc = IF left = <<>> THEN "read" ELSE "extract"]
<1>1. turn[t] \in TurnTypes /\ turn[t].left # <<>> /\ turn \in [Turns -> TurnTypes]
  BY DEF Inv, TypeOK, TurnTypes, Extract
<1>2. turn[t].left \in Seq(Titles)
  BY <1>1 DEF TurnTypes
<1>3. Head(turn[t].left) \in Titles /\ left \in Seq(Titles)
  BY <1>1, <1>2
<1>4. entry \in TurnTypes /\ turn' = [turn EXCEPT ![t] = entry]
      /\ entry.pc = (IF left = <<>> THEN "read" ELSE "extract") /\ entry.left = left
  BY <1>1, <1>3 DEF TurnTypes, Extract
<1>5. turn'[t] = entry /\ (\A u \in Turns \ {t} : turn'[u] = turn[u]) /\ turn' \in [Turns -> TurnTypes]
  BY <1>1, <1>4
<1>6. artifacts' = Append(artifacts, Head(turn[t].left))
      /\ artifacts' \in Seq(Titles) /\ Len(artifacts') <= MaxArtifacts /\ kept' \subseteq DOMAIN artifacts'
  BY <1>3, AddArtifactFacts DEF Extract, Inv
<1> HIDE DEF entry, left
<1>8. TypeOK'
  <2>1. \A u \in Turns : /\ turn'[u].pc = "extract" => turn'[u].left # <<>>
                         /\ turn'[u].pc \in {"list", "write"} => turn'[u].phase \in Phases
    BY <1>4, <1>5 DEF Inv, TypeOK
  <2>2. UNCHANGED <<run, stale, lost, others>>
    BY DEF Extract
  <2> QED BY <1>5, <1>6, <2>1, <2>2 DEF Inv, TypeOK, TurnTypes, others
<1> QED BY <1>3, <1>4, <1>5, <1>6, <1>8, QuietStep DEF Extract, others

\* A check reads the run's phase.
LEMMA ReadStep ==
    ASSUME Inv, NEW t \in Turns, Read(t)
    PROVE  Inv'
<1> DEFINE p == run.phase
<1> DEFINE pc == IF run.status = "none" \/ p \notin Phases THEN "over" ELSE IF Expected[p] = <<>> THEN "write" ELSE "list"
<1> DEFINE entry == [turn[t] EXCEPT !.phase = p, !.pc = pc]
<1>1. turn[t] \in TurnTypes /\ p \in Phases \cup {0} /\ artifacts \in Seq(Titles)
  BY DEF Inv, TypeOK, TurnTypes
<1>2. entry \in TurnTypes /\ entry.pc = pc /\ entry.phase = p /\ turn' = [turn EXCEPT ![t] = entry]
  BY <1>1 DEF TurnTypes, Read
<1>3. TypeOK' /\ turn'[t] = entry /\ \A u \in Turns \ {t} : turn'[u] = turn[u]
  <2> HIDE DEF entry
  <2> QED BY <1>2, TurnTypesStay DEF Read, Inv
<1> HIDE DEF entry
<1>4. ASSUME moves = 0 PROVE CheckIsEarned(t)'
  <2>1. Earned(p)
    BY <1>4 DEF Inv, RunIsEarned, RecordIsEarned
  <2>2. pc = "write" => Made(p)
    BY <1>1, NothingExpected DEF Made
  <2> HIDE DEF pc, p
  <2> QED BY <1>2, <1>3, <2>1, <2>2 DEF CheckIsEarned, Earned, Made, Read
<1>5. \A u \in Turns \ {t} : CheckIsEarned(u) => CheckIsEarned(u)'
  BY <1>3 DEF CheckIsEarned, Earned, Made, Read
<1>6. RunIsEarned => RunIsEarned'
  BY DEF RunIsEarned, RecordIsEarned, Earned, Made, Read
<1>7. moves' = moves
  BY DEF Read, others
<1> QED BY <1>3, <1>4, <1>5, <1>6, <1>7 DEF Inv

\* A check lists the artifacts, and goes on only if the phase is complete.
LEMMA ListStep ==
    ASSUME Inv, NEW t \in Turns, List(t)
    PROVE  Inv'
<1> DEFINE pc == IF Complete(turn[t].phase, artifacts, kept) THEN "write" ELSE "over"
<1> DEFINE entry == [turn[t] EXCEPT !.pc = pc]
<1>1. turn[t] \in TurnTypes /\ turn[t].phase \in Phases
  BY DEF Inv, TypeOK, TurnTypes, List
<1>2. entry \in TurnTypes /\ entry.pc = pc /\ entry.phase = turn[t].phase /\ turn' = [turn EXCEPT ![t] = entry]
  BY <1>1 DEF TurnTypes, List
<1>3. TypeOK' /\ turn'[t] = entry /\ \A u \in Turns \ {t} : turn'[u] = turn[u]
  <2>1. pc # "extract"
    OBVIOUS
  <2> HIDE DEF entry, pc
  <2> QED BY <1>1, <1>2, <2>1, TurnTypesStay DEF List, Inv
<1> HIDE DEF entry
<1>4. ASSUME moves = 0 PROVE CheckIsEarned(t)'
  <2>1. Earned(turn[t].phase)
    BY <1>4 DEF Inv, CheckIsEarned, List
  <2>2. pc = "write" => Made(turn[t].phase)
    <3>1. artifacts \in Seq(Titles) /\ kept \in SUBSET DOMAIN artifacts
      BY DEF Inv, TypeOK
    <3>2. DOMAIN artifacts \in SUBSET DOMAIN artifacts
      OBVIOUS
    <3> QED BY <1>1, <3>1, <3>2, CompleteWithMore DEF Made
  <2> HIDE DEF pc
  <2> QED BY <1>2, <1>3, <2>1, <2>2 DEF CheckIsEarned, Earned, Made, List
<1>5. \A u \in Turns \ {t} : CheckIsEarned(u) => CheckIsEarned(u)'
  BY <1>3 DEF CheckIsEarned, Earned, Made, List
<1>6. RunIsEarned => RunIsEarned'
  BY DEF RunIsEarned, RecordIsEarned, Earned, Made, List
<1>7. moves' = moves
  BY DEF List, others
<1> QED BY <1>3, <1>4, <1>5, <1>6, <1>7 DEF Inv

\* A check writes the phase after the one it read.
LEMMA WriteStep ==
    ASSUME Inv, NEW t \in Turns, Write(t)
    PROVE  Inv'
<1> DEFINE p == turn[t].phase
<1> DEFINE entry == [turn[t] EXCEPT !.pc = "over"]
<1>1. turn[t] \in TurnTypes /\ p \in Phases /\ turn \in [Turns -> TurnTypes] /\ p \in Nat /\ Last \in Nat
      /\ Phases = 1..Last
  BY DEF Inv, TypeOK, TurnTypes, Write, Phases, Last
<1>2. /\ entry \in TurnTypes /\ entry.pc = "over" /\ turn' = [turn EXCEPT ![t] = entry]
  BY <1>1 DEF TurnTypes, Write
<1>3. turn'[t] = entry /\ (\A u \in Turns \ {t} : turn'[u] = turn[u]) /\ turn' \in [Turns -> TurnTypes]
  BY <1>1, <1>2
<1> HIDE DEF entry
<1>4. /\ run' \in RunRecord /\ stale' \in RunRecord /\ stale' \in {stale, run, run'}
      /\ run'.phase = run.phase \/ (p # Last /\ run'.phase = p + 1)
      /\ run'.status = run.status \/ (p = Last /\ run'.status = "completed")
  <2>1. CASE p = Last
    BY <2>1, UpdateStatusFacts, TransitionTypes DEF Write, Inv
  <2>2. CASE p # Last
    <3>1. p + 1 \in Phases
      BY <1>1, <2>2
    <3> QED BY <2>2, <3>1, AdvancePhaseFacts DEF Write, Inv
  <2> QED BY <2>1, <2>2
<1>5. TypeOK'
  BY <1>2, <1>3, <1>4 DEF Inv, TypeOK, Write, TurnTypes, RunRecord, others
<1>6. ASSUME moves = 0 PROVE RunIsEarned'
  <2>1. RunIsEarned /\ Earned(p) /\ Made(p)
    BY <1>6 DEF Inv, CheckIsEarned, Write
  <2>2. \A q \in Phases : q < p + 1 => q < p \/ q = p
    BY <1>1
  <2>3. p = Last => \A q \in Phases : q < p \/ q = p
    BY <1>1
  <2>4. artifacts' = artifacts
    BY DEF Write
  <2> HIDE DEF p
  <2>5. \A q \in Phases : q < run'.phase => Made(q)
    BY <1>4, <2>1, <2>2 DEF RunIsEarned, RecordIsEarned, Earned
  <2>6. run'.status = "completed" => \A q \in Phases : Made(q)
    BY <1>4, <2>1, <2>3 DEF RunIsEarned, RecordIsEarned, Earned
  <2>7. stale' \in {stale, run, run'}
    BY <1>4
  <2> QED BY <2>1, <2>4, <2>5, <2>6, <2>7 DEF RunIsEarned, RecordIsEarned, Earned, Made
<1>7. \A u \in Turns : CheckIsEarned(u) => CheckIsEarned(u)'
  BY <1>2, <1>3 DEF CheckIsEarned, Earned, Made, Write
<1>8. moves' = moves
  BY DEF Write, others
<1> QED BY <1>5, <1>6, <1>7, <1>8 DEF Inv

\* What a store lost leaves the run as it was, or as it had been.
LEMMA DisturbedFacts ==
    ASSUME TypeOK, artifacts' = artifacts, moves' = moves, Disturbed
    PROVE  /\ {run', stale'} \subseteq {run, stale}
           /\ kept' \subseteq DOMAIN artifacts' /\ losses' \in 0..MaxIncidents /\ lost' = TRUE
           /\ run' \in RunRecord /\ stale' \in RunRecord
<1>1. losses' \in 0..MaxIncidents
  BY DEF Disturbed, TypeOK
<1>2. kept' \subseteq DOMAIN artifacts'
  BY DEF Disturbed, TypeOK
<1> QED BY <1>1, <1>2 DEF Disturbed, SetRun, TypeOK, RunRecord

\* A turn fails, or a kill ends them all, or calls of a store overlap.
LEMMA EndStep ==
    ASSUME Inv, Crash \/ CrashInWrite \/ CallsOverlap \/ \E t \in Turns : Fails(t)
    PROVE  Inv'
<1>1. Over \in TurnTypes /\ Over.pc = "over"
  BY DEF Over, TurnTypes
<1>2. /\ turn' \in [Turns -> TurnTypes]
      /\ \A u \in Turns : turn'[u] = turn[u] \/ turn'[u] = Over
  <2>1. turn \in [Turns -> TurnTypes]
    BY DEF Inv, TypeOK, TurnTypes
  <2> HIDE DEF TurnTypes
  <2> QED BY <2>1, <1>1 DEF Crash, CrashInWrite, CallsOverlap, Fails
<1>3. UNCHANGED <<artifacts, moves>> /\ start' \in {"new", "created", "over"}
  BY DEF Crash, CrashInWrite, CallsOverlap, Fails, Inv, TypeOK, others
<1>4. Disturbed \/ (UNCHANGED <<run, kept, stale, losses>> /\ lost' = TRUE)
  BY DEF Crash, CrashInWrite, CallsOverlap, Fails, others
<1>5. /\ {run', stale'} \subseteq {run, stale}
      /\ kept' \subseteq DOMAIN artifacts' /\ losses' \in 0..MaxIncidents /\ lost' = TRUE
      /\ run' \in RunRecord /\ stale' \in RunRecord
  BY <1>3, <1>4, DisturbedFacts DEF Inv, TypeOK, RunRecord
<1>6. TypeOK'
  BY <1>1, <1>2, <1>3, <1>5 DEF Inv, TypeOK, TurnTypes, RunRecord
<1> QED BY <1>1, <1>2, <1>3, <1>5, <1>6, QuietStep

\* Every step keeps the invariant.
LEMMA NextInv == Inv /\ [Next]_vars => Inv'
<1> SUFFICES ASSUME Inv, [Next]_vars PROVE Inv'
  OBVIOUS
<1>1. CASE CreateRun
  BY <1>1, CreateRunStep
<1>2. CASE SetRunning
  BY <1>2, StatusStep, TransitionTypes DEF SetRunning
<1>3. CASE Users
  BY <1>3, UsersStep
<1>4. ASSUME NEW t \in Turns, \/ \E sections \in Sections : Answer(t, sections)
                              \/ Extract(t) \/ Check(t) \/ Fails(t)
      PROVE Inv'
  BY <1>4, AnswerStep, ExtractStep, ReadStep, ListStep, WriteStep, EndStep DEF Check
<1>5. CASE Crash \/ CrashInWrite \/ CallsOverlap
  BY <1>5, EndStep
<1>6. CASE UNCHANGED vars
  BY <1>6 DEF vars, Inv, TypeOK, RunIsEarned, RecordIsEarned, CheckIsEarned, Earned, Made
<1> QED BY <1>1, <1>2, <1>3, <1>4, <1>5, <1>6 DEF Next

\* Every state of a run, of any playbook, satisfies the invariant.
THEOREM Invariance == Spec => []Inv
<1>1. Init => Inv
  BY InitInv
<1>2. Inv /\ [Next]_vars => Inv'
  BY NextInv
<1> QED BY <1>1, <1>2, PTL DEF Spec

\* Every state of the run, its artifacts and turns is well typed.
THEOREM TypeCorrect == Spec => []TypeOK
<1>1. Inv => TypeOK
  BY DEF Inv
<1> QED BY <1>1, Invariance, PTL

\* For every phase that a run no user moved has passed, all artifacts had been made, for any
\* playbook and any number of overlapping turns, whatever overlapping calls and kills make
\* the stores of runs and artifacts lose (checkPhaseProgress).
THEOREM PhasesAreEarned == Spec => []PassedPhasesAreEarned
<1>1. Inv => PassedPhasesAreEarned
  BY DEF Inv, PassedPhasesAreEarned, RunIsEarned, RecordIsEarned, Earned, Made
<1> QED BY <1>1, Invariance, PTL
====
