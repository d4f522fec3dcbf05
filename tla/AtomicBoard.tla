---- MODULE AtomicBoard ----
(***************************************************************************)
(* What the task board promises its callers: one database of tasks, each   *)
(* operation applied to it at once.  A row appears by Create, changes by   *)
(* SetRow, the listed ones disappear by Delete; the leading task is set    *)
(* only to a task that exists.  There are two exceptions.  An operation    *)
(* that is refused may be applied later all the same, together with the    *)
(* next one of the same service, unless another service came between.  And *)
(* a write cut short leaves a torn database: the next open either fails    *)
(* or starts again from an empty one.                                      *)
(***************************************************************************)
CONSTANTS
    Services, \* who works with the board
    Tasks,    \* task ids
    Values,   \* what a task's rows may say (status, entries, timestamps)
    None      \* no row, no leading task, nothing rejected

VARIABLES
    db,       \* [rows: task -> value or None, leading: task or None]
    torn,     \* the file was cut short and not rewritten since
    rejected  \* per service: the database with its refused changes, or None

vars == <<db, torn, rejected>>

Db == [rows : [Tasks -> Values \cup {None}], leading : Tasks \cup {None}]
EmptyDb == [rows |-> [t \in Tasks |-> None], leading |-> None]
Nothing == [s \in Services |-> None]

Init == db = EmptyDb /\ torn = FALSE /\ rejected = Nothing

----------------------------------------------------------------------------
(* The operations: from database d to database e                           *)

Create(d, e) ==
    \E t \in Tasks, v \in Values : d.rows[t] = None /\ e = [d EXCEPT !.rows[t] = v]

SetRow(d, e) ==
    \E t \in Tasks, v \in Values : d.rows[t] # None /\ e = [d EXCEPT !.rows[t] = v]

Delete(d, e) ==
    \E ts \in SUBSET Tasks :
        /\ \A t \in ts : d.rows[t] # None
        /\ e = [d EXCEPT !.rows = [t \in Tasks |-> IF t \in ts THEN None ELSE @[t]]]

SetLeading(d, e) ==
    \E t \in Tasks : d.rows[t] # None /\ e = [d EXCEPT !.leading = t]

ClearLeading(d, e) == e = [d EXCEPT !.leading = None]

\* One operation, which need not change anything.
Change(d, e) ==
    \/ e = d
    \/ Create(d, e) \/ SetRow(d, e) \/ Delete(d, e)
    \/ SetLeading(d, e) \/ ClearLeading(d, e)

----------------------------------------------------------------------------
Own(s) == IF rejected[s] = None THEN db ELSE rejected[s]

\* An operation of s, and what s was refused before; what others were refused is forgotten.
Apply(s) ==
    /\ ~torn
    /\ Change(Own(s), db')
    /\ rejected' = Nothing
    /\ UNCHANGED torn

\* An operation of s is refused.
Reject(s) ==
    /\ ~torn
    /\ \E e \in Db : Change(Own(s), e) /\ rejected' = [rejected EXCEPT ![s] = e]
    /\ UNCHANGED <<db, torn>>

\* Services see that the board has changed, or end.
Forget ==
    /\ \E ss \in SUBSET Services :
          rejected' = [s \in Services |-> IF s \in ss THEN None ELSE rejected[s]]
    /\ UNCHANGED <<db, torn>>

Tear == torn' = TRUE /\ UNCHANGED db /\ rejected' = Nothing

Restart == torn /\ torn' = FALSE /\ db' = EmptyDb /\ rejected' = Nothing

Next ==
    \/ \E s \in Services : Apply(s) \/ Reject(s)
    \/ Forget \/ Tear \/ Restart

Spec == Init /\ [][Next]_vars
====
