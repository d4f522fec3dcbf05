---- MODULE MCTaskCron ----
(* Tasks 1 and 3 belong to one agent, 2 and 4 to another whose manager is the first;    *)
(* a blocked task 1 or 3 goes to the default agent. Three targets, two workers, and one *)
(* task more than the board lists.                                                      *)
EXTENDS TaskCron

MCTasks == 1..4
MCAgents == {"goat", "cto", "dev", "sage"}
MCAssignedTo == [t \in MCTasks |-> IF t \in {2, 4} THEN "dev" ELSE "cto"]
MCReportsTo == [a \in MCAgents |-> IF a = "dev" THEN "cto" ELSE "none"]
====
