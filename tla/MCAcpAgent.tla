---- MODULE MCAcpAgent ----
(* One session whose client sends two prompts one after the other, and one whose client *)
(* sends its two whenever it likes.                                                     *)
EXTENDS AcpAgent
CONSTANTS p1, p2, q1, q2, patient, hasty

MCPrompts == {p1, p2, q1, q2}
MCSessionOf == [p \in MCPrompts |-> IF p \in {q1, q2} THEN hasty ELSE patient]
====
