---- MODULE MCOrganisation ----
(* Goat and two agents that are created as individuals, one with the id of OpenClaw's own. *)
EXTENDS Organisation
====
