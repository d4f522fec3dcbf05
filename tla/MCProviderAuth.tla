---- MODULE MCProviderAuth ----
(* Two sign-ins, two questions each, two redirects of each browser; one agent, one request. *)
EXTENDS ProviderAuth, TLC

\* Sign-ins are interchangeable, and only safety is checked.
MCSymmetry == Permutations(Sessions)
====
