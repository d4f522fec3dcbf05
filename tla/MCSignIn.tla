---- MODULE MCSignIn ----
(* Two sign-ins, two questions each, two redirects of each browser. *)
EXTENDS SignIn, TLC

\* Sign-ins are interchangeable, and only safety is checked.
MCSymmetry == Permutations(Sessions)
====
