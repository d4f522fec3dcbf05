---- MODULE MCMessaging ----
(* A connection of each channel, a thread, two sockets, two messages.        *)
EXTENDS Messaging, TLC

\* Messages and sockets are interchangeable.
MCSymmetry == Permutations(Inbound) \cup Permutations(Sockets)
====
