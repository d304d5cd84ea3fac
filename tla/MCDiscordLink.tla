------------------------------ MODULE MCDiscordLink ------------------------------
(* Small instances of DiscordLink for TLC.                                  *)
EXTENDS DiscordLink, TLC

CONSTANTS i1, i2, s1, s2

\* Switched on with one application, switched off with another: a change
\* between them changes the credentials and the switch.
MCSettings == {[on |-> TRUE, id |-> i1, secret |-> s1],
               [on |-> FALSE, id |-> i2, secret |-> s2]}

\* Accounts are interchangeable.
Symmetry == Permutations(Accounts)
=============================================================================
