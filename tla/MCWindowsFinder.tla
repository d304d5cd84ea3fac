---------------------------- MODULE MCWindowsFinder ----------------------------
(* A small instance of WindowsFinder for TLC: two native sessions of one    *)
(* process on the speaker.                                                   *)
EXTENDS WindowsFinder, TLC

CONSTANTS speaker, mic, render, capture, s1, s2, p

MCFlowOf == speaker :> render @@ mic :> capture
MCDeviceOf == [s \in Natives |-> speaker]
MCProcessOf == [s \in Natives |-> p]

\* Native sessions are interchangeable.
Symmetry == Permutations(Natives)
=============================================================================
