-------------------------- MODULE ConnectionLifecycle --------------------------
(***************************************************************************)
(* What internal/reconnect promises the code around it, without goroutines *)
(* or channels.  A run begins and ends.  Dials establish connections, one  *)
(* at a time is up, and only during a run; every connection that was       *)
(* established is retired once and then released, and a run ends only when *)
(* all of its connections are.                                             *)
(***************************************************************************)
CONSTANTS Conns

VARIABLES
  running,  \* between Start and the return of Stop
  status    \* where each connection is in its life

vars == <<running, status>>

Init ==
  /\ running = FALSE
  /\ status = [c \in Conns |-> "absent"]

Begin ==
  /\ ~running
  /\ running' = TRUE
  /\ UNCHANGED status

\* Nothing of the run is left; what dials it abandoned produce is retired.
End ==
  /\ running
  /\ \A c \in Conns : status[c] \in {"absent", "retired"}
  /\ running' = FALSE
  /\ UNCHANGED status

\* A dial succeeds: for this run, or too late for its own.
Establish(c) ==
  /\ status[c] = "absent"
  /\ \/ running /\ status' = [status EXCEPT ![c] = "established"]
     \/ status' = [status EXCEPT ![c] = "retired"]
  /\ UNCHANGED running

Adopt(c) ==
  /\ running
  /\ status[c] = "established"
  /\ \A d \in Conns : status[d] # "up"
  /\ status' = [status EXCEPT ![c] = "up"]
  /\ UNCHANGED running

Retire(c) ==
  /\ status[c] \in {"established", "up"}
  /\ status' = [status EXCEPT ![c] = "retired"]
  /\ UNCHANGED running

\* Close returns.  A connection that never was up may be closed at once.
Release(c) ==
  /\ status[c] \in {"established", "retired"}
  /\ status' = [status EXCEPT ![c] = "absent"]
  /\ UNCHANGED running

Next ==
  \/ Begin \/ End
  \/ \E c \in Conns : Establish(c) \/ Adopt(c) \/ Retire(c) \/ Release(c)

Spec == Init /\ [][Next]_vars

\* Close is called on every connection that is given up.
FairSpec == Spec /\ \A c \in Conns : WF_vars(status[c] = "retired" /\ Release(c))
=============================================================================
