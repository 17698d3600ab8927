---------------------------- MODULE MCNfdWrapper ----------------------------
(* Starts and stops of NFD in every order, and what a service cannot rely  *)
(* on when it does not wait.                                               *)
EXTENDS NfdWrapper

\* A startNfd called at any time gets NFD to run.  Not so: one called while the last
\* thread is ending finds g_runner taken, does nothing, and is not made up for.
EveryStartRuns ==
  wanted = "start" ~> (\E t \in Thread : Running(t) \/ pc[t] = "failed") \/ wanted = "stop" \/ ~Defined

\* A stopNfd called at any time is safe.  Not so: the thread may fail, or not have
\* entered its loop, between the test of g_runner and its use.
StopIsSafe == undefined # "stopNfd"

=============================================================================
