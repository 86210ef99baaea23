----------------------------- MODULE AgentLife ------------------------------
(***************************************************************************)
(* What the rest of a job may rely on of the agent's process: it loads,    *)
(* attaches its hooks in block mode, serves, closes on a signal or a read  *)
(* error, and is gone.  Until it serves no signal handler is installed, so *)
(* a signal ends it at once.  AgentRun implements this; JobSteps uses it.  *)
(***************************************************************************)
VARIABLE agent

Stages == {"loading", "attached", "serving", "closing", "gone"}

Init == agent = "loading"

Attach  == agent = "loading" /\ agent' = "attached"
\* newWatcher failed after the hooks: unwinding removes them again.
Detach  == agent = "attached" /\ agent' = "loading"
Ready   == agent \in {"loading", "attached"} /\ agent' = "serving"
Closing == agent = "serving" /\ agent' = "closing"
Exit    == agent \in {"loading", "closing"} /\ agent' = "gone"
Killed  == agent \in Stages \ {"gone"} /\ agent' = "gone"

\* SIGTERM: the handler's only once there is one.
Terminated ==
    \/ agent \in {"loading", "attached"} /\ Killed
    \/ Closing
    \/ agent \in {"closing", "gone"} /\ UNCHANGED agent

Next == Attach \/ Detach \/ Ready \/ Closing \/ Exit \/ Killed

Spec == Init /\ [][Next]_agent
=============================================================================
