------------------------------ MODULE JobSteps ------------------------------
(***************************************************************************)
(* The composite actions of one job: action.yml starts the agent in the    *)
(* background and records its pid, the job's own steps run, report/        *)
(* action.yml reads the log three times while the agent still writes it,   *)
(* and the stop step (of report, of stop/action.yml or both) ends it.      *)
(* FC_PID is the pid of sudo.  Whether sudo is replaced by the agent or    *)
(* waits for it as its child is sudo's configuration: both are modelled.   *)
(* A waiting sudo passes SIGTERM on and cannot pass on SIGKILL.            *)
(* The job steps that use report and stop say if: always().                *)
(***************************************************************************)
EXTENDS Naturals

CONSTANTS
    Options,    \* [start, report, summary, annotations, failOnDeny, stops]
    MaxPolls,   \* polls after SIGTERM; 10 in the script
    MaxDenied   \* bound: denial lines the agent writes

ASSUME JobAssumption ==
    /\ MaxPolls \in Nat \ {0} /\ MaxDenied \in Nat
    /\ Options \subseteq [start : BOOLEAN, report : BOOLEAN, summary : BOOLEAN,
                          annotations : BOOLEAN, failOnDeny : BOOLEAN,
                          stops : Nat]

VARIABLES
    opts, waits,    \* the inputs; whether sudo waits for its child
    pc,             \* the next command of the job's shells
    pid,            \* FC_PID in the job's environment
    cancelled,      \* the job was cancelled
    agent, sudo,    \* the agent's process; whether a waiting sudo lives
    pending,        \* signals sent and not yet delivered
    killed,         \* SIGKILL was sent
    denied,         \* denial lines in the log
    before, shown,  \* those there when report began; those each scan counted
    verdict,        \* of the report step
    polls, stopsLeft, stopped   \* the stop step; stop steps to come; its outcome

Life == INSTANCE AgentLife

procs    == <<agent, sudo, pending>>
rendered == <<before, shown, verdict>>
stopping == <<polls, stopsLeft, stopped, killed>>
script   == <<pc, pid, cancelled, rendered, stopping>>
vars     == <<opts, waits, script, procs, denied>>

Scans == {"summary", "annotations", "json"}

Init ==
    /\ opts \in Options /\ waits \in BOOLEAN
    /\ pc = IF opts.start THEN "start" ELSE "work"
    /\ pid \in {"unset", "invalid"} /\ cancelled = FALSE
    /\ agent = "none" /\ sudo = FALSE /\ pending = {} /\ killed = FALSE
    /\ denied = 0 /\ before = 0 /\ shown = [s \in Scans |-> 0] /\ verdict = "none"
    /\ polls = 0 /\ stopsLeft = opts.stops /\ stopped = "none"

Running == agent \notin {"none", "gone"}

\* sudo kill -0 "${FC_PID}"
Alive == IF waits THEN sudo ELSE Running

Goto(next) == pc' = next
AfterWork  == IF opts.report THEN "report" ELSE "stop"

-----------------------------------------------------------------------------
(* The agent, its log and sudo. *)

AgentMoves ==
    /\ Life!Attach \/ Life!Detach \/ Life!Ready \/ Life!Closing \/ Life!Exit \/ Life!Killed
    /\ UNCHANGED <<opts, waits, script, sudo, pending, denied>>

\* One write per line, appended by the reader goroutine.
LogDenial ==
    /\ agent \in {"serving", "closing"} /\ denied < MaxDenied
    /\ denied' = denied + 1
    /\ UNCHANGED <<opts, waits, script, procs>>

\* sudo follows its child.
SudoExits ==
    /\ sudo /\ agent = "gone" /\ sudo' = FALSE
    /\ UNCHANGED <<opts, waits, script, agent, pending, denied>>

DeliverTerm ==
    /\ "TERM" \in pending /\ pending' = pending \ {"TERM"}
    /\ Life!Terminated
    /\ UNCHANGED <<opts, waits, script, sudo, denied>>

\* The agent's own process, or sudo and not its child: what sudo had still to
\* pass on is lost with it.
DeliverKill ==
    /\ "KILL" \in pending /\ pending' = {}
    /\ IF waits THEN sudo' = FALSE /\ UNCHANGED agent
                ELSE agent' = "gone" /\ UNCHANGED sudo
    /\ UNCHANGED <<opts, waits, script, denied>>

System == AgentMoves \/ LogDenial \/ SudoExits \/ DeliverTerm \/ DeliverKill

-----------------------------------------------------------------------------
(* The start step, the job's own steps and cancellation. *)

\* A newline in an input, both allow and config, or no temporary file.
StartRejected ==
    /\ pc = "start" /\ Goto(AfterWork)
    /\ UNCHANGED <<opts, waits, pid, cancelled, rendered, stopping, procs, denied>>

Spawn ==
    /\ pc = "start" /\ Goto("export")
    /\ agent' = "loading" /\ sudo' = waits
    /\ UNCHANGED <<opts, waits, pid, cancelled, rendered, stopping, pending, denied>>

ExportPid ==
    /\ pc = "export" /\ pid' = "agent" /\ Goto("check")
    /\ UNCHANGED <<opts, waits, cancelled, rendered, stopping, procs, denied>>

\* Two seconds later: is the process there?  Steps that fail skip the work.
CheckAlive ==
    /\ pc = "check" /\ Goto(IF Alive THEN "work" ELSE AfterWork)
    /\ UNCHANGED <<opts, waits, pid, cancelled, rendered, stopping, procs, denied>>

Work ==
    /\ pc = "work" /\ Goto(AfterWork)
    /\ UNCHANGED <<opts, waits, pid, cancelled, rendered, stopping, procs, denied>>

\* The running step is ended where it is; steps with always() still run, and
\* within report only its stop step has it.
Cancel ==
    /\ ~cancelled /\ cancelled' = TRUE
    /\ \/ pc \in {"start", "export", "check", "work"} /\ Goto(AfterWork)
       \/ pc \in Scans \cup {"report", "gate"} /\ Goto("stop")
    /\ UNCHANGED <<opts, waits, pid, rendered, stopping, procs, denied>>

\* A cancelled job need not render its report.
RenderSkipped ==
    /\ pc = "report" /\ cancelled /\ Goto("stop")
    /\ UNCHANGED <<opts, waits, pid, cancelled, rendered, stopping, procs, denied>>

-----------------------------------------------------------------------------
(* The report step: three scans of a file that grows. *)

ReportFails ==
    /\ pc \in Scans \cup {"report"} /\ verdict' = "error" /\ Goto("stop")
    /\ UNCHANGED <<opts, waits, pid, cancelled, before, shown, stopping, procs, denied>>

\* There is a log once the shell has redirected to it.
LogFound ==
    /\ pc = "report" /\ agent # "none"
    /\ before' = denied /\ Goto("summary")
    /\ UNCHANGED <<opts, waits, pid, cancelled, shown, verdict, stopping, procs, denied>>

Scan(format, wanted, next) ==
    /\ pc = format /\ Goto(next)
    /\ shown' = IF wanted THEN [shown EXCEPT ![format] = denied] ELSE shown
    /\ UNCHANGED <<opts, waits, pid, cancelled, before, verdict, stopping, procs, denied>>

\* Mutant: the outputs are computed before the annotations.
JsonFirst ==
    \/ Scan("summary", opts.summary, "json")
    \/ Scan("json", TRUE, "annotations")
    \/ Scan("annotations", opts.annotations, "gate")

Render ==
    \/ Scan("summary", opts.summary, "annotations")
    \/ Scan("annotations", opts.annotations, "json")
    \/ Scan("json", TRUE, "gate")

FailOnDeny ==
    /\ pc = "gate" /\ Goto("stop")
    /\ verdict' = IF opts.failOnDeny /\ shown["json"] > 0 THEN "denied" ELSE "ok"
    /\ UNCHANGED <<opts, waits, pid, cancelled, before, shown, stopping, procs, denied>>

-----------------------------------------------------------------------------
(* The stop step. *)

\* Mutant: the stop step is skipped once a step has failed.
StopOnSuccess ==
    /\ pc = "stop"
    /\ IF stopsLeft = 0 \/ verdict \in {"denied", "error"}
       THEN Goto("end") /\ UNCHANGED stopsLeft
       ELSE Goto("look") /\ stopsLeft' = stopsLeft - 1
    /\ UNCHANGED <<opts, waits, pid, cancelled, rendered, polls, stopped, killed,
                   procs, denied>>

\* if: always() && inputs.stop-agent == 'true'; a standalone stop may follow.
NextStop ==
    /\ pc = "stop"
    /\ IF stopsLeft = 0 THEN Goto("end") /\ UNCHANGED stopsLeft
                        ELSE Goto("look") /\ stopsLeft' = stopsLeft - 1
    /\ UNCHANGED <<opts, waits, pid, cancelled, rendered, polls, stopped, killed,
                   procs, denied>>

Ends(result) ==
    /\ stopped' = result /\ Goto("stop") /\ polls' = 0
    /\ UNCHANGED <<opts, waits, pid, cancelled, rendered, stopsLeft, killed, procs, denied>>

NothingToStop  == pc = "look" /\ pid = "unset" /\ Ends("nothing")
PidRefused     == pc = "look" /\ pid = "invalid" /\ Ends("refused")
AlreadyStopped == pc = "look" /\ pid = "agent" /\ ~Alive /\ Ends("stopped")

Send(signal, next) ==
    /\ pending' = pending \cup {signal} /\ Goto(next)
    /\ killed' = (killed \/ signal = "KILL")
    /\ UNCHANGED <<opts, waits, pid, cancelled, rendered, polls, stopsLeft, stopped,
                   agent, sudo, denied>>

SendTerm == pc = "look" /\ pid = "agent" /\ Alive /\ Send("TERM", "poll")

PollStopped == pc = "poll" /\ polls < MaxPolls /\ ~Alive /\ Ends("stopped")

\* Mutant: one poll too many.
PollOneMore ==
    /\ pc = "poll" /\ polls <= MaxPolls /\ Alive
    /\ polls' = polls + 1
    /\ UNCHANGED <<opts, waits, pc, pid, cancelled, rendered, stopsLeft, stopped,
                   killed, procs, denied>>

\* Mutant: polling until the process is gone.
PollForEver ==
    /\ pc = "poll" /\ Alive
    /\ UNCHANGED vars

PollAlive ==
    /\ pc = "poll" /\ polls < MaxPolls /\ Alive
    /\ polls' = polls + 1
    /\ UNCHANGED <<opts, waits, pc, pid, cancelled, rendered, stopsLeft, stopped,
                   killed, procs, denied>>

\* Mutant: after the last poll the agent is taken to have stopped.
GiveUpPolling == pc = "poll" /\ polls = MaxPolls /\ Ends("stopped")

SendKill == pc = "poll" /\ polls = MaxPolls /\ Send("KILL", "verify")

Verify == pc = "verify" /\ Ends(IF Alive THEN "failed" ELSE "stopped")

StopStep == NextStop \/ NothingToStop \/ PidRefused \/ AlreadyStopped \/ SendTerm
            \/ PollStopped \/ PollAlive \/ SendKill \/ Verify

ReportStep == LogFound \/ Render \/ FailOnDeny

Next ==
    \/ StartRejected \/ Spawn \/ ExportPid \/ CheckAlive \/ Work
    \/ Cancel \/ RenderSkipped
    \/ ReportStep \/ ReportFails \/ StopStep
    \/ System

\* The scripts' own commands return; nothing is assumed of the agent, of
\* signal delivery or of what the job itself runs.
Spec == Init /\ [][Next]_vars /\ WF_vars(StopStep)

-----------------------------------------------------------------------------
(* Properties. *)

\* The type invariant of the job.
TypeOK ==
    /\ opts \in Options /\ waits \in BOOLEAN /\ cancelled \in BOOLEAN
    /\ pc \in Scans \cup {"start", "export", "check", "work", "report", "gate",
                          "stop", "look", "poll", "verify", "end"}
    /\ pid \in {"unset", "invalid", "agent"}
    /\ agent \in Life!Stages \cup {"none"}
    /\ (sudo => waits /\ agent # "none") /\ killed \in BOOLEAN
    /\ pending \subseteq {"TERM", "KILL"}
    /\ denied \in 0..MaxDenied /\ before \in 0..denied
    /\ shown \in [Scans -> 0..denied]
    /\ verdict \in {"none", "ok", "denied", "error"}
    /\ polls \in 0..MaxPolls /\ stopsLeft \in 0..opts.stops
    /\ stopped \in {"none", "nothing", "refused", "stopped", "failed"}

\* The stop step: an agent it says is stopped, by itself, by SIGTERM or by
\* force, is gone, unless SIGKILL went to a sudo that waits for its child.
StopMeansStopped == stopped = "stopped" => agent = "gone" \/ (waits /\ killed)

\* FC_PID and always(): an agent whose pid was recorded is still running at
\* the end of a job with a stop step only if that step failed with an error,
\* or as above, whatever step failed before and whenever the job was cancelled.
NeverForgotten ==
    pc = "end" /\ opts.stops > 0 /\ pid = "agent" /\ Running =>
        stopped = "failed" \/ (waits /\ killed)

\* The three scans of a growing log: no later one shows less than an earlier
\* one, and a report that passes with fail-on-deny showed no denial and had
\* none to show when it began.
ReportHonest ==
    /\ verdict \in {"ok", "denied"} =>
           \A s \in {"summary", "annotations"} : shown[s] <= shown["json"]
    /\ verdict = "ok" /\ opts.failOnDeny =>
           before = 0 /\ \A s \in Scans : shown[s] = 0

\* stop/action.yml: bounded polling; whatever the agent does, the stop step
\* and the job come to an end.
StopEnds == pc = "stop" ~> pc = "end"
=============================================================================
