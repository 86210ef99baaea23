--------------------------- MODULE JobSteps_proofs ---------------------------
(***************************************************************************)
(* Theorems about JobSteps, for every set of options and every bound.      *)
(***************************************************************************)
EXTENDS JobSteps, TLAPS

-----------------------------------------------------------------------------
(* Type correctness. *)

\* What the options of a job are.
LEMMA OptionType ==
    ASSUME NEW o \in Options
    PROVE  /\ o.start \in BOOLEAN /\ o.report \in BOOLEAN
           /\ o.summary \in BOOLEAN /\ o.annotations \in BOOLEAN
           /\ o.failOnDeny \in BOOLEAN /\ o.stops \in Nat
  <1>1. o \in [start : BOOLEAN, report : BOOLEAN, summary : BOOLEAN,
               annotations : BOOLEAN, failOnDeny : BOOLEAN, stops : Nat]
    BY JobAssumption
  <1> QED  BY <1>1

\* A job starts well typed.
LEMMA InitType == Init => TypeOK
  <1> SUFFICES ASSUME Init PROVE TypeOK
    OBVIOUS
  <1>1. /\ opts \in Options /\ waits \in BOOLEAN /\ cancelled \in BOOLEAN
        /\ pc \in {"start", "work"} /\ pid \in {"unset", "invalid"}
        /\ agent = "none" /\ sudo = FALSE /\ killed = FALSE /\ pending = {}
        /\ verdict = "none" /\ stopped = "none"
    BY DEF Init
  <1>2. denied \in 0..MaxDenied /\ before \in 0..denied /\ polls \in 0..MaxPolls
    BY JobAssumption DEF Init
  <1>3. shown \in [Scans -> 0..denied]
    BY DEF Init
  <1>4. stopsLeft \in 0..opts.stops
    BY <1>1, OptionType DEF Init
  <1> QED  BY <1>1, <1>2, <1>3, <1>4 DEF TypeOK

\* The agent's own steps move it from stage to stage.
LEMMA LifeType ==
    ASSUME Life!Next PROVE agent \in Life!Stages /\ agent' \in Life!Stages
  BY DEF Life!Next, Life!Stages, Life!Attach, Life!Detach, Life!Ready,
         Life!Closing, Life!Exit, Life!Killed

\* A scan counts what is in the log.
LEMMA ScanType ==
    ASSUME TypeOK, NEW s \in Scans, NEW wanted, NEW next, Scan(s, wanted, next)
    PROVE  shown' \in [Scans -> 0..denied]
  BY DEF Scan, TypeOK

\* Every step keeps the job well typed.
LEMMA TypeStep == TypeOK /\ [Next]_vars => TypeOK'
  <1> SUFFICES ASSUME TypeOK, [Next]_vars PROVE TypeOK'
    OBVIOUS
  <1> USE JobAssumption DEF TypeOK, vars, script, procs, rendered, stopping, Goto, AfterWork
  <1>1. CASE AgentMoves
    <2>1. agent \in Life!Stages /\ agent' \in Life!Stages
      BY <1>1, LifeType DEF AgentMoves, Life!Next
    <2>2. agent' # "none"
      BY <2>1 DEF Life!Stages
    <2> QED  BY <1>1, <2>1, <2>2 DEF AgentMoves
  <1>2. CASE LogDenial
    BY <1>2 DEF LogDenial
  <1>3. CASE SudoExits
    BY <1>3 DEF SudoExits
  <1>4. CASE DeliverTerm
    <2>1. agent' \in Life!Stages \cup {"none"} /\ (agent' = "none" => agent = "none")
      BY <1>4 DEF DeliverTerm, Life!Terminated, Life!Killed, Life!Closing, Life!Stages
    <2> QED  BY <1>4, <2>1 DEF DeliverTerm
  <1>5. CASE DeliverKill
    BY <1>5 DEF DeliverKill, Life!Stages
  <1>6. CASE StartRejected
    BY <1>6 DEF StartRejected
  <1>7. CASE Spawn
    BY <1>7 DEF Spawn, Life!Stages
  <1>8. CASE ExportPid
    BY <1>8 DEF ExportPid
  <1>9. CASE CheckAlive
    BY <1>9 DEF CheckAlive
  <1>10. CASE Work
    BY <1>10 DEF Work
  <1>11. CASE Cancel
    BY <1>11 DEF Cancel
  <1>12. CASE RenderSkipped
    BY <1>12 DEF RenderSkipped
  <1>13. CASE ReportFails
    BY <1>13 DEF ReportFails
  <1>14. CASE LogFound
    BY <1>14 DEF LogFound, Scans
  <1>15. CASE Render
    <2>1. PICK s \in Scans, wanted \in BOOLEAN, next \in {"annotations", "json", "gate"} :
              Scan(s, wanted, next)
      BY <1>15, OptionType DEF Render, Scans
    <2>2. shown' \in [Scans -> 0..denied]
      BY <2>1, ScanType
    <2>3. pc' \in {"annotations", "json", "gate"}
      BY <2>1 DEF Scan
    <2> QED  BY <2>1, <2>2, <2>3 DEF Scan, Scans
  <1>16. CASE FailOnDeny
    BY <1>16 DEF FailOnDeny
  <1>17. CASE NextStop
    BY <1>17, OptionType DEF NextStop
  <1>18. CASE NothingToStop \/ PidRefused \/ AlreadyStopped \/ PollStopped \/ Verify
    <2>1. PICK r \in {"nothing", "refused", "stopped", "failed"} : Ends(r)
      BY <1>18 DEF NothingToStop, PidRefused, AlreadyStopped, PollStopped, Verify
    <2> QED  BY <2>1 DEF Ends
  <1>19. CASE SendTerm
    BY <1>19 DEF SendTerm, Send
  <1>20. CASE SendKill
    BY <1>20 DEF SendKill, Send
  <1>21. CASE PollAlive
    BY <1>21 DEF PollAlive
  <1>22. CASE UNCHANGED vars
    BY <1>22
  <1> QED
    BY <1>1, <1>2, <1>3, <1>4, <1>5, <1>6, <1>7, <1>8, <1>9, <1>10, <1>11, <1>12,
       <1>13, <1>14, <1>15, <1>16, <1>17, <1>18, <1>19, <1>20, <1>21, <1>22
    DEF Next, System, ReportStep, StopStep

\* In every behaviour the job is well typed.
THEOREM TypeCorrect == Spec => []TypeOK
  BY InitType, TypeStep, PTL DEF Spec

-----------------------------------------------------------------------------
(* The stop step and the report step. *)

\* The pid is that of an agent that was started; only a SIGKILL ends a sudo
\* whose agent runs on.
PidOK ==
    /\ pc = "export" => agent # "none"
    /\ pid = "agent" => agent # "none"
    /\ "KILL" \in pending => killed
    /\ waits /\ agent # "none" /\ ~sudo => agent = "gone" \/ killed

\* No stop step has ended before the first of them begins, and every one that
\* ended has left its outcome.
StopOrder ==
    /\ pc \in Scans \cup {"start", "export", "check", "work", "report", "gate"} =>
           stopped = "none" /\ stopsLeft = opts.stops
    /\ pc \in {"look", "poll", "verify"} => stopsLeft < opts.stops
    /\ pc \in {"stop", "end"} /\ stopsLeft < opts.stops => stopped # "none"
    /\ pc = "end" => stopsLeft = 0
    /\ pc \in {"poll", "verify"} => pid = "agent"
    /\ stopped # "none" /\ pid = "agent" => stopped \in {"stopped", "failed"}

\* The last scan has seen all that an earlier one did; after the verdict no
\* scan follows.
ScanOrder ==
    /\ pc = "gate" =>
           /\ before <= shown["json"]
           /\ \A s \in Scans : shown[s] <= shown["json"]
    /\ verdict # "none" => pc \in {"stop", "look", "poll", "verify", "end"}

IInv == TypeOK /\ PidOK /\ StopOrder /\ StopMeansStopped /\ ScanOrder /\ ReportHonest

\* A job starts with no agent and nothing stopped.
LEMMA InitInv == Init => IInv
  <1>1. Init => PidOK
    BY DEF Init, PidOK
  <1>2. Init => StopOrder
    BY OptionType DEF Init, StopOrder, Scans
  <1>3. Init => StopMeansStopped /\ ScanOrder /\ ReportHonest
    BY DEF Init, StopMeansStopped, ScanOrder, ReportHonest
  <1> QED  BY <1>1, <1>2, <1>3, InitType DEF IInv

\* What the agent does, it does as an agent that is there; gone is final.
LEMMA SystemStep ==
    ASSUME TypeOK, System
    PROVE  /\ UNCHANGED <<opts, waits, script>>
           /\ denied <= denied'
           /\ agent # "none" => agent' # "none"
           /\ waits /\ agent = "none" => agent' = "none"
           /\ agent = "gone" => agent' = "gone"
           /\ pending' \subseteq pending
           /\ sudo' => sudo
           /\ sudo /\ ~sudo' => agent = "gone" \/ "KILL" \in pending
  <1> USE DEF TypeOK, script, rendered, stopping, procs
  <1>1. CASE AgentMoves
    BY <1>1 DEF AgentMoves, Life!Stages, Life!Attach, Life!Detach, Life!Ready,
                Life!Closing, Life!Exit, Life!Killed
  <1>2. CASE LogDenial
    BY <1>2 DEF LogDenial
  <1>3. CASE SudoExits
    BY <1>3 DEF SudoExits
  <1>4. CASE DeliverTerm
    BY <1>4 DEF DeliverTerm, Life!Terminated, Life!Killed, Life!Closing, Life!Stages
  <1>5. CASE DeliverKill
    BY <1>5 DEF DeliverKill, Life!Stages
  <1> QED  BY <1>1, <1>2, <1>3, <1>4, <1>5 DEF System

\* The shells' own steps leave the processes and the log alone, but for the
\* start of the agent and the signals sent to it.
Shell == \/ StartRejected \/ ExportPid \/ CheckAlive \/ Work \/ Cancel \/ RenderSkipped
         \/ ReportStep \/ ReportFails \/ NextStop \/ PollAlive
         \/ NothingToStop \/ PidRefused \/ AlreadyStopped \/ PollStopped \/ Verify

\* PidOK is kept.
LEMMA PidStep == TypeOK /\ PidOK /\ [Next]_vars => PidOK'
  <1> SUFFICES ASSUME TypeOK, PidOK, [Next]_vars PROVE PidOK'
    OBVIOUS
  <1>1. CASE System
    <2> /\ UNCHANGED <<waits, pc, pid, killed>>
        /\ agent # "none" => agent' # "none"
        /\ waits /\ agent = "none" => agent' = "none"
        /\ agent = "gone" => agent' = "gone"
        /\ pending' \subseteq pending
        /\ sudo /\ ~sudo' => agent = "gone" \/ "KILL" \in pending
      BY <1>1, SystemStep DEF script, stopping
    <2> QED  BY DEF PidOK, TypeOK
  <1>2. CASE Spawn
    BY <1>2 DEF Spawn, Goto, PidOK, TypeOK, stopping
  <1>3. CASE SendTerm
    BY <1>3 DEF SendTerm, Send, Goto, PidOK, TypeOK
  <1>6. CASE SendKill
    BY <1>6 DEF SendKill, Send, Goto, PidOK, TypeOK
  <1>4. CASE Shell
    <2>1. /\ UNCHANGED <<waits, agent, sudo, pending, killed>>
          /\ pc' # "export"
          /\ pid' = "agent" => pc = "export" \/ pid = "agent"
      BY <1>4 DEF Shell, StartRejected, ExportPid, CheckAlive, Work, Cancel, RenderSkipped,
             ReportStep, LogFound, Render, Scan, FailOnDeny, ReportFails, NextStop, PollAlive,
             NothingToStop, PidRefused, AlreadyStopped, PollStopped, Verify, Ends,
             Goto, AfterWork, procs, stopping
    <2> QED  BY <2>1 DEF PidOK
  <1>5. CASE UNCHANGED vars
    BY <1>5 DEF vars, script, procs, stopping, PidOK
  <1> QED
    BY <1>1, <1>2, <1>3, <1>4, <1>5, <1>6 DEF Next, StopStep, Shell

\* StopOrder is kept.
LEMMA OrderStep == TypeOK /\ StopOrder /\ [Next]_vars => StopOrder'
  <1> SUFFICES ASSUME TypeOK, StopOrder, [Next]_vars PROVE StopOrder'
    OBVIOUS
  <1> USE DEF StopOrder, Goto, AfterWork, stopping, Scans
  <1>1. CASE System
    <2> UNCHANGED <<opts, pc, pid, stopsLeft, stopped>>
      BY <1>1, SystemStep DEF script
    <2> QED  OBVIOUS
  <1>2. CASE StartRejected \/ Spawn \/ ExportPid \/ CheckAlive \/ Work \/ Cancel
             \/ RenderSkipped \/ ReportStep \/ ReportFails
    <2>1. /\ UNCHANGED <<opts, stopsLeft, stopped>>
          /\ pc \in Scans \cup {"start", "export", "check", "work", "report", "gate"}
          /\ pc' \in Scans \cup {"export", "check", "work", "report", "gate", "stop"}
      BY <1>2 DEF StartRejected, Spawn, ExportPid, CheckAlive, Work, Cancel, RenderSkipped,
             ReportStep, LogFound, Render, Scan, FailOnDeny, ReportFails
    <2>2. ~(opts.stops < opts.stops)
      BY OptionType DEF TypeOK
    <2> QED  BY <2>1, <2>2
  <1>3. CASE NextStop
    BY <1>3, OptionType DEF NextStop, TypeOK
  <1>4. CASE SendTerm \/ SendKill \/ PollAlive
    <2>1. /\ UNCHANGED <<opts, pid, stopsLeft, stopped>>
          /\ (pc = "look" /\ pid = "agent") \/ pc = "poll"
          /\ pc' \in {"poll", "verify"}
      BY <1>4 DEF SendTerm, SendKill, Send, PollAlive
    <2> QED  BY <2>1
  <1>5. CASE NothingToStop \/ PidRefused \/ AlreadyStopped \/ PollStopped \/ Verify
    <2>1. /\ UNCHANGED <<opts, pid, stopsLeft>>
          /\ pc' = "stop" /\ stopped' # "none"
          /\ pid = "agent" => stopped' \in {"stopped", "failed"}
      BY <1>5 DEF NothingToStop, PidRefused, AlreadyStopped, PollStopped, Verify, Ends
    <2> QED  BY <2>1
  <1>6. CASE UNCHANGED vars
    BY <1>6 DEF vars, script
  <1> QED
    BY <1>1, <1>2, <1>3, <1>4, <1>5, <1>6 DEF Next, StopStep

\* A stop step that finds no process finds an agent that is gone, or sudo
\* killed before its child.
LEMMA NotAlive ==
    ASSUME TypeOK, PidOK, pid = "agent", ~Alive
    PROVE  agent = "gone" \/ (waits /\ killed)
  BY DEF TypeOK, PidOK, Alive, Running

\* StopMeansStopped is kept.
LEMMA StoppedStep ==
    TypeOK /\ PidOK /\ StopOrder /\ StopMeansStopped /\ [Next]_vars => StopMeansStopped'
  <1> SUFFICES ASSUME TypeOK, PidOK, StopOrder, StopMeansStopped, [Next]_vars
               PROVE  StopMeansStopped'
    OBVIOUS
  <1> USE DEF StopMeansStopped, Goto, stopping
  <1>1. CASE System
    <2> UNCHANGED <<waits, killed, stopped>> /\ (agent = "gone" => agent' = "gone")
      BY <1>1, SystemStep DEF script
    <2> QED  OBVIOUS
  <1>2. CASE Spawn
    BY <1>2 DEF Spawn, StopOrder
  <1>3. CASE SendTerm \/ SendKill
    <2> UNCHANGED <<waits, stopped, agent>> /\ (killed => killed')
      BY <1>3 DEF SendTerm, SendKill, Send
    <2> QED  OBVIOUS
  <1>4. CASE NothingToStop \/ PidRefused \/ AlreadyStopped \/ PollStopped \/ Verify
    <2>1. /\ UNCHANGED <<waits, killed, agent>>
          /\ stopped' = "stopped" => ~Alive /\ (pid = "agent" \/ pc \in {"poll", "verify"})
      BY <1>4 DEF NothingToStop, PidRefused, AlreadyStopped, PollStopped, Verify, Ends, procs
    <2> QED  BY <2>1, NotAlive DEF StopOrder
  <1>5. CASE StartRejected \/ ExportPid \/ CheckAlive \/ Work \/ Cancel \/ RenderSkipped
             \/ ReportStep \/ ReportFails \/ NextStop \/ PollAlive
    <2> UNCHANGED <<waits, killed, agent, stopped>>
      BY <1>5 DEF StartRejected, ExportPid, CheckAlive, Work, Cancel, RenderSkipped,
             ReportStep, LogFound, Render, Scan, FailOnDeny, ReportFails, NextStop, PollAlive,
             procs
    <2> QED  OBVIOUS
  <1>6. CASE UNCHANGED vars
    BY <1>6 DEF vars, script, procs
  <1> QED
    BY <1>1, <1>2, <1>3, <1>4, <1>5, <1>6 DEF Next, StopStep

\* Only the report step's own commands set the verdict, and none of them does
\* while another scan is to come.
LEMMA ScanStep ==
    TypeOK /\ ScanOrder /\ ReportHonest /\ [Next]_vars => ScanOrder' /\ ReportHonest'
  <1> SUFFICES ASSUME TypeOK, ScanOrder, ReportHonest, [Next]_vars
               PROVE  ScanOrder' /\ ReportHonest'
    OBVIOUS
  <1> USE DEF ScanOrder, ReportHonest, Goto, AfterWork, rendered
  <1>1. CASE System
    <2> UNCHANGED <<opts, pc, before, shown, verdict>>
      BY <1>1, SystemStep DEF script
    <2> QED  OBVIOUS
  <1>2. CASE StartRejected \/ Spawn \/ ExportPid \/ CheckAlive \/ Work \/ Cancel
             \/ RenderSkipped
    <2>1. /\ UNCHANGED <<opts, before, shown, verdict>>
          /\ pc \notin {"stop", "look", "poll", "verify", "end"}
          /\ pc' # "gate"
      BY <1>2 DEF StartRejected, Spawn, ExportPid, CheckAlive, Work, Cancel, RenderSkipped, Scans
    <2> QED  BY <2>1
  <1>3. CASE LogFound
    BY <1>3 DEF LogFound
  <1>4. CASE Render
    <2>1. /\ UNCHANGED <<opts, denied, before, verdict>>
          /\ pc \in Scans /\ pc' \in {"annotations", "json", "gate"}
          /\ pc' = "gate" => shown' = [shown EXCEPT !["json"] = denied]
      BY <1>4 DEF Render, Scan, Scans
    <2>2. verdict = "none"
      BY <2>1 DEF Scans
    <2>3. CASE pc' = "gate"
      <3>1. shown'["json"] = denied /\ shown' \in [Scans -> 0..denied]
        BY <1>4, <2>1, <2>3 DEF TypeOK, Scans
      <3>2. before <= denied /\ \A s \in Scans : shown'[s] <= denied
        BY <3>1 DEF TypeOK
      <3> QED  BY <2>1, <2>2, <3>1, <3>2
    <2> QED  BY <2>1, <2>2, <2>3
  <1>5. CASE FailOnDeny
    <2>1. /\ UNCHANGED <<opts, before, shown>> /\ pc' = "stop" /\ pc = "gate"
          /\ verdict' \in {"ok", "denied"}
          /\ verdict' = "ok" /\ opts.failOnDeny => ~(shown["json"] > 0)
      BY <1>5 DEF FailOnDeny
    <2>2. /\ before \in Nat /\ \A s \in Scans : shown[s] \in Nat
          /\ "json" \in Scans /\ {"summary", "annotations"} \subseteq Scans
      BY DEF TypeOK, Scans
    <2>3. verdict' = "ok" /\ opts.failOnDeny => before = 0 /\ \A s \in Scans : shown[s] = 0
      BY <2>1, <2>2
    <2> QED  BY <2>1, <2>2, <2>3
  <1>6. CASE ReportFails
    BY <1>6 DEF ReportFails
  <1>7. CASE NextStop \/ NothingToStop \/ PidRefused \/ AlreadyStopped \/ SendTerm
             \/ PollStopped \/ PollAlive \/ SendKill \/ Verify
    <2>1. /\ UNCHANGED <<opts, before, shown, verdict>>
          /\ pc' \in {"stop", "look", "poll", "verify", "end"}
      BY <1>7 DEF NextStop, NothingToStop, PidRefused, AlreadyStopped, SendTerm,
             PollStopped, PollAlive, SendKill, Verify, Send, Ends
    <2> QED  BY <2>1
  <1>8. CASE UNCHANGED vars
    BY <1>8 DEF vars, script
  <1> QED
    BY <1>1, <1>2, <1>3, <1>4, <1>5, <1>6, <1>7, <1>8 DEF Next, StopStep, ReportStep

\* The invariant is inductive.
LEMMA StepInv == IInv /\ [Next]_vars => IInv'
  BY TypeStep, PidStep, OrderStep, StoppedStep, ScanStep DEF IInv

\* The invariant holds in every state.
LEMMA Inductive == Spec => []IInv
  BY InitInv, StepInv, PTL DEF Spec

\* The stop step, whatever the agent, sudo and the job do meanwhile: an agent
\* it says is stopped is gone, unless SIGKILL went to a sudo that waits.
THEOREM StoppedIsGone == Spec => []StopMeansStopped
  BY Inductive, PTL DEF IInv

\* always() on the stop step: with any number of polls and of stop steps, an
\* agent whose pid was recorded survives the job only behind a failed stop.
THEOREM AgentNotForgotten == Spec => []NeverForgotten
  <1>1. IInv => NeverForgotten
    BY OptionType DEF IInv, TypeOK, StopOrder, StopMeansStopped, NeverForgotten, Running
  <1> QED  BY <1>1, Inductive, PTL

\* The three scans of a growing log, however many denials are written while
\* they run: fail-on-deny decides on the one that saw the most.
THEOREM ReportIsHonest == Spec => []ReportHonest
  BY Inductive, PTL DEF IInv

-----------------------------------------------------------------------------
(* The stop steps end.  StopEnds follows from this measure and from the    *)
(* commands of the script returning.                                       *)

\* The commands that are left before this stop step is over: a look, at most
\* MaxPolls polls, the kill, the check.
Left ==
    CASE pc = "look"   -> MaxPolls + 4
      [] pc = "poll"   -> 3 + (MaxPolls - polls)
      [] pc = "verify" -> 2
      [] pc = "stop"   -> 1
      [] OTHER         -> 0

\* And those of the stop steps that follow.
StopBound == stopsLeft * (MaxPolls + 5) + Left

Stopping == pc \in {"stop", "look", "poll", "verify"}

\* Once the job has come to its stop steps, whatever happens brings their end
\* nearer or leaves them where they are; nothing leads back before them.
StopAdvances ==
    Stopping => StopBound' < StopBound \/ UNCHANGED <<pc, polls, stopsLeft>>

\* The measure is a number, and so is what is left of one stop step.
LEMMA LeftType ==
    ASSUME TypeOK
    PROVE  /\ Left \in 0..(MaxPolls + 4) /\ stopsLeft \in Nat
           /\ stopsLeft * (MaxPolls + 5) \in Nat /\ StopBound \in Nat
  <1>1. MaxPolls \in Nat /\ polls \in 0..MaxPolls
    BY JobAssumption DEF TypeOK
  <1>2. Left \in 0..(MaxPolls + 4)
    BY <1>1 DEF Left
  <1>3. stopsLeft \in Nat
    BY OptionType DEF TypeOK
  <1>4. stopsLeft * (MaxPolls + 5) \in Nat
    BY <1>1, <1>3
  <1> QED  BY <1>1, <1>2, <1>3, <1>4 DEF StopBound

\* A step that keeps the number of stop steps and leaves fewer commands of
\* the present one lowers the measure.
LEMMA FewerCommands ==
    ASSUME TypeOK, TypeOK', stopsLeft' = stopsLeft, Left' < Left
    PROVE  StopBound' < StopBound
  <1> DEFINE rest == stopsLeft * (MaxPolls + 5)
  <1>1. Left \in Nat /\ Left' \in Nat /\ rest \in Nat
    <2>1. MaxPolls \in Nat /\ polls \in 0..MaxPolls /\ polls' \in 0..MaxPolls
      BY JobAssumption DEF TypeOK
    <2>2. Left \in Nat /\ Left' \in Nat
      BY <2>1 DEF Left
    <2> QED  BY <2>2, LeftType
  <1>2. StopBound = rest + Left /\ StopBound' = rest + Left'
    BY DEF StopBound
  <1>3. \A r, m, n \in Nat : m < n => r + m < r + n
    OBVIOUS
  <1> HIDE DEF rest
  <1> QED  BY <1>1, <1>2, <1>3, Zenon

\* A stop step costs less than the one that it replaces in the count.
LEMMA OneStopLess ==
    ASSUME TypeOK, pc = "stop", stopsLeft # 0, stopsLeft' = stopsLeft - 1, pc' = "look"
    PROVE  StopBound' < StopBound
  <1> DEFINE W == MaxPolls + 5
  <1>1. MaxPolls \in Nat /\ stopsLeft \in Nat \ {0} /\ W \in Nat
    BY JobAssumption, LeftType
  <1>2. (stopsLeft - 1) * W + W = stopsLeft * W
    BY <1>1
  <1>3. StopBound = stopsLeft * W + 1 /\ StopBound' = (stopsLeft - 1) * W + (W - 1)
    BY <1>1 DEF StopBound, Left
  <1>4. stopsLeft * W \in Nat /\ (stopsLeft - 1) * W \in Nat
    BY <1>1
  <1> HIDE DEF W
  <1> QED  BY <1>1, <1>2, <1>3, <1>4

\* stop/action.yml polls a bounded number of times and then kills and checks:
\* with any number of stop steps, each command of theirs brings the end of the
\* job nearer, and neither the agent, nor sudo, nor a signal, nor cancelling
\* the job ever puts it off.
THEOREM StopIsBounded == Spec => [][StopAdvances]_vars
  <1>1. ASSUME TypeOK, TypeOK', [Next]_vars PROVE [StopAdvances]_vars
    <2> SUFFICES ASSUME Stopping PROVE StopBound' < StopBound \/ UNCHANGED <<pc, polls, stopsLeft>>
      BY DEF StopAdvances
    <2>1. /\ MaxPolls \in Nat /\ polls \in 0..MaxPolls
      BY <1>1, JobAssumption DEF TypeOK
    <2>2. CASE NextStop /\ stopsLeft # 0
      BY <1>1, <2>2, OneStopLess DEF NextStop, Goto
    <2>3. CASE NextStop /\ stopsLeft = 0
      <3>1. stopsLeft' = stopsLeft /\ Left' < Left
        BY <2>3 DEF NextStop, Goto, Left
      <3> QED  BY <1>1, <3>1, FewerCommands
    <2>4. ASSUME NEW r, Ends(r), pc \in {"look", "poll", "verify"} PROVE StopBound' < StopBound
      <3>1. stopsLeft' = stopsLeft /\ Left' < Left
        BY <2>1, <2>4 DEF Ends, Goto, Left
      <3> QED  BY <1>1, <3>1, FewerCommands
    <2>5. CASE SendTerm \/ SendKill \/ PollAlive
      <3>1. stopsLeft' = stopsLeft /\ Left' < Left
        BY <2>1, <2>5 DEF SendTerm, SendKill, PollAlive, Send, Goto, Left
      <3> QED  BY <1>1, <3>1, FewerCommands
    <2>6. CASE NothingToStop \/ PidRefused \/ AlreadyStopped \/ PollStopped \/ Verify
      BY <2>4, <2>6 DEF NothingToStop, PidRefused, AlreadyStopped, PollStopped, Verify
    <2>7. CASE System \/ UNCHANGED vars
      BY <2>7 DEF System, AgentMoves, LogDenial, SudoExits, DeliverTerm, DeliverKill,
                  vars, script, stopping
    <2>8. \/ StopStep \/ System \/ UNCHANGED vars
      BY <1>1 DEF Next, Stopping, Scans, StartRejected, Spawn, ExportPid, CheckAlive, Work, Cancel,
         RenderSkipped, ReportStep, LogFound, Render, Scan, FailOnDeny, ReportFails
    <2> QED  BY <2>2, <2>3, <2>5, <2>6, <2>7, <2>8 DEF StopStep
  <1> QED  BY <1>1, TypeCorrect, PTL DEF Spec
=============================================================================
