----------------------------- MODULE MCJobSteps -----------------------------
(* A small instance of JobSteps for TLC. *)
EXTENDS JobSteps

\* Every combination of what the report shows and of fail-on-deny, with no,
\* one and two stop steps; a job without report, and one that never started.
OptionsSmall ==
    {o \in [start : BOOLEAN, report : BOOLEAN, summary : BOOLEAN,
            annotations : BOOLEAN, failOnDeny : BOOLEAN, stops : 0..2] :
        /\ ~o.report => ~o.summary /\ ~o.annotations /\ ~o.failOnDeny
        /\ ~o.start => o.stops = 1}
=============================================================================
