------------------------- MODULE MCReportCollector -------------------------
(* Small instances of ReportCollector for TLC. *)
EXTENDS ReportCollector

Ev(v, comm, d, a) ==
    [verdict |-> v, pid |-> "7", tgid |-> "7", comm |-> comm, domain |-> d,
     ip |-> a, port |-> 443]
Name(text) == <<Chunk("comm", text)>>

\* One destination reached by three processes, of two addresses, a process
\* name that looks like a dst field, a name that sanitize changes, a verdict
\* this build does not know, traffic that is exempt, and a name with two line
\* breaks, the text between them like the start of a verdict line.
EventsSmall ==
    {Ev("DENY(not-in-policy)", Name(c), "evil", "ip1") : c \in {"curl", "sh", "node", ""}}
    \cup {Ev("DENY(not-in-policy)", Name("curl"), "evil", "ip2"),
          Ev("DENY(no-domain)",
             <<Chunk("comm", "a"), Chunk("dst", Dst("", "ip9", 1))>>, "", "ip1"),
          Ev("ALLOW", Name("e\tv"), "good", "ip2"),
          Ev("QUARANTINE", Name("sh"), "good", "ip2"),
          Ev("SKIP(self)", Name("agent"), "good", "ip2"),
          Ev("SKIP(self)",
             <<Chunk("comm", "a"), Chunk("newline", ""), Chunk("verdict", "x"),
               Chunk("newline", ""), Chunk("text", "b")>>, "good", "ip2")}

Sample == Format(CHOOSE e \in EventsSmall : e.domain = "good" /\ OneLine(e))

Diagnostic(m) == <<Chunk("level", "INFO"), Chunk("msg", "watching"),
                   Chunk("mode", m)>>

\* Cut before dst, a number out of range, and diagnostics of two starts.
OtherLinesSmall ==
    {SubSeq(Sample, 1, 4), [Sample EXCEPT ![2] = Chunk("pid", "4294967296")],
     Diagnostic("block"), Diagnostic("audit")}

Command(f, r, top, level) ==
    [format |-> f, raw |-> r, top |-> top, level |-> level, mode |-> ""]

CommandsSmall ==
    {Command("json", TRUE, 50, "auto"), Command("markdown", TRUE, 50, "auto"),
     Command("json", FALSE, 2, "auto"), Command("csv", FALSE, 1, "off"),
     Command("auto", FALSE, 1, "auto"),
     Command("annotations", FALSE, 50, "auto"),
     [Command("annotations", FALSE, 1, "off") EXCEPT !.mode = "block"]}

CleanedSmall == ("e\tv" :> "e?v")

RankSmall ==
    [t \in {"", "DENY(no-domain)", "DENY(not-in-policy)", "ALLOW", "QUARANTINE",
            "SKIP(self)", "evil", "good", "ip1", "ip2", "ip9"} |->
        CASE t = "" -> 0 [] t = "ALLOW" -> 1 [] t = "DENY(no-domain)" -> 2
          [] t = "DENY(not-in-policy)" -> 3 [] t = "QUARANTINE" -> 4
          [] t = "SKIP(self)" -> 5 [] t = "ip1" -> 6 [] t = "ip2" -> 7
          [] t = "ip9" -> 8 [] t = "evil" -> 9 [] OTHER -> 10]
=============================================================================
