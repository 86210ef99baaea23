-------------------------- MODULE ReportCollector --------------------------
(***************************************************************************)
(* One run of `field-cage report` (cmd/agent/report.go): the scan of an    *)
(* agent log line by line (internal/report/parse.go), the aggregation of   *)
(* the events in it (summary.go), and what each renderer shows of the      *)
(* result (render*.go).                                                    *)
(*                                                                         *)
(* A line is a sequence of chunks [key, val], one for each field marker in *)
(* it.  A process name is a sequence of chunks too: it may hold a marker,  *)
(* or a line break, which makes several lines of what the agent prints.    *)
(***************************************************************************)
EXTENDS Naturals, Sequences, FiniteSets, SequencesExt

CONSTANTS
    Events,         \* what the agent may have logged
    OtherLines,     \* diagnostics and damaged lines
    Commands,       \* command lines: [format, raw, top, level, mode]
    OnActions,      \* whether GITHUB_ACTIONS is "true"
    Number,         \* the texts that parse as a process id
    Address,        \* the texts that parse as an address
    Cleaned,        \* texts that sanitize changes, with what it makes of them
    Rank,           \* the order of texts, a function to Nat
    ProcCap,        \* maxProcessesPerDest
    MaxAnnotations, \* maxAnnotations
    MaxLines,       \* lines in a log
    NoEvent         \* what a line that is no event parses to

Port          == 0..65535
Chunk(k, v)   == [key |-> k, val |-> v]
NoComm        == <<Chunk("comm", "")>>
Dst(d, a, p)  == [domain |-> d, ip |-> a, port |-> p]

\* Line.String and Dst, as printed.
Format(e) == <<Chunk("verdict", e.verdict), Chunk("pid", e.pid),
               Chunk("tgid", e.tgid)>>
             \o e.comm \o <<Chunk("dst", Dst(e.domain, e.ip, e.port))>>

\* The lines that a scanner finds in a printed text.
Breaks(text)  == {i \in DOMAIN text : text[i].key = "newline"}
LinesOf(text) ==
    LET ends == Breaks(text) \cup {0, Len(text) + 1} IN
    {SubSeq(text, p[1] + 1, p[2] - 1) :
        p \in {q \in ends \X ends :
                  q[1] < q[2] /\ \A k \in ends : ~(q[1] < k /\ k < q[2])}}

\* The lines that hold no whole event.
OneLine(e) == Breaks(e.comm) = {}
Fragments  == UNION {LinesOf(Format(e)) : e \in {x \in Events : ~OneLine(x)}}
NotEvents  == OtherLines \cup Fragments

ASSUME ReportAssumption ==
    /\ ProcCap \in Nat \ {0} /\ MaxAnnotations \in Nat \ {0}
    /\ MaxLines \in Nat /\ OnActions \in BOOLEAN /\ "" \notin Address
    /\ \A c \in Commands : c.top \in Nat

\* What the agent logs.
ASSUME EventAssumption ==
    /\ NoEvent \notin Events
    /\ \A e \in Events :
           /\ {e.pid, e.tgid} \subseteq Number /\ e.ip \in Address
           /\ e.verdict # "" /\ e.port \in Port
           /\ e.comm \in Seq(Range(e.comm))
           /\ e.comm # <<>> /\ e.comm[1].key = "comm"

VARIABLES
    cmd,        \* the command line
    state,      \* "scan", "failed" or "done"
    log,        \* history: the lines scanned, with the event each was logged for
    written,    \* history: the events among them that are whole
    mode,       \* the mode found in the log
    malformed,  \* verdict lines that did not parse
    total, byVerdict, dests,    \* the fields of Collector
    raw,        \* events written one by one, with --raw
    report      \* what the renderer showed

vars == <<cmd, state, log, written, mode, malformed, total, byVerdict, dests,
          raw, report>>
collector == <<total, byVerdict, dests>>

-----------------------------------------------------------------------------
(* The verdict families and the parser. *)

Deny  == {"DENY(no-domain)", "DENY(not-in-policy)", "DENY(other)"}
Allow == {"ALLOW"}
Skip  == {"SKIP(dns)", "SKIP(loopback)", "SKIP(self)"}

IsDeny(v)  == v \in Deny
IsAllow(v) == v \in Allow
IsSkip(v)  == v \in Skip

sanitize(x) == IF x \in DOMAIN Cleaned THEN Cleaned[x] ELSE x

\* What follows a marker inside a process name is taken to be clean.
sanitizeComm(comm) ==
    [i \in DOMAIN comm |-> IF comm[i].key = "comm"
                           THEN Chunk("comm", sanitize(comm[i].val)) ELSE comm[i]]

Positions(line, key) == {i \in DOMAIN line : line[i].key = key}

\* Mutant: the first marker instead of the last.
DstAtFirst(line) ==
    CHOOSE i \in Positions(line, "dst") : \A j \in Positions(line, "dst") : i <= j

\* strings.LastIndex: dst is the final field.
DstAt(line) ==
    CHOOSE i \in Positions(line, "dst") : \A j \in Positions(line, "dst") : j <= i

IsVerdictLine(line) == line # <<>> /\ line[1].key = "verdict"

\* The fields are looked for in their order, each after the one before it;
\* comm is all that stands between its marker and the last dst.
Parses(line) ==
    /\ IsVerdictLine(line) /\ line[1].val # ""
    /\ Positions(line, "dst") # {} /\ DstAt(line) > 4
    /\ line[2].key = "pid" /\ line[2].val \in Number
    /\ line[3].key = "tgid" /\ line[3].val \in Number
    /\ line[4].key = "comm"
    /\ LET dst == line[DstAt(line)].val IN
       dst.ip \in Address /\ dst.port \in Port

ParseLine(line) ==
    IF ~Parses(line) THEN NoEvent
    ELSE LET dst == line[DstAt(line)].val IN
         [verdict |-> sanitize(line[1].val),
          pid |-> line[2].val, tgid |-> line[3].val,
          comm |-> sanitizeComm(SubSeq(line, 4, DstAt(line) - 1)),
          domain |-> sanitize(dst.domain), ip |-> dst.ip, port |-> dst.port]

\* A line that parses is counted as the event it reads as.
ASSUME LinesAssumption == \A l \in NotEvents : ~Parses(l)

\* The mode in the agent's startup diagnostic, "" in any other line.
ModeIn(line) ==
    LET at == Positions(line, "mode") IN
    IF Chunk("msg", "watching") \in Range(line) /\ at # {}
    THEN line[CHOOSE i \in at : \A j \in at : i <= j].val
    ELSE ""

-----------------------------------------------------------------------------
(* Collector.Add. *)

\* Mutant: the reasons for a denial share a row.
destKeyOneReason(e) ==
    [verdict |-> IF IsDeny(e.verdict) THEN "DENY(not-in-policy)" ELSE e.verdict,
     domain |-> e.domain, ip |-> e.ip, port |-> e.port]

destKey(e) == [verdict |-> e.verdict, domain |-> e.domain, ip |-> e.ip,
               port |-> e.port]

\* Mutant: only the names that were kept are remembered.
AddProcRecounts(agg, comm) ==
    IF comm = NoComm \/ comm \in agg.procs THEN agg
    ELSE IF Cardinality(agg.procs) < ProcCap
         THEN [agg EXCEPT !.seen = @ \cup {comm}, !.procs = @ \cup {comm}]
         ELSE [agg EXCEPT !.seen = @ \cup {comm}, !.more = @ + 1]

\* Mutant: a name that is kept is not marked as seen.
AddProcUnmarked(agg, comm) ==
    IF comm = NoComm \/ comm \in agg.seen THEN agg
    ELSE IF Cardinality(agg.procs) < ProcCap
         THEN [agg EXCEPT !.procs = @ \cup {comm}]
         ELSE [agg EXCEPT !.seen = @ \cup {comm}, !.more = @ + 1]

AddProc(agg, comm) ==
    IF comm = NoComm \/ comm \in agg.seen THEN agg
    ELSE IF Cardinality(agg.procs) < ProcCap
         THEN [agg EXCEPT !.seen = @ \cup {comm}, !.procs = @ \cup {comm}]
         ELSE [agg EXCEPT !.seen = @ \cup {comm}, !.more = @ + 1]

\* m[k] = v, for a map m.
Put(m, k, v) == [x \in DOMAIN m \cup {k} |-> IF x = k THEN v ELSE m[x]]

Add(e) ==
    LET k   == destKey(e)
        agg == IF k \in DOMAIN dests THEN dests[k]
               ELSE [count |-> 0, procs |-> {}, seen |-> {}, more |-> 0]
        n   == IF e.verdict \in DOMAIN byVerdict THEN byVerdict[e.verdict] ELSE 0
    IN /\ total' = total + 1
       /\ byVerdict' = Put(byVerdict, e.verdict, n + 1)
       /\ dests' = Put(dests, k, AddProc([agg EXCEPT !.count = @ + 1], e.comm))

-----------------------------------------------------------------------------
(* Collector.Summary. *)

Destination(r) == IF r.domain # "" THEN r.domain ELSE r.ip

severity(v) ==
    CASE IsDeny(v) -> 0 [] IsAllow(v) -> 1 [] IsSkip(v) -> 2 [] OTHER -> 3

\* String comparison: the texts of a row are ranked, no two of them alike.
ASSUME RankAssumption ==
    /\ Rank \in [DOMAIN Rank -> Nat]
    /\ \A x, y \in DOMAIN Rank : Rank[x] = Rank[y] => x = y
    /\ \A e \in Events :
           {sanitize(e.verdict), sanitize(e.domain), e.ip} \subseteq DOMAIN Rank

Rows == {[verdict |-> k.verdict, domain |-> k.domain, ip |-> k.ip,
          port |-> k.port, count |-> dests[k].count,
          procs |-> dests[k].procs, more |-> dests[k].more] : k \in DOMAIN dests}

\* Mutants: no tie-break on the address; busiest first, whatever the verdict.
SortKeyNoIP(r) ==
    <<severity(r.verdict), total - r.count, Rank[Destination(r)], r.port,
      Rank[r.verdict]>>
SortKeyBusiest(r) ==
    <<total - r.count, severity(r.verdict), Rank[Destination(r)], r.port,
      Rank[r.verdict], Rank[r.ip]>>

\* What the comparison function compares, from the first to the last.
SortKey(r) ==
    <<severity(r.verdict), total - r.count, Rank[Destination(r)], r.port,
      Rank[r.verdict], Rank[r.ip]>>

Before(a, b) ==
    LET s == SortKey(a)  t == SortKey(b) IN
    \E i \in DOMAIN s : s[i] < t[i] /\ \A j \in 1..(i - 1) : s[j] = t[j]

\* sort.Slice: rows that compare equal may come out either way.
Sorted(rows) ==
    CHOOSE s \in SetToSeqs(rows) :
        \A i, j \in DOMAIN s : i < j => ~Before(s[j], s[i])

Destinations == Sorted(Rows)

SuggestedAllowlist ==
    {Destination(k) : k \in {x \in DOMAIN dests : ~IsSkip(x.verdict)}} \ {""}

\* n += c, as the number of the pairs of a verdict and a number up to its count.
countEvents(family) ==
    Cardinality(UNION {{v} \X (1..byVerdict[v]) : v \in family \cap DOMAIN byVerdict})

-----------------------------------------------------------------------------
(* The renderers. *)

limitRows(rows, top) ==
    IF top = 0 \/ Len(rows) <= top THEN rows ELSE SubSeq(rows, 1, top)

\* The rows of one family, in the order they have among all.
filter(family) == Sorted({r \in Rows : r.verdict \in family})

ResolveFormat(f) ==
    IF f = "auto" THEN IF OnActions THEN "markdown" ELSE "text" ELSE f

\* --mode overrides what the log says.
Mode == IF cmd.mode # "" THEN cmd.mode ELSE mode

resolveLevel ==
    IF cmd.level # "auto" THEN cmd.level
    ELSE IF Mode = "block" THEN "warning" ELSE "notice"

\* What each renderer shows, before limits: one table per family, denials
\* only, or all rows in one table (text, json and csv).
MarkdownTables   == <<filter(Deny), filter(Allow), filter(Skip)>>
AnnotationTables == IF resolveLevel = "off" THEN <<>> ELSE <<filter(Deny)>>
OneTable         == <<Destinations>>

Tables(f) == CASE f = "markdown"    -> MarkdownTables
               [] f = "annotations" -> AnnotationTables
               [] OTHER             -> OneTable

LimitOf(f) ==
    IF f = "annotations" /\ (cmd.top = 0 \/ cmd.top > MaxAnnotations)
    THEN MaxAnnotations ELSE cmd.top

\* csv cannot say in the table what it omits ...
OmittedNote(f, n) == IF f = "csv" THEN 0 ELSE n

\* ... runReport says it on stderr.
Truncated == cmd.top > 0 /\ Cardinality(Rows) > cmd.top

Rendered(f) ==
    LET tables == Tables(f)
        shown  == [i \in DOMAIN tables |-> limitRows(tables[i], LimitOf(f))]
    IN [tables |-> shown,
        omitted |-> [i \in DOMAIN tables |->
                         OmittedNote(f, Len(tables[i]) - Len(shown[i]))],
        level |-> resolveLevel, mode |-> Mode, warned |-> Truncated,
        total |-> total, malformed |-> malformed,
        allowed |-> countEvents(Allow), denied |-> countEvents(Deny),
        skipped |-> countEvents(Skip), suggested |-> SuggestedAllowlist]

NoReport == [tables |-> <<>>, omitted |-> <<>>, level |-> "", mode |-> "",
             warned |-> FALSE, total |-> 0, malformed |-> 0, allowed |-> 0,
             denied |-> 0, skipped |-> 0, suggested |-> {}]

-----------------------------------------------------------------------------
(* runReport. *)

\* Markdown and annotations have no raw form.
Rejected(c) == c.raw /\ ResolveFormat(c.format) \in {"markdown", "annotations"}

Init ==
    /\ cmd \in Commands /\ state = IF Rejected(cmd) THEN "failed" ELSE "scan"
    /\ log = <<>> /\ written = <<>> /\ mode = "" /\ malformed = 0
    /\ total = 0 /\ byVerdict = <<>> /\ dests = <<>>
    /\ raw = <<>> /\ report = NoReport

Read(line, e) ==
    /\ state = "scan" /\ Len(log) < MaxLines
    /\ log' = Append(log, [line |-> line, event |-> e])
    /\ written' = IF e = NoEvent THEN written ELSE Append(written, e)

\* One row per event.
WriteEvent(e) == raw' = Append(raw, e)

\* A verdict line goes to Collector.Add, or to the raw renderer.
ScanVerdict(line, e) ==
    /\ Read(line, e) /\ Parses(line)
    /\ IF cmd.raw
       THEN WriteEvent(ParseLine(line)) /\ UNCHANGED collector
       ELSE Add(ParseLine(line)) /\ UNCHANGED raw
    /\ UNCHANGED <<cmd, state, mode, malformed, report>>

ScanMalformed(line, e) ==
    /\ Read(line, e) /\ IsVerdictLine(line) /\ ~Parses(line)
    /\ malformed' = malformed + 1
    /\ UNCHANGED <<cmd, state, mode, collector, raw, report>>

ScanOther(line) ==
    /\ Read(line, NoEvent) /\ ~IsVerdictLine(line)
    /\ mode' = IF mode = "" THEN sanitize(ModeIn(line)) ELSE mode
    /\ UNCHANGED <<cmd, state, malformed, collector, raw, report>>

\* A line longer than the scanner's buffer.  The raw output may have been
\* flushed in part; the aggregated one is not rendered.
ScanTooLong ==
    /\ state = "scan" /\ state' = "failed"
    /\ \E n \in 0..Len(raw) : raw' = SubSeq(raw, 1, n)
    /\ UNCHANGED <<cmd, log, written, mode, malformed, collector, report>>

\* The end of the log.
Render ==
    /\ state = "scan" /\ state' = "done"
    /\ report' = IF cmd.raw THEN NoReport ELSE Rendered(ResolveFormat(cmd.format))
    /\ UNCHANGED <<cmd, log, written, mode, malformed, collector, raw>>

\* A line of the log, and the event that it is, if any.
Inputs == {<<Format(e), e>> : e \in {x \in Events : OneLine(x)}}
          \cup {<<l, NoEvent>> : l \in NotEvents}

Next ==
    \/ \E x \in Inputs : ScanVerdict(x[1], x[2]) \/ ScanMalformed(x[1], x[2])
    \/ \E l \in NotEvents : ScanOther(l)
    \/ ScanTooLong \/ Render

Spec == Init /\ [][Next]_vars

-----------------------------------------------------------------------------
(* Properties, against the log as it was written. *)

\* The events on lines of their own so far, with control characters replaced.
Clean(e) == [verdict |-> sanitize(e.verdict), pid |-> e.pid, tgid |-> e.tgid,
             comm |-> sanitizeComm(e.comm), domain |-> sanitize(e.domain),
             ip |-> e.ip, port |-> e.port]
History  == [i \in DOMAIN written |-> Clean(written[i])]
Occurrences(Pred(_)) == Cardinality({i \in DOMAIN History : Pred(History[i])})
IsFor(e, k) == e.verdict = k.verdict /\ e.domain = k.domain
               /\ e.ip = k.ip /\ e.port = k.port
Damaged  == {i \in DOMAIN log : log[i].event = NoEvent /\ IsVerdictLine(log[i].line)}

\* The type invariant of the collector and the scan.
TypeOK ==
    /\ cmd \in Commands /\ state \in {"scan", "failed", "done"}
    /\ Len(log) <= MaxLines
    /\ malformed \in Nat /\ total \in Nat
    /\ \A v \in DOMAIN byVerdict : byVerdict[v] \in Nat \ {0}
    /\ \A k \in DOMAIN dests :
           /\ dests[k].count \in Nat \ {0} /\ dests[k].more \in Nat
           /\ dests[k].procs \subseteq dests[k].seen
    /\ total > 0 => raw = <<>>

\* With --raw every event that is printed on one line comes out as it was
\* written, in order, whatever field its process name looks like, and nothing
\* comes out of the pieces of one whose name holds a line break, or of a damaged
\* line; a scan that fails cuts a tail off.
RawFaithful ==
    cmd.raw /\ ~Rejected(cmd) =>
        IF state = "failed" THEN IsPrefix(raw, History) ELSE raw = History

\* The totals, the three verdict families, the rows and the damaged lines of
\* a report add up to the log it was made from: merging events into rows
\* loses none and mixes none.  An event that is printed on several lines is
\* counted with the damaged ones.  The suggested allowlist has every destination
\* the job was judged for and none that was only exempt.
ReportAgrees ==
    state = "done" /\ ~cmd.raw =>
        /\ report.total = Len(History)
        /\ report.denied = Occurrences(LAMBDA e : e.verdict \in Deny)
        /\ report.allowed = Occurrences(LAMBDA e : e.verdict \in Allow)
        /\ report.skipped = Occurrences(LAMBDA e : e.verdict \in Skip)
        /\ report.malformed = Cardinality(Damaged)
        /\ \A i \in DOMAIN History : \E k \in DOMAIN dests : IsFor(History[i], k)
        /\ \A k \in DOMAIN dests :
               dests[k].count = Occurrences(LAMBDA e : IsFor(e, k))
        /\ report.suggested =
               {Destination(History[i]) : i \in {j \in DOMAIN History :
                                                 ~IsSkip(History[j].verdict)}}

\* Add: the names kept for a destination and the number dropped by the cap
\* together are its distinct names, however often a dropped one comes back.
ProcessesExact ==
    ~cmd.raw => \A k \in DOMAIN dests :
        LET names == {History[i].comm : i \in {j \in DOMAIN History :
                          IsFor(History[j], k)}} \ {NoComm}
        IN /\ dests[k].procs \subseteq names
           /\ Cardinality(dests[k].procs) + dests[k].more = Cardinality(names)
           /\ dests[k].more > 0 => Cardinality(dests[k].procs) = ProcCap

\* Summary: whatever order Go's map gives, the rows come out in one order.
StableOrder == \A a, b \in Rows : a # b => Before(a, b) \/ Before(b, a)

Shown == UNION {Range(report.tables[i]) : i \in DOMAIN report.tables}

\* limitRows: a denial that is not shown is announced as omitted, and in a
\* table of all verdicts nothing but denials is shown in its place.
DenialsFirst ==
    state = "done" /\ ~cmd.raw =>
        LET f == ResolveFormat(cmd.format) IN
        \A r \in Rows : IsDeny(r.verdict) /\ r \notin Shown =>
            /\ \/ \E i \in DOMAIN report.omitted : report.omitted[i] > 0
               \/ report.warned
               \/ f = "annotations" /\ report.level = "off"
            /\ f # "markdown" => \A x \in Shown : IsDeny(x.verdict)

-----------------------------------------------------------------------------
(* What a comment says and the code does not do. *)

\* ScanLog: a single corrupted line cannot hide the rest of the report.
CorruptLineOnlyCounted == state = "failed" => Rejected(cmd)
=============================================================================
