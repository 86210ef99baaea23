----------------------------- MODULE MCAgentRun -----------------------------
(* A small instance of AgentRun for TLC. *)
EXTENDS AgentRun

Brackets == [h \in {"a.example", "A.example", "203.0.113.1", "2001:db8::1", "10.0.0.0/8",
                   "*.C.example", ""} |->
    CASE h = "a.example"   -> "[a.example]"
      [] h = "A.example"   -> "[A.example]"
      [] h = "203.0.113.1" -> "[203.0.113.1]"
      [] h = "2001:db8::1" -> "[2001:db8::1]"
      [] h = "10.0.0.0/8"  -> "[10.0.0.0/8]"
      [] h = "*.C.example" -> "[*.C.example]"
      [] h = ""            -> "[]"]

Entry(kind, host, bracketed, port) ==
    [kind |-> kind, host |-> host, bracketed |-> bracketed,
     text |-> IF bracketed THEN Brackets[host] ELSE host, port |-> port]
Name(n)       == Entry("name", n, FALSE, "none")
File(m, list) == [keysKnown |-> TRUE, mode |-> m, allowAllDNS |-> FALSE,
                  allowlist |-> list]

\* Every kind of entry with a port suffix it can be written with, or without,
\* in brackets where they come off again.
Mixed == <<Entry("name", "A.example", FALSE, "one"),
           Entry("name", "a.example", TRUE, "one"),
           Entry("ip", "203.0.113.1", FALSE, "one"),
           Entry("ip6", "2001:db8::1", TRUE, "one"),
           Entry("range", "10.0.0.0/8", TRUE, "one"),
           Entry("range6", "2001:db8::/32", FALSE, "none"),
           Entry("wildcard", "*.C.example", TRUE, "one"),
           Entry("empty", "", FALSE, "one"), Entry("empty", "", TRUE, "one"),
           Name("a.example")>>

\* Entries that are kept although nothing is written so.
Odd == <<Entry("name", "A.example", TRUE, "none"),
         Entry("text", "a.example/x", FALSE, "one")>>
MoreOdd == <<Entry("ip", "203.0.113.1", TRUE, "none"),
             Entry("range", "10.0.0.0/8", TRUE, "none"),
             Entry("empty", "", TRUE, "none")>>

\* One entry each that must not be loaded.
Bad == {Entry("name", "a.example", FALSE, "more"),
        Entry("text", "a.example/x", FALSE, "more"),
        Entry("empty", "", TRUE, "more"),
        Entry("ip6", "2001:db8::1", TRUE, "none"),
        Entry("ip6", "2001:db8:0:0:0:0:0:1", FALSE, "one"),
        Entry("wildcard", "*.C.example", FALSE, "more"),
        Entry("wildcard", "*.C.example", TRUE, "none"),
        Entry("wildcardTLD", "*.com", FALSE, "none"),
        Entry("wildcardHole", "*..example", FALSE, "none"),
        Entry("starElsewhere", "api.*.com", FALSE, "none")}

FilesSmall ==
    {NoFile, File("block", Mixed), File("", <<Name("a.example")>>),
     File("other", <<>>), [File("block", <<>>) EXCEPT !.keysKnown = FALSE],
     File("block", <<Name("a.example"), Name("b.example"), Name("c.example")>>),
     File("", Odd), File("audit", MoreOdd)}
    \cup {File("audit", <<Name("a.example"), e>>) : e \in Bad}

LowerSmall == [t \in {"A.example", "[A.example]", "*.C.example", "[*.C.example]"} |->
                   CASE t = "A.example"   -> "a.example"
                     [] t = "[A.example]" -> "[a.example]"
                     [] t = "*.C.example" -> "*.c.example"
                     [] t = "[*.C.example]" -> "[*.c.example]"]

OddNames == {"[a.example]", "a.example/x", "[203.0.113.1]", "[10.0.0.0/8]", "[]",
             "[2001:db8::1]", "[*.c.example]"}
DomainsSmall == {"a.example", "b.example", "c.example"} \cup OddNames

Line(k, v) == [key |-> k, val |-> v]
Stub == Line("nameserver", "127.0.0.53")
Up   == Line("nameserver", "10.0.0.2")
Conf(etc, run) == [readable |-> TRUE, etc |-> etc, run |-> run]

\* A real server; the stub with its upstream; nothing usable; no file.
ConfsSmall ==
    {Conf(<<Line("search", "10.0.0.2"), Line("nameserver", "10.0.0.3"), Stub>>, <<Up>>),
     Conf(<<Stub>>, <<Up, Line("nameserver", "bad")>>), Conf(<<>>, <<Up>>),
     [Conf(<<>>, <<Up>>) EXCEPT !.readable = FALSE]}
=============================================================================
