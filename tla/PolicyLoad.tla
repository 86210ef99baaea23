----------------------------- MODULE PolicyLoad -----------------------------
(***************************************************************************)
(* What the agent makes of its configuration, without any state: the       *)
(* allowlist entries of a policy file (newEngine in                        *)
(* internal/policy/policy.go), the enforcement mode (resolveMode in        *)
(* cmd/agent/main.go) and the system nameservers (resolversFrom in         *)
(* internal/ebpf/dns_parse.go).                                            *)
(*                                                                         *)
(* An entry is [kind, host, bracketed, text, port]: what it is without     *)
(* brackets and port suffix, which one it is, whether it is written in     *)
(* brackets, the host as it is written, and the suffix: "none", "one"      *)
(* (":443") or "more" (":443:x").  ParseIP sees the whole entry first, so  *)
(* an end that it takes for a part of an IPv6 address is no suffix.  Kind  *)
(* "text" is no address, range or domain name, and holds no ":" or "*".    *)
(***************************************************************************)
EXTENDS Naturals, Sequences, SequencesExt

CONSTANTS
    Lower,          \* strings.ToLower, for the names that it changes
    Nameserver,     \* the texts in resolv.conf that parse as addresses
    LoopbackServer  \* those of them in 127.0.0.0/8, and ::1

ASSUME NameserverAssumption == LoopbackServer \subseteq Nameserver
ASSUME LowerAssumption == Lower \in [DOMAIN Lower -> STRING]

\* A policy file, and the engine that is made of it.
AllowEntry == [kind : STRING, host : STRING, bracketed : BOOLEAN, text : STRING,
               port : STRING]
Config == [keysKnown : BOOLEAN, mode : STRING, allowAllDNS : BOOLEAN,
           allowlist : Seq(AllowEntry)]
Engine == [mode : STRING, allowAllDNS : BOOLEAN, domains : SUBSET STRING,
           wildcards : SUBSET STRING, allowedIP : SUBSET STRING, cidrs : SUBSET STRING]

NoAddress == {}

-----------------------------------------------------------------------------
(* newEngine. *)

Colons    == {"ip6", "range6"}      \* kinds written with colons
Wildcards == {"wildcard", "wildcardTLD", "wildcardHole", "starElsewhere"}

ToLower(name) == IF name \in DOMAIN Lower THEN Lower[name] ELSE name

\* SplitHostPort takes one port off a host without colons or in brackets, and
\* the brackets with it; what it cannot split is taken as it stands.
SplitHostPort(e) == e.port = "one" /\ (e.kind \in Colons => e.bracketed)

KeepsBrackets(e) == e.bracketed /\ ~SplitHostPort(e)
Host(e)          == IF KeepsBrackets(e) THEN e.text ELSE e.host

\* A colon is left that no address or range explains.
ColonLeft(e) ==
    ~SplitHostPort(e) /\ (e.port # "none" \/ (e.kind \in Colons /\ e.bracketed))

\* What is left: in brackets nothing is an address, a range or empty, and a "*"
\* is not in front.
KindOf(e) == IF ColonLeft(e) THEN "colon"
             ELSE IF ~KeepsBrackets(e) THEN e.kind
             ELSE IF e.kind \in Wildcards THEN "starElsewhere" ELSE "text"

\* Mutant: what a colon is left in is taken for a name.
ClassifyLeftovers(e) ==
    LET kind == KindOf(e) IN
    CASE kind = "empty"                     -> "skip"
      [] kind = "wildcard"                  -> "wildcards"
      [] kind \in {"ip", "ip6"}             -> "allowedIP"
      [] kind \in {"range", "range6"}       -> "cidrs"
      [] kind \in {"name", "text", "colon"} -> "domains"
      [] OTHER                              -> "error"

\* The list of the engine that an entry goes to.  A "*" anywhere but in one
\* leading label, a wildcard over a whole top-level domain or with an empty
\* label, and a colon that is left over are errors.
Classify(e) ==
    LET kind == KindOf(e) IN
    CASE kind = "empty"               -> "skip"
      [] kind = "wildcard"            -> "wildcards"
      [] kind \in {"ip", "ip6"}       -> "allowedIP"
      [] kind \in {"range", "range6"} -> "cidrs"
      [] kind \in {"name", "text"}    -> "domains"
      [] OTHER                        -> "error"

\* A key that is misspelt leaves the option it was meant for unset.
NewEngine(file) == [mode |-> IF file.keysKnown THEN file.mode ELSE "",
                    allowAllDNS |-> file.allowAllDNS,
                    domains |-> {}, wildcards |-> {}, allowedIP |-> {},
                    cidrs |-> {}]

\* An entry that is no error, taken into the engine.
AddEntry(engine, e) ==
    LET list == Classify(e) IN
    IF list = "skip" THEN engine
    ELSE [engine EXCEPT ![list] = @ \cup
              {IF list \in {"domains", "wildcards"} THEN ToLower(Host(e)) ELSE e.host}]

\* Mutant: keys that are not known are ignored.
DecodesLoosely(file) == file.mode \in {"", "audit", "block"}

\* Strict decoding: no unknown key, and a valid mode or none.
Decodes(file) == file.keysKnown /\ file.mode \in {"", "audit", "block"}

-----------------------------------------------------------------------------
(* resolveMode: the flag, else the file, else audit. *)

ModeFrom(flag, fileMode) ==
    IF flag # "" THEN flag ELSE IF fileMode # "" THEN fileMode ELSE "audit"

ModeRefused(mode, hasEngine) ==
    mode \notin {"audit", "block"} \/ (mode = "block" /\ ~hasEngine)

-----------------------------------------------------------------------------
(* SystemResolvers. *)

\* A line of resolv.conf is [key, val], its zone and brackets taken off.
parseResolvConf(lines) ==
    {l.val : l \in {x \in Range(lines) :
                    x.key = "nameserver" /\ x.val \in Nameserver}}

\* With nothing but the local stub configured, its upstream servers too.
resolversFrom(etc, run) ==
    parseResolvConf(etc) \cup
        (IF parseResolvConf(etc) \subseteq LoopbackServer
         THEN parseResolvConf(run) ELSE NoAddress)
=============================================================================
