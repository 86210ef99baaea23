--------------------------- MODULE MCBlockWatcher ---------------------------
(* Small instances of BlockWatcher for TLC. *)
EXTENDS BlockWatcher

CONSTANTS
    lo, ns, web, lan,       \* loopback, a resolver, a server, a listed address
    web6,                   \* an IPv6 server
    good, sub, other        \* an exact entry, a wildcard match, neither

Answer(src, d, ips) == [src |-> src, domain |-> d, ips |-> ips]

V4Small  == {lo, ns, web, lan}
V6Small  == {web6}
LanNet   == {{lan, lo}}

\* A trusted answer for an allowed domain, one that gives the same address to
\* another domain, one from a host that is no resolver, one without question.
AnswersMixed == {Answer(ns, good, {web}), Answer(ns, other, {web}),
                 Answer(web, good, {ns}), Answer(ns, NoDomain, {lan})}
AnswersFew   == {Answer(ns, good, {web})}
AnswersShared == {Answer(ns, good, {web}), Answer(ns, other, {web})}
AnswersDual  == {Answer(ns, good, {web}), Answer(lo, sub, {web6}),
                 Answer(ns, other, {lan}), Answer(ns, NoDomain, {lo})}

NoTargets    == {}
TargetsFew   == {<<web, "other">>}
TargetsMixed == {<<ns, "dns">>, <<web, "dns">>, <<lo, "other">>}
=============================================================================
