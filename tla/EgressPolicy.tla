---------------------------- MODULE EgressPolicy ----------------------------
(***************************************************************************)
(* The two decision procedures of field-cage, without any state of their   *)
(* own: what the cgroup programs admit (internal/ebpf/bpf/block.c) and     *)
(* what the agent reports (internal/policy, internal/report/verdict.go).   *)
(*                                                                         *)
(* Addresses are abstract and split by family.  An IPv4-mapped IPv6        *)
(* address is the IPv4 address it embeds: net.IP.String and To4 identify   *)
(* them in Go, and check_ipv6 hands them to check_ipv4 in the kernel.  A   *)
(* network is the set of the addresses it contains, a host prefix (/32 or  *)
(* /128) being a singleton.                                                *)
(***************************************************************************)
EXTENDS Naturals, FiniteSets

CONSTANTS
    V4, V6,           \* the addresses of the two families
    Loopback,         \* 127.0.0.0/8 and ::1
    Domain,           \* the names that may be asked for
    NoDomain,         \* the empty name
    ExactDomains,     \* allowlist entries that are plain names
    WildcardDomains,  \* names that a "*.suffix" entry matches
    PolicyIPs,        \* allowlist entries that are addresses
    PolicyNets,       \* allowlist entries that are CIDR ranges
    MappedNets,       \* those of them written in the ::ffff:a.b.c.d form
    SystemResolvers,  \* the nameservers found in resolv.conf
    AllowAllDNS       \* the allow_all_dns option

Addr   == V4 \cup V6
Family == {"v4", "v6"}
Port   == {"dns", "other"}       \* 53, and any other port
Net    == (SUBSET V4) \cup (SUBSET V6)

ASSUME AddressAssumption ==
    /\ V4 \cap V6 = {}
    /\ Loopback \subseteq Addr
    /\ SystemResolvers \subseteq Addr
ASSUME PolicyAssumption ==
    /\ NoDomain \notin Domain
    /\ ExactDomains \subseteq Domain
    /\ WildcardDomains \subseteq Domain
    /\ PolicyIPs \subseteq Addr
    /\ PolicyNets \subseteq Net
    /\ MappedNets \subseteq PolicyNets
    /\ AllowAllDNS \in BOOLEAN

Addrs(f)     == IF f = "v4" THEN V4 ELSE V6
FamilyOf(ip) == IF ip \in V4 THEN "v4" ELSE "v6"

\* The trie an AllowCIDR call writes: cidr.IP.To4() decides.
FamilyOfNet(net) == IF net \subseteq V4 THEN "v4" ELSE "v6"

-----------------------------------------------------------------------------
(* The allowlist, policy.Engine. *)

IsAllowedDomain(d) == d \in ExactDomains \cup WildcardDomains

Listed(ip) == ip \in PolicyIPs \/ \E net \in PolicyNets : ip \in net

Allow(d, ip) == Listed(ip) \/ IsAllowedDomain(d)

-----------------------------------------------------------------------------
(* The kernel's decision, check_ipv4 and check_ipv6: the same three rules  *)
(* over the maps of the destination's family.                              *)

\* Mutant: port 53 is open to every destination.
CheckOpenDns(ip, port, trie, resolvers, allowAll) ==
    ip \in Loopback \/ port = "dns" \/ \E net \in trie : ip \in net

Check(ip, port, trie, resolvers, allowAll) ==
    \/ ip \in Loopback
    \/ port = "dns" /\ (allowAll \/ ip \in resolvers)
    \/ \E net \in trie : ip \in net

-----------------------------------------------------------------------------
(* What the agent reports: dnsExemptFor, VerdictFor, verdictForEvent. *)

\* Mutant: port 53 is never judged.
DnsExemptAlways(ip) == TRUE

\* Mutant: the report is not told the resolvers.
DnsExemptLoopback(ip) == AllowAllDNS \/ ip \in Loopback

DnsExempt(ip) == AllowAllDNS \/ ip \in Loopback \cup SystemResolvers

Verdict == {"ALLOW", "SKIP(dns)", "SKIP(loopback)", "SKIP(self)",
            "DENY(no-domain)", "DENY(not-in-policy)"}
Deny    == {"DENY(no-domain)", "DENY(not-in-policy)"}

VerdictFor(port, ip, d) ==
    LET exempt == port = "dns" /\ DnsExempt(ip) IN
    CASE exempt                      -> "SKIP(dns)"
      [] ~exempt /\ ip \in Loopback -> "SKIP(loopback)"
      [] OTHER -> IF Allow(d, ip) THEN "ALLOW"
                  ELSE IF d = NoDomain THEN "DENY(no-domain)"
                  ELSE "DENY(not-in-policy)"

VerdictForEvent(self, port, ip, d) ==
    IF self THEN "SKIP(self)" ELSE VerdictFor(port, ip, d)

-----------------------------------------------------------------------------
(* Where a DNS answer may come from to extend the allowlist,               *)
(* isTrustedSourceIP.  Answers are captured over IPv4 only, so the         *)
(* resolvers that are IPv6 never match.                                    *)
IsTrustedSource(src) == src \in Loopback \/ src \in SystemResolvers \cap V4
=============================================================================
