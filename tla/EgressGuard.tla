---------------------------- MODULE EgressGuard -----------------------------
(***************************************************************************)
(* What block mode promises, without goroutines, maps or ring buffers: a   *)
(* guard that is off, then on, then ended; evidence about which addresses  *)
(* belong to which domains; and a set of granted prefixes that only grows  *)
(* and holds nothing the policy and the evidence do not justify.           *)
(***************************************************************************)
EXTENDS EgressPolicy

CONSTANT Capacity    \* prefixes the guard can hold for one family

VARIABLES mode, evidence, granted

guardVars == <<mode, evidence, granted>>

Belongs(ip) == \E d \in Domain : IsAllowedDomain(d) /\ <<d, ip>> \in evidence

Grantable(net) ==
    \/ net \in PolicyNets
    \/ \E ip \in Addr : net = {ip} /\ (ip \in PolicyIPs \/ Belongs(ip))

Full(f) == Cardinality({net \in granted : net \subseteq Addrs(f)}) >= Capacity

Init == mode = "off" /\ evidence = {} /\ granted = {}

SwitchOn == mode = "off" /\ mode' = "on" /\ UNCHANGED <<evidence, granted>>

End == mode # "ended" /\ mode' = "ended" /\ UNCHANGED <<evidence, granted>>

\* Evidence may still arrive while the guard goes down.
Learn ==
    /\ \E d \in Domain \cup {NoDomain} : \E ips \in SUBSET Addr :
           evidence' = evidence \cup ({d} \X ips)
    /\ UNCHANGED <<mode, granted>>

Grant(net) ==
    /\ mode # "off" /\ Grantable(net)
    /\ granted' = granted \cup {net}
    /\ UNCHANGED <<mode, evidence>>

Next ==
    \/ SwitchOn \/ End \/ Learn
    \/ \E net \in PolicyNets \cup {{ip} : ip \in Addr} : Grant(net)

\* Whatever belongs to an allowed domain is granted while there is room.
Prompt ==
    \A ip \in Addr :
        Belongs(ip) ~> mode = "ended" \/ {ip} \in granted \/ Full(FamilyOf(ip))

Safety == Init /\ [][Next]_guardVars

Spec == Safety /\ Prompt
=============================================================================
