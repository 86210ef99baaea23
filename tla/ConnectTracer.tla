--------------------------- MODULE ConnectTracer ----------------------------
(***************************************************************************)
(* How a connect(2) call becomes one event.  The two tracepoint programs   *)
(* of internal/ebpf/bpf/connect.c share an LRU table keyed by thread id    *)
(* and feed a ring buffer that Watcher.Read drains; newWatcher attaches    *)
(* them one after the other and Close detaches them so                     *)
(* (internal/ebpf/loader.go).  Threads, their calls and their deaths are   *)
(* the environment.                                                        *)
(***************************************************************************)
EXTENDS Naturals, Sequences, FiniteSets, Functions

CONSTANTS
    Threads,      \* thread ids (pid_tgid), used again after a death
    PendingCap,   \* max_entries of pending_connects
    RingCap,      \* events the ring buffer holds
    MaxCalls      \* bound on the connect calls of a behaviour

ASSUME TracerAssumption ==
    /\ IsFiniteSet(Threads)
    /\ PendingCap \in Nat \ {0} /\ RingCap \in Nat /\ MaxCalls \in Nat

VARIABLES
    stage,      \* of attaching and detaching, see Probes
    call,       \* per thread: the number of the call it is in, or 0
    calls,      \* history: the kind of each call made
    pending,    \* pending_connects: thread -> number of the recorded call
    ring,       \* numbers of the calls whose events are not read yet
    last,       \* history: the last call to end and what it submitted, or 0
    reported,   \* history: calls that have an event
    excused,    \* history: calls that had to go unreported
    stale       \* history: threads that may have left an entry behind

vars == <<stage, call, calls, pending, ring, last, reported, excused, stale>>

\* A call is recorded when its family is AF_INET or AF_INET6 and its sockaddr
\* can be read.  Its number stands for destination, port and command name.
Kind == {"inet", "other"}

NoCall == [call |-> 0, event |-> 0]

Init ==
    /\ stage = 0 /\ call = [t \in Threads |-> 0] /\ calls = <<>>
    /\ pending = [t \in {} |-> 0] /\ ring = <<>> /\ last = NoCall
    /\ reported = {} /\ excused = {} /\ stale = {}

-----------------------------------------------------------------------------
(* The probes and the table. *)

\* sys_enter_connect is attached first and closed last.
Probes == IF stage = 2 THEN {"enter", "exit"}
          ELSE IF stage \in {1, 3} THEN {"enter"} ELSE {}

AttachOrClose ==
    /\ stage < 4 /\ stage' = stage + 1
    /\ UNCHANGED <<call, calls, pending, ring, last, reported, excused, stale>>

Without(table, t) == Restrict(table, DOMAIN table \ {t})

With(table, t, n) ==
    [u \in DOMAIN table \cup {t} |-> IF u = t THEN n ELSE table[u]]

\* The threads whose entry makes room for t's: an LRU table evicts when it
\* is full, and which entry is the least recently used is up to the kernel.
Victims(t) ==
    IF t \in DOMAIN pending \/ Cardinality(DOMAIN pending) < PendingCap
    THEN {t} ELSE DOMAIN pending

-----------------------------------------------------------------------------
(* trace_connect_enter *)

\* The call starts; the program, if attached, records it.
Call(t, kind) ==
    /\ call[t] = 0 /\ Len(calls) < MaxCalls
    /\ calls' = Append(calls, kind)
    /\ call' = [call EXCEPT ![t] = Len(calls) + 1]
    /\ UNCHANGED <<stage, ring, last, reported>>

\* Mutant: the family is not looked at.
EnterAnyFamily(t, kind) ==
    /\ Call(t, kind)
    /\ kind = "other" \/ "enter" \notin Probes
    /\ excused' = excused \cup {call'[t]}
    /\ pending' = IF "enter" \notin Probes THEN pending
                  ELSE CHOOSE table \in {With(Without(pending, u), t, call'[t]) :
                                             u \in Victims(t)} : TRUE
    /\ stale' = stale \ {t}

EnterUnrecorded(t, kind) ==
    /\ Call(t, kind)
    /\ kind = "other" \/ "enter" \notin Probes
    /\ excused' = excused \cup {call'[t]}
    /\ UNCHANGED <<pending, stale>>

\* Mutant: a plain hash table, which refuses a new key when it is full.
EnterPlain(t) ==
    /\ Call(t, "inet") /\ "enter" \in Probes
    /\ pending' = IF t \in DOMAIN pending \/ Cardinality(DOMAIN pending) < PendingCap
                  THEN With(pending, t, call'[t]) ELSE pending
    /\ stale' = stale \ {t}
    /\ UNCHANGED excused

EnterRecorded(t) ==
    /\ Call(t, "inet") /\ "enter" \in Probes
    /\ \E u \in Victims(t) :
           /\ pending' = With(Without(pending, u), t, call'[t])
           /\ excused' = IF u \in DOMAIN pending
                         THEN excused \cup {pending[u]} ELSE excused
    /\ stale' = stale \ {t}

\* "this update only fails on transient conditions": the event is lost.
EnterFails(t) ==
    /\ Call(t, "inet") /\ "enter" \in Probes
    /\ excused' = excused \cup {call'[t]}
    /\ UNCHANGED <<pending, stale>>

-----------------------------------------------------------------------------
(* trace_connect_exit *)

Leave(t, event) ==
    /\ call[t] # 0
    /\ call' = [call EXCEPT ![t] = 0]
    /\ last' = [call |-> call[t], event |-> event]
    /\ UNCHANGED <<stage, calls>>

ExitUnseen(t) ==
    /\ "exit" \notin Probes /\ Leave(t, 0)
    /\ excused' = excused \cup {call[t]}
    /\ stale' = stale \cup {t}
    /\ UNCHANGED <<pending, ring, reported>>

ExitUnrecorded(t) ==
    /\ "exit" \in Probes /\ t \notin DOMAIN pending /\ Leave(t, 0)
    /\ stale' = stale \ {t}
    /\ UNCHANGED <<pending, ring, reported, excused>>

\* Mutant: the entry is not deleted after the event was submitted.
ExitKeeps(t) ==
    /\ "exit" \in Probes /\ t \in DOMAIN pending /\ Len(ring) < RingCap
    /\ Leave(t, pending[t])
    /\ ring' = Append(ring, pending[t])
    /\ reported' = reported \cup {pending[t]}
    /\ stale' = stale \ {t}
    /\ UNCHANGED <<pending, excused>>

ExitSubmits(t) ==
    /\ "exit" \in Probes /\ t \in DOMAIN pending /\ Len(ring) < RingCap
    /\ Leave(t, pending[t])
    /\ ring' = Append(ring, pending[t])
    /\ reported' = reported \cup {pending[t]}
    /\ pending' = Without(pending, t)
    /\ stale' = stale \ {t}
    /\ UNCHANGED excused

\* Mutant: the entry survives the event that was dropped.
ExitDropsKeeps(t) ==
    /\ "exit" \in Probes /\ t \in DOMAIN pending /\ Len(ring) >= RingCap
    /\ Leave(t, 0)
    /\ excused' = excused \cup {pending[t]}
    /\ stale' = stale \ {t}
    /\ UNCHANGED <<pending, ring, reported>>

\* No room in the ring buffer.
ExitDrops(t) ==
    /\ "exit" \in Probes /\ t \in DOMAIN pending /\ Len(ring) >= RingCap
    /\ Leave(t, 0)
    /\ excused' = excused \cup {pending[t]}
    /\ pending' = Without(pending, t)
    /\ stale' = stale \ {t}
    /\ UNCHANGED <<ring, reported>>

\* The thread is killed inside connect; its id is used again later.
Die(t) ==
    /\ Leave(t, 0)
    /\ excused' = excused \cup {call[t]}
    /\ stale' = stale \cup {t}
    /\ UNCHANGED <<pending, ring, reported>>

\* Watcher.Read takes the oldest event.
Read ==
    /\ ring # <<>> /\ ring' = Tail(ring)
    /\ UNCHANGED <<stage, call, calls, pending, last, reported, excused, stale>>

Next ==
    \/ AttachOrClose \/ Read
    \/ \E t \in Threads :
        \/ \E kind \in Kind : EnterUnrecorded(t, kind)
        \/ EnterRecorded(t) \/ EnterFails(t)
        \/ ExitUnseen(t) \/ ExitUnrecorded(t) \/ ExitSubmits(t) \/ ExitDrops(t)
        \/ Die(t)

Spec == Init /\ [][Next]_vars

-----------------------------------------------------------------------------
(* Properties. *)

Number == 1..Len(calls)

\* The type invariant: the table and the ring stay within their bounds, and
\* hold only calls that were made to an internet address.
TypeOK ==
    /\ stage \in 0..4
    /\ calls \in Seq(Kind) /\ Len(calls) <= MaxCalls
    /\ call \in [Threads -> Number \cup {0}]
    /\ DOMAIN pending \subseteq Threads
    /\ Cardinality(DOMAIN pending) <= PendingCap
    /\ \A t \in DOMAIN pending : pending[t] \in Number /\ calls[pending[t]] = "inet"
    /\ ring \in Seq(reported) /\ Len(ring) <= RingCap
    /\ last \in [call : Number \cup {0}, event : Number \cup {0}]
    /\ reported \subseteq Number /\ excused \subseteq Number
    /\ stale \subseteq Threads

\* A connection attempt is never reported twice: a call that has an event has
\* no entry left that a later call of the thread could submit.
AtMostOnce == \A t \in DOMAIN pending : pending[t] \notin reported

\* The event that the end of a call submits is about that very call, whatever
\* other threads do; only a call of which the enter or the exit was missed,
\* or whose thread died, can leave an entry for the thread's next one.
OwnEvent ==
    [][\A t \in Threads \ stale :
           call[t] # 0 /\ call'[t] = 0 => last'.event \in {0, call[t]}]_vars

\* Events are lost for a reason only: probes not attached, a refused or
\* evicted entry, a full ring buffer, a death.  In particular the entries
\* that interrupted calls leave behind never stop later calls.
Accounted ==
    \A n \in Number \ {call[t] : t \in Threads} :
        calls[n] = "inet" => n \in reported \cup excused
=============================================================================
