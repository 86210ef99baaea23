------------------------ MODULE ConnectTracer_proofs ------------------------
(***************************************************************************)
(* Theorems about ConnectTracer, for every number of threads, of table     *)
(* entries and of events in the ring buffer.                               *)
(***************************************************************************)
EXTENDS ConnectTracer, FiniteSetTheorems, SequenceTheorems, TLAPS

-----------------------------------------------------------------------------
(* Lemmas about the table. *)

\* What a deletion leaves in the table.
LEMMA DeleteMap ==
    ASSUME NEW table, NEW t
    PROVE  /\ DOMAIN Without(table, t) = DOMAIN table \ {t}
           /\ \A v \in DOMAIN table \ {t} : Without(table, t)[v] = table[v]
  BY DEF Without, Restrict

\* The LRU table never outgrows max_entries.
LEMMA InsertFits ==
    ASSUME NEW t \in Threads, DOMAIN pending \subseteq Threads,
           Cardinality(DOMAIN pending) <= PendingCap, NEW u \in Victims(t)
    PROVE  Cardinality((DOMAIN pending \ {u}) \cup {t}) <= PendingCap
  <1> DEFINE D == DOMAIN pending
  <1>1. IsFiniteSet(D) /\ Cardinality(D) \in Nat
    BY FS_Subset, FS_CardinalityType, TracerAssumption
  <1>2. CASE t \in D
    <2> u = t /\ (D \ {u}) \cup {t} = D
      BY <1>2 DEF Victims
    <2> QED  OBVIOUS
  <1>3. CASE t \notin D /\ Cardinality(D) < PendingCap
    <2>1. (D \ {u}) \cup {t} = D \cup {t}
      BY <1>3 DEF Victims
    <2>2. Cardinality(D \cup {t}) = Cardinality(D) + 1
      BY <1>1, <1>3, FS_AddElement
    <2> QED  BY <1>1, <1>3, <2>1, <2>2, TracerAssumption
  <1>4. CASE t \notin D /\ ~(Cardinality(D) < PendingCap)
    <2>1. u \in D
      BY <1>4 DEF Victims
    <2>2. IsFiniteSet(D \ {u}) /\ Cardinality(D \ {u}) = Cardinality(D) - 1
      BY <1>1, <2>1, FS_RemoveElement
    <2>3. Cardinality((D \ {u}) \cup {t}) = Cardinality(D \ {u}) + 1
      BY <1>4, <2>2, FS_AddElement
    <2> QED  BY <1>1, <2>2, <2>3
  <1> QED  BY <1>2, <1>3, <1>4

-----------------------------------------------------------------------------
(* Type correctness. *)

\* A call that starts has the next number.
LEMMA CallType ==
    ASSUME TypeOK, NEW t \in Threads, NEW kind \in Kind, Call(t, kind)
    PROVE  /\ calls' \in Seq(Kind) /\ Len(calls') = Len(calls) + 1 /\ Len(calls') <= MaxCalls
           /\ Number \subseteq Number' /\ Len(calls) + 1 \in Number'
           /\ Len(calls) + 1 \notin Number
           /\ \A n \in Number : calls'[n] = calls[n]
           /\ calls'[Len(calls) + 1] = kind
           /\ call'[t] = Len(calls) + 1 /\ call' \in [Threads -> Number' \cup {0}]
           /\ \A u \in Threads \ {t} : call'[u] = call[u]
  BY TracerAssumption DEF TypeOK, Call, Number

\* The table after a call was recorded: room was made for it, and the call
\* whose entry went has its excuse.
LEMMA RecordMap ==
    ASSUME TypeOK, NEW t \in Threads, EnterRecorded(t)
    PROVE  \E u \in Victims(t) :
               /\ DOMAIN pending' = (DOMAIN pending \ {u}) \cup {t}
               /\ pending'[t] = Len(calls) + 1
               /\ \A v \in DOMAIN pending \ {u, t} : pending'[v] = pending[v]
               /\ excused' = IF u \in DOMAIN pending
                             THEN excused \cup {pending[u]} ELSE excused
  <1>1. PICK u \in Victims(t) :
            /\ pending' = With(Without(pending, u), t, call'[t])
            /\ excused' = IF u \in DOMAIN pending
                          THEN excused \cup {pending[u]} ELSE excused
    BY DEF EnterRecorded
  <1>2. /\ DOMAIN With(Without(pending, u), t, call'[t]) = (DOMAIN pending \ {u}) \cup {t}
        /\ With(Without(pending, u), t, call'[t])[t] = call'[t]
        /\ \A v \in DOMAIN pending \ {u, t} :
               With(Without(pending, u), t, call'[t])[v] = pending[v]
    BY DEF With, Without, Restrict
  <1>3. call'[t] = Len(calls) + 1
    BY CallType DEF EnterRecorded, Kind
  <1> QED  BY <1>1, <1>2, <1>3

\* The table starts within its bounds.
LEMMA InitType == Init => TypeOK
  <1> SUFFICES ASSUME Init PROVE TypeOK
    OBVIOUS
  <1>1. Cardinality(DOMAIN pending) = 0
    BY FS_EmptySet DEF Init
  <1> QED  BY <1>1, TracerAssumption DEF Init, TypeOK, Number, NoCall

\* Every step keeps the table and the ring within their bounds.
LEMMA TypeStep == TypeOK /\ [Next]_vars => TypeOK'
  <1> SUFFICES ASSUME TypeOK, [Next]_vars PROVE TypeOK'
    OBVIOUS
  <1>1. CASE AttachOrClose
    BY <1>1 DEF AttachOrClose, TypeOK, Number
  <1>2. CASE Read
    <2>1. ring' \in Seq(reported) /\ Len(ring') <= RingCap
      BY <1>2, HeadTailProperties, TracerAssumption DEF Read, TypeOK
    <2> QED  BY <1>2, <2>1 DEF Read, TypeOK, Number
  <1>3. ASSUME NEW t \in Threads, NEW kind \in Kind, EnterUnrecorded(t, kind)
        PROVE  TypeOK'
    <2>1. UNCHANGED <<stage, ring, last, reported, pending, stale>>
          /\ excused' = excused \cup {Len(calls) + 1}
      BY <1>3, CallType DEF EnterUnrecorded, Call
    <2>2. /\ calls' \in Seq(Kind) /\ Len(calls') <= MaxCalls
          /\ Number \subseteq Number' /\ Len(calls) + 1 \in Number'
          /\ \A n \in Number : calls'[n] = calls[n]
          /\ call' \in [Threads -> Number' \cup {0}]
      BY <1>3, CallType DEF EnterUnrecorded
    <2>3. last' \in [call : Number' \cup {0}, event : Number' \cup {0}]
      <3> DEFINE A == Number \cup {0}
                 B == Number' \cup {0}
      <3>1. A \subseteq B /\ last' = last /\ last \in [call : A, event : A]
        BY <2>1, <2>2 DEF TypeOK
      <3> HIDE DEF A, B
      <3>2. last' \in [call : B, event : B]
        BY <3>1
      <3> QED  BY <3>2 DEF B
    <2>4. \A u \in DOMAIN pending' : pending'[u] \in Number' /\ calls'[pending'[u]] = "inet"
      BY <2>1, <2>2, Zenon DEF TypeOK
    <2> QED  BY <2>1, <2>2, <2>3, <2>4, Zenon DEF TypeOK
  <1>4. ASSUME NEW t \in Threads, EnterFails(t)
        PROVE  TypeOK'
    <2>1. UNCHANGED <<stage, ring, last, reported, pending, stale>>
          /\ excused' = excused \cup {Len(calls) + 1}
      BY <1>4, CallType DEF EnterFails, Call, Kind
    <2> QED  BY <1>4, <2>1, CallType DEF EnterFails, TypeOK, Kind
  <1>5. ASSUME NEW t \in Threads, EnterRecorded(t)
        PROVE  TypeOK'
    <2>1. Call(t, "inet") /\ "inet" \in Kind
      BY <1>5 DEF EnterRecorded, Kind
    <2>3. PICK u \in Victims(t) :
              /\ DOMAIN pending' = (DOMAIN pending \ {u}) \cup {t}
              /\ pending'[t] = Len(calls) + 1
              /\ \A v \in DOMAIN pending \ {u, t} : pending'[v] = pending[v]
              /\ excused' = IF u \in DOMAIN pending
                            THEN excused \cup {pending[u]} ELSE excused
      BY <1>5, RecordMap
    <2>4. Cardinality(DOMAIN pending') <= PendingCap
      BY <2>3, InsertFits DEF TypeOK
    <2>5. \A v \in DOMAIN pending' : pending'[v] \in Number' /\ calls'[pending'[v]] = "inet"
      <3>1. /\ Number \subseteq Number' /\ Len(calls) + 1 \in Number'
            /\ \A n \in Number : calls'[n] = calls[n]
            /\ calls'[Len(calls) + 1] = "inet"
        BY <2>1, CallType
      <3> QED  BY <2>3, <3>1 DEF TypeOK
    <2>6. excused' \subseteq Number'
      BY <2>1, <2>3, CallType DEF TypeOK
    <2>7. UNCHANGED <<stage, ring, last, reported>> /\ stale' = stale \ {t}
      BY <1>5 DEF EnterRecorded, Call
    <2> QED  BY <2>1, <2>3, <2>4, <2>5, <2>6, <2>7, CallType DEF TypeOK
  <1>6. ASSUME NEW t \in Threads,
               ExitUnseen(t) \/ ExitUnrecorded(t) \/ ExitSubmits(t) \/ ExitDrops(t) \/ Die(t)
        PROVE  TypeOK'
    <2>0. PICK event \in Number \cup {0} : Leave(t, event)
      BY <1>6 DEF ExitUnseen, ExitUnrecorded, ExitSubmits, ExitDrops, Die, TypeOK
    <2>1. /\ UNCHANGED <<stage, calls, Number>> /\ call' = [call EXCEPT ![t] = 0]
          /\ last' \in [call : Number \cup {0}, event : Number \cup {0}]
      BY <2>0 DEF Leave, TypeOK, Number
    <2>5. /\ excused' \subseteq Number /\ stale' \subseteq Threads
          /\ pending' = pending \/ pending' = Without(pending, t)
      <3>1. call[t] \in Number
        BY <2>0 DEF Leave, TypeOK
      <3> QED
        BY <1>6, <3>1 DEF ExitUnseen, ExitUnrecorded, ExitSubmits, ExitDrops, Die, TypeOK
    <2>2. /\ ring' \in Seq(reported') /\ Len(ring') <= RingCap /\ reported' \subseteq Number
      <3>1. CASE ExitSubmits(t)
        BY <3>1, TracerAssumption DEF ExitSubmits, TypeOK
      <3>2. CASE ~ExitSubmits(t)
        BY <1>6, <3>2 DEF ExitUnseen, ExitUnrecorded, ExitDrops, Die, TypeOK
      <3> QED  BY <3>1, <3>2
    <2>3. /\ DOMAIN pending' \subseteq DOMAIN pending
          /\ \A v \in DOMAIN pending' : pending'[v] = pending[v]
      <3>1. /\ DOMAIN Without(pending, t) = DOMAIN pending \ {t}
            /\ \A v \in DOMAIN pending \ {t} : Without(pending, t)[v] = pending[v]
        BY DeleteMap
      <3> QED  BY <2>5, <3>1
    <2>4. Cardinality(DOMAIN pending') <= PendingCap
      <3>1. IsFiniteSet(DOMAIN pending)
        BY FS_Subset, TracerAssumption DEF TypeOK
      <3>2. /\ Cardinality(DOMAIN pending') <= Cardinality(DOMAIN pending)
            /\ Cardinality(DOMAIN pending') \in Nat /\ Cardinality(DOMAIN pending) \in Nat
        BY <3>1, <2>3, FS_Subset, FS_CardinalityType
      <3> QED  BY <3>2, TracerAssumption DEF TypeOK
    <2> QED  BY <2>1, <2>2, <2>3, <2>4, <2>5 DEF TypeOK
  <1>7. CASE UNCHANGED vars
    BY <1>7 DEF vars, TypeOK, Number
  <1> QED
    BY <1>1, <1>2, <1>3, <1>4, <1>5, <1>6, <1>7 DEF Next

\* pending_connects and the ring buffer, for every size of them: both stay
\* within their bounds and hold only calls made to an internet address.
THEOREM TypeCorrect == Spec => []TypeOK
  BY InitType, TypeStep, PTL DEF Spec

-----------------------------------------------------------------------------
(* One event per call, of that call, and none lost without a reason. *)

\* No two entries are of one call.
NoTwoAlike == \A t, u \in DOMAIN pending : pending[t] = pending[u] => t = u

\* The call a thread is in has an entry of its own, or an excuse.
Recorded ==
    \A t \in Threads : call[t] # 0 =>
        call[t] \in excused \/ (t \in DOMAIN pending /\ pending[t] = call[t])

\* An entry that is not of the thread's current call is of a thread that
\* missed an exit.
OwnEntry == \A t \in DOMAIN pending \ stale : pending[t] = call[t]

IInv == TypeOK /\ NoTwoAlike /\ AtMostOnce /\ Recorded /\ OwnEntry /\ Accounted

\* Before any call there is nothing to account for.
LEMMA InitInv == Init => IInv
  BY InitType DEF IInv, Init, NoTwoAlike, AtMostOnce, Recorded, OwnEntry, Accounted, Number

\* A call that leaves no entry starts with its excuse.
LEMMA UnrecordedStep ==
    ASSUME IInv, NEW t \in Threads, NEW kind \in Kind, Call(t, kind),
           UNCHANGED <<pending, stale>>, excused' = excused \cup {call'[t]}
    PROVE  NoTwoAlike' /\ AtMostOnce' /\ Recorded' /\ OwnEntry' /\ Accounted'
  <1> TypeOK
    BY DEF IInv
  <1>1. call[t] = 0 /\ reported' = reported
    BY DEF Call
  <1>2. NoTwoAlike' /\ AtMostOnce'
    BY <1>1 DEF IInv, NoTwoAlike, AtMostOnce
  <1>3. Recorded'
    BY <1>1, CallType DEF IInv, Recorded
  <1>4. t \in stale \/ t \notin DOMAIN pending
    BY <1>1 DEF IInv, OwnEntry, TypeOK, Number
  <1>5. OwnEntry'
    BY <1>4, CallType DEF IInv, OwnEntry, TypeOK
  <1>6. Accounted'
    <2> SUFFICES ASSUME NEW n \in Number' \ {call'[u] : u \in Threads}, calls'[n] = "inet"
                 PROVE  n \in reported' \cup excused'
      BY DEF Accounted
    <2>1. n # Len(calls) + 1 /\ n \in Number
      BY CallType DEF TypeOK, Number
    <2>2. n \notin {call[u] : u \in Threads}
      BY <1>1, <2>1, CallType DEF Number
    <2> QED  BY <1>1, <2>1, <2>2, CallType DEF IInv, Accounted
  <1> QED  BY <1>2, <1>3, <1>5, <1>6

\* A recorded call has the entry, and the one evicted for it an excuse.
LEMMA RecordedStep ==
    ASSUME IInv, NEW t \in Threads, EnterRecorded(t)
    PROVE  NoTwoAlike' /\ AtMostOnce' /\ Recorded' /\ OwnEntry' /\ Accounted'
  <1> TypeOK
    BY DEF IInv
  <1>1. PICK v \in Victims(t) :
            /\ DOMAIN pending' = (DOMAIN pending \ {v}) \cup {t}
            /\ pending'[t] = Len(calls) + 1
            /\ \A u \in DOMAIN pending \ {v, t} : pending'[u] = pending[u]
            /\ excused' = IF v \in DOMAIN pending
                          THEN excused \cup {pending[v]} ELSE excused
    BY RecordMap
  <1>2. v = t \/ t \notin DOMAIN pending
    BY DEF Victims
  <1>3. /\ Call(t, "inet") /\ "inet" \in Kind /\ call[t] = 0
        /\ reported' = reported /\ stale' = stale \ {t}
    BY DEF EnterRecorded, Call, Kind
  <1>4. \A u \in DOMAIN pending' : u = t \/ (u \in DOMAIN pending \ {v, t} /\ pending'[u] = pending[u])
    BY <1>1
  <1>5. \A u \in DOMAIN pending : pending[u] # Len(calls) + 1
    BY DEF TypeOK, Number
  <1>6. NoTwoAlike'
    BY <1>1, <1>4, <1>5 DEF IInv, NoTwoAlike
  <1>7. AtMostOnce'
    BY <1>1, <1>3, <1>4 DEF IInv, AtMostOnce, TypeOK, Number
  <1>8. Recorded'
    <2> SUFFICES ASSUME NEW u \in Threads, call'[u] # 0
                 PROVE  call'[u] \in excused' \/ (u \in DOMAIN pending' /\ pending'[u] = call'[u])
      BY DEF Recorded
    <2>1. CASE u = t
      BY <1>1, <1>3, <2>1, CallType
    <2>2. CASE u # t
      <3>1. call'[u] = call[u] /\ (call[u] \in excused \/ (u \in DOMAIN pending /\ pending[u] = call[u]))
        BY <1>3, <2>2, CallType DEF IInv, Recorded
      <3> QED  BY <1>1, <2>2, <3>1
    <2> QED  BY <2>1, <2>2
  <1>9. OwnEntry'
    <2> SUFFICES ASSUME NEW u \in DOMAIN pending' \ stale' PROVE pending'[u] = call'[u]
      BY DEF OwnEntry
    <2> QED  BY <1>1, <1>3, <1>4, CallType DEF IInv, OwnEntry, TypeOK
  <1>10. Accounted'
    <2> SUFFICES ASSUME NEW n \in Number' \ {call'[u] : u \in Threads}, calls'[n] = "inet"
                 PROVE  n \in reported' \cup excused'
      BY DEF Accounted
    <2>1. n # Len(calls) + 1 /\ n \in Number
      BY <1>3, CallType DEF TypeOK, Number
    <2>2. n \notin {call[u] : u \in Threads}
      BY <1>3, <2>1, CallType DEF Number
    <2> QED  BY <1>1, <1>3, <2>1, <2>2, CallType DEF IInv, Accounted
  <1> QED  BY <1>6, <1>7, <1>8, <1>9, <1>10

\* What every end of a call does to the table, to the events and to the
\* excuses: the call's own entry becomes an event or an excuse.
LEMMA ExitStep ==
    ASSUME IInv, NEW t \in Threads,
           ExitUnseen(t) \/ ExitUnrecorded(t) \/ ExitSubmits(t) \/ ExitDrops(t) \/ Die(t)
    PROVE  /\ UNCHANGED <<calls, Number>> /\ call[t] # 0 /\ call' = [call EXCEPT ![t] = 0]
           /\ excused \subseteq excused' /\ reported \subseteq reported'
           /\ call[t] \in reported' \cup excused'
           /\ \/ /\ UNCHANGED <<pending, reported>> /\ stale' = stale \cup {t}
              \/ /\ DOMAIN pending' = DOMAIN pending \ {t} /\ stale' = stale \ {t}
                 /\ \A u \in DOMAIN pending' : pending'[u] = pending[u]
                 /\ \/ reported' = reported
                    \/ t \in DOMAIN pending /\ reported' = reported \cup {pending[t]}
  <1> TypeOK
    BY DEF IInv
  <1>1. PICK event : Leave(t, event)
    BY DEF ExitUnseen, ExitUnrecorded, ExitSubmits, ExitDrops, Die
  <1>2. /\ UNCHANGED <<calls, Number>> /\ call[t] # 0 /\ call' = [call EXCEPT ![t] = 0]
    BY <1>1 DEF Leave, Number
  <1>3. call[t] \in excused \/ (t \in DOMAIN pending /\ pending[t] = call[t])
    BY <1>2 DEF IInv, Recorded
  <1>4. CASE ExitUnseen(t) \/ Die(t)
    BY <1>2, <1>4 DEF ExitUnseen, Die
  <1>5. CASE ExitUnrecorded(t)
    BY <1>2, <1>3, <1>5 DEF ExitUnrecorded
  <1>6. CASE ExitSubmits(t) \/ ExitDrops(t)
    <2>1. /\ DOMAIN pending' = DOMAIN pending \ {t}
          /\ \A u \in DOMAIN pending' : pending'[u] = pending[u]
      <3>1. /\ DOMAIN Without(pending, t) = DOMAIN pending \ {t}
            /\ \A v \in DOMAIN pending \ {t} : Without(pending, t)[v] = pending[v]
        BY DeleteMap
      <3> QED  BY <1>6, <3>1 DEF ExitSubmits, ExitDrops
    <2>2. /\ excused \subseteq excused' /\ reported \subseteq reported' /\ stale' = stale \ {t}
          /\ call[t] \in reported' \cup excused'
          /\ \/ reported' = reported
             \/ t \in DOMAIN pending /\ reported' = reported \cup {pending[t]}
      BY <1>3, <1>6 DEF ExitSubmits, ExitDrops
    <2> QED  BY <1>2, <2>1, <2>2
  <1> QED  BY <1>4, <1>5, <1>6

\* The end of a call keeps the entries apart and the accounts straight.
LEMMA ExitInv ==
    ASSUME IInv, NEW t \in Threads,
           ExitUnseen(t) \/ ExitUnrecorded(t) \/ ExitSubmits(t) \/ ExitDrops(t) \/ Die(t)
    PROVE  NoTwoAlike' /\ AtMostOnce' /\ Recorded' /\ OwnEntry' /\ Accounted'
  <1> TypeOK
    BY DEF IInv
  <1>1. /\ UNCHANGED <<calls, Number>> /\ call[t] # 0 /\ call' = [call EXCEPT ![t] = 0]
        /\ excused \subseteq excused' /\ reported \subseteq reported'
        /\ call[t] \in reported' \cup excused'
    BY ExitStep
  <1>2. \/ /\ UNCHANGED <<pending, reported>> /\ stale' = stale \cup {t}
        \/ /\ DOMAIN pending' = DOMAIN pending \ {t} /\ stale' = stale \ {t}
           /\ \A u \in DOMAIN pending' : pending'[u] = pending[u]
           /\ \/ reported' = reported
              \/ t \in DOMAIN pending /\ reported' = reported \cup {pending[t]}
    BY ExitStep
  <1>3. NoTwoAlike'
    BY <1>2 DEF IInv, NoTwoAlike
  <1>4. AtMostOnce'
    BY <1>2 DEF IInv, AtMostOnce, NoTwoAlike
  <1>5. \A u \in Threads : call'[u] = IF u = t THEN 0 ELSE call[u]
    BY <1>1 DEF TypeOK
  <1>6. Recorded'
    BY <1>1, <1>2, <1>5 DEF IInv, Recorded
  <1>7. OwnEntry'
    BY <1>2, <1>5 DEF IInv, OwnEntry, TypeOK
  <1>8. Accounted'
    <2> SUFFICES ASSUME NEW n \in Number \ {call'[u] : u \in Threads}, calls[n] = "inet"
                 PROVE  n \in reported' \cup excused'
      BY <1>1 DEF Accounted
    <2>1. CASE n = call[t]
      BY <1>1, <2>1
    <2>2. CASE n # call[t]
      BY <1>1, <1>5, <2>2 DEF IInv, Accounted
    <2> QED  BY <2>1, <2>2
  <1> QED  BY <1>3, <1>4, <1>6, <1>7, <1>8

\* The invariant is inductive.
LEMMA StepInv == IInv /\ [Next]_vars => IInv'
  <1> SUFFICES ASSUME IInv, [Next]_vars
               PROVE  NoTwoAlike' /\ AtMostOnce' /\ Recorded' /\ OwnEntry' /\ Accounted'
    BY TypeStep DEF IInv
  <1>1. CASE AttachOrClose \/ Read \/ UNCHANGED vars
    BY <1>1 DEF AttachOrClose, Read, vars, IInv, NoTwoAlike, AtMostOnce, Recorded,
                OwnEntry, Accounted, Number
  <1>2. ASSUME NEW t \in Threads, NEW kind \in Kind,
               EnterUnrecorded(t, kind) \/ (kind = "inet" /\ EnterFails(t))
        PROVE  NoTwoAlike' /\ AtMostOnce' /\ Recorded' /\ OwnEntry' /\ Accounted'
    BY <1>2, UnrecordedStep DEF EnterUnrecorded, EnterFails
  <1>3. ASSUME NEW t \in Threads, EnterRecorded(t)
        PROVE  NoTwoAlike' /\ AtMostOnce' /\ Recorded' /\ OwnEntry' /\ Accounted'
    BY <1>3, RecordedStep
  <1>4. ASSUME NEW t \in Threads,
               ExitUnseen(t) \/ ExitUnrecorded(t) \/ ExitSubmits(t) \/ ExitDrops(t) \/ Die(t)
        PROVE  NoTwoAlike' /\ AtMostOnce' /\ Recorded' /\ OwnEntry' /\ Accounted'
    BY <1>4, ExitInv
  <1> QED  BY <1>1, <1>2, <1>3, <1>4 DEF Next, Kind

\* The invariant holds in every state.
LEMMA Inductive == Spec => []IInv
  BY InitInv, StepInv, PTL DEF Spec

\* connect.c, for any number of threads and any sizes: no call has two
\* events.
THEOREM OneEventPerCall == Spec => []AtMostOnce
  BY Inductive, PTL DEF IInv

\* A call that has ended has its event or one of the reasons to have none;
\* entries left behind by interrupted calls never stop a later one.
THEOREM NoneLostUnexplained == Spec => []Accounted
  BY Inductive, PTL DEF IInv

\* trace_connect_exit pairs the end of a call with the entry of that call,
\* also while entries of other threads are evicted or left behind.
THEOREM EventIsOwn == Spec => OwnEvent
  <1>1. ASSUME IInv, [Next]_vars, NEW t \in Threads \ stale, call[t] # 0, call'[t] = 0
        PROVE  last'.event \in {0, call[t]}
    <2> TypeOK
      BY <1>1 DEF IInv
    <2>1. CASE AttachOrClose \/ Read \/ UNCHANGED vars
      BY <1>1, <2>1 DEF AttachOrClose, Read, vars
    <2>2. ASSUME NEW u \in Threads, NEW kind \in Kind, Call(u, kind)
          PROVE  FALSE
      BY <1>1, <2>2, CallType DEF TypeOK, Number
    <2>3. ASSUME NEW u \in Threads, NEW event, Leave(u, event),
                 event = 0 \/ (u \in DOMAIN pending /\ event = pending[u])
          PROVE  last'.event \in {0, call[t]}
      <3>1. u = t /\ last'.event = event
        BY <1>1, <2>3 DEF Leave, TypeOK
      <3> QED  BY <1>1, <2>3, <3>1 DEF IInv, OwnEntry
    <2>4. ASSUME NEW u \in Threads,
                 ExitUnseen(u) \/ ExitUnrecorded(u) \/ ExitSubmits(u) \/ ExitDrops(u) \/ Die(u)
          PROVE  last'.event \in {0, call[t]}
      BY <2>3, <2>4 DEF ExitUnseen, ExitUnrecorded, ExitSubmits, ExitDrops, Die
    <2>5. ASSUME NEW u \in Threads,
                 EnterRecorded(u) \/ EnterFails(u) \/ \E kind \in Kind : EnterUnrecorded(u, kind)
          PROVE  FALSE
      BY <2>2, <2>5 DEF EnterRecorded, EnterFails, EnterUnrecorded, Kind
    <2> QED  BY <1>1, <2>1, <2>4, <2>5 DEF Next
  <1>2. IInv /\ [Next]_vars =>
            [\A t \in Threads \ stale :
                 call[t] # 0 /\ call'[t] = 0 => last'.event \in {0, call[t]}]_vars
    BY <1>1
  <1> QED  BY <1>2, Inductive, PTL DEF Spec, OwnEvent
=============================================================================
