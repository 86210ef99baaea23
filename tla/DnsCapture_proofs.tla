------------------------- MODULE DnsCapture_proofs -------------------------
(***************************************************************************)
(* What the capture path learns from any packets, for every choice of      *)
(* packets and names and every capacity of the ring buffer: the walk of    *)
(* the parser through the answers stays on their boundaries.               *)
(***************************************************************************)
EXTENDS DnsCapture, SequenceTheorems, TLAPS

-----------------------------------------------------------------------------
(* Lengths. *)

\* The fields of a packet are as wide as its headers make them.
LEMMA PacketTyped ==
    ASSUME NEW p \in Packets
    PROVE  /\ p.ihl \in 0..60 /\ p.payload \in Nat /\ p.udp \in Nat
           /\ p.msg \in Message
<1> DEFINE W == 0..65535
           M == Message
           N == Nat
<1>1. HeaderLength \subseteq 0..60
  BY DEF HeaderLength
<1>2. p \in Packet
  BY CaptureAssumption
<1>3. Packet = [udpProto : BOOLEAN, ihl : HeaderLength, from53 : BOOLEAN,
                udp : W, payload : N, msg : M]
  BY DEF Packet
<1>4. p.ihl \in HeaderLength /\ p.udp \in W /\ p.payload \in N /\ p.msg \in M
  <2> HIDE DEF W, M, N
  <2>1. QED
    BY <1>2, <1>3, Zenon
<1>5. W \subseteq Nat
  OBVIOUS
<1>6. QED
  <2> HIDE DEF W, M, N
  <2>1. p.udp \in Nat
    BY <1>4, <1>5, Zenon
  <2>2. QED
    BY <1>1, <1>4, <2>1, Zenon DEF M, N

\* The answers of a message are laid out records, its name one of the model's.
LEMMA AnswersTyped ==
    ASSUME NEW p \in Packets
    PROVE  /\ p.msg.name \in Names /\ LaidOut(p.msg)
           /\ Len(p.msg.answers) \in Nat
           /\ DOMAIN p.msg.answers = 1..Len(p.msg.answers)
           /\ \A i \in DOMAIN p.msg.answers :
                  p.msg.answers[i].data \in Nat /\ p.msg.answers[i].length \in Nat
<1> DEFINE R == Record
           Q == Seq(R)
           N == Nat
           K == {"A", "AAAA", "other"}
<1>1. p.msg \in Message
  BY PacketTyped, Zenon
<1>2. Message = [response : BOOLEAN, question : BOOLEAN, name : Names,
                 answers : Q]
  BY Zenon DEF Message
<1>3. p.msg.name \in Names /\ p.msg.answers \in Q
  <2> HIDE DEF Q
  <2>1. QED
    BY <1>1, <1>2, Zenon
<1>4. /\ Len(p.msg.answers) \in Nat
      /\ DOMAIN p.msg.answers = 1..Len(p.msg.answers)
      /\ \A i \in DOMAIN p.msg.answers : p.msg.answers[i] \in R
  <2> HIDE DEF R
  <2>1. QED
    BY <1>3
<1>5. R = [type : K, data : N, length : N]
  BY Zenon DEF Record
<1>6. \A r \in R : r.data \in N /\ r.length \in N
  <2> HIDE DEF R, K, N
  <2>1. QED
    BY <1>5, Zenon
<1>7. LaidOut(p.msg)
  BY CaptureAssumption, Zenon
<1>8. QED
  <2> HIDE DEF R
  <2>1. QED
    BY <1>3, <1>4, <1>6, <1>7, Zenon

\* Where answers begin and end, and that they are in order.
LEMMA EndsInOrder ==
    ASSUME NEW p \in Packets
    PROVE  LET m == p.msg
               L == Len(m.answers) IN
           /\ \A i \in 0..L : EndOf(m, i) \in Nat /\ EndOf(m, i) >= 28
           /\ \A i \in 1..L :
                  /\ m.answers[i].data = EndOf(m, i - 1) + 12
                  /\ EndOf(m, i) = m.answers[i].data + m.answers[i].length
                  /\ \A j \in 0..(i - 1) : EndOf(m, j) + 12 <= EndOf(m, i)
<1> DEFINE m == p.msg
           L == Len(m.answers)
           D(i) == m.answers[i].data
           Q(i) == m.answers[i].length
           E(i) == EndOf(m, i)
<1>1. L \in Nat /\ DOMAIN m.answers = 1..L
  BY AnswersTyped, Zenon
<1>2. \A i \in 1..L : D(i) \in Nat /\ Q(i) \in Nat
  BY AnswersTyped, <1>1, Zenon
<1>3. \A i \in 1..L : i # 0 /\ i - 1 \in 0..(i - 1) /\ 0 \in 0..(i - 1)
  BY <1>1
<1>4. E(0) = 28 /\ \A i \in 1..L : E(i) = D(i) + Q(i)
  <2>1. E(0) = 28
    BY DEF EndOf, DnsHeader, QuestionLen
  <2>2. QED
    BY <2>1, <1>3, Zenon DEF EndOf
<1>5. \A i \in 1..L : /\ D(i) = E(i - 1) + 12
                      /\ \A j \in 0..(i - 1) : E(j) + 12 <= D(i)
  <2>1. LaidOut(m)
    BY AnswersTyped, Zenon
  <2>2. QED
    BY <2>1, <1>1, Zenon DEF LaidOut, ResourceHeader
<1>6. \A i \in 0..L : E(i) \in Nat /\ E(i) >= 28
  <2> SUFFICES ASSUME NEW i \in 0..L PROVE E(i) \in Nat /\ E(i) >= 28
    OBVIOUS
  <2>1. CASE i = 0
    <3> HIDE DEF E
    <3>1. QED
      BY <2>1, <1>4
  <2>2. CASE i # 0
    <3>1. i \in 1..L
      <4> HIDE DEF L
      <4>1. QED
        BY <2>2, <1>1
    <3>2. E(i) = D(i) + Q(i) /\ D(i) \in Nat /\ Q(i) \in Nat /\ E(0) + 12 <= D(i)
      BY <3>1, <1>2, <1>3, <1>4, <1>5, Zenon
    <3> HIDE DEF E, D, Q
    <3>3. QED
      BY <3>2, <1>4
  <2>3. QED
    BY <2>1, <2>2, Zenon
<1>7. \A i \in 1..L : \A j \in 0..(i - 1) : E(j) + 12 <= E(i)
  <2> SUFFICES ASSUME NEW i \in 1..L, NEW j \in 0..(i - 1) PROVE E(j) + 12 <= E(i)
    BY Zenon
  <2>1. j \in 0..L
    <3> HIDE DEF L
    <3>1. QED
      BY <1>1
  <2>2. /\ E(i) = D(i) + Q(i) /\ D(i) \in Nat /\ Q(i) \in Nat
        /\ E(j) + 12 <= D(i) /\ E(j) \in Nat
    BY <2>1, <1>2, <1>4, <1>5, <1>6, Zenon
  <2> HIDE DEF E, D, Q
  <2>3. QED
    BY <2>2
<1>8. QED
  BY <1>4, <1>5, <1>6, <1>7, Zenon

\* The length the filter computes fits the record it is copied into, and is no
\* more than the packet has, whatever the UDP header claims (dns.c:65 and 89).
LEMMA MaskedFits ==
    ASSUME NEW p \in Packets, Captured(p)
    PROVE  Masked(p) \in 1..(DNS_MAX_LEN - 1) /\ Masked(p) <= p.payload
<1>1. p.udp \in Nat /\ p.udp > 8
  BY PacketTyped DEF Captured
<1>2. p.udp - 8 \in Nat
  BY <1>1
<1>3. Masked(p) \in 0..(DNS_MAX_LEN - 1)
  BY <1>2 DEF Masked, DNS_MAX_LEN
<1>4. Masked(p) <= p.payload
  <2>1. p.ihl \in Nat /\ p.payload \in Nat
    BY PacketTyped
  <2>2. Masked(p) \in Nat
    BY <1>3 DEF DNS_MAX_LEN
  <2>3. ETH_HLEN + p.ihl + 8 + Masked(p) <= ETH_HLEN + p.ihl + 8 + p.payload
    BY DEF Captured, Loadable, SkbLen
  <2>4. QED
    BY <2>1, <2>2, <2>3 DEF ETH_HLEN
<1>5. QED
  BY <1>3, <1>4 DEF Captured, DNS_MAX_LEN

\* A short well-formed response passes every check of the filter, with the
\* length of its payload, and has a result (dns.c:27-95).
LEMMA ValidPasses ==
    ASSUME NEW p \in Packets, ValidResponse(p), p.payload < DNS_MAX_LEN
    PROVE  /\ Captured(p) /\ Masked(p) = p.payload
           /\ HasResult(p.msg, p.payload)
<1>1. p.ihl \in 0..60 /\ p.payload \in Nat /\ p.udp \in Nat
  BY PacketTyped
<1>2. p.ihl \in 20..60
  <2>1. p.ihl >= 20
    BY DEF ValidResponse
  <2>2. QED
    BY <1>1, <2>1
<1>3. p.payload >= DnsHeader + QuestionLen
  <2> DEFINE L == Len(p.msg.answers)
  <2>1. L \in 0..L
    BY AnswersTyped
  <2>2. EndOf(p.msg, L) >= 28
    BY <2>1, EndsInOrder, Zenon
  <2>3. QED
    BY <2>2 DEF ValidResponse, DnsHeader, QuestionLen
<1>4. p.payload >= 28 /\ p.payload < 512
  BY <1>1, <1>3 DEF DnsHeader, QuestionLen, DNS_MAX_LEN
<1>5. p.udp - 8 = p.payload
  BY <1>1 DEF ValidResponse
<1>6. Masked(p) = p.payload
  BY <1>1, <1>4, <1>5 DEF Masked, DNS_MAX_LEN
<1>7. SkbLen(p) >= ETH_HLEN + 20 + 8 /\ Loadable(p, Masked(p))
  BY <1>1, <1>2, <1>6 DEF SkbLen, Loadable, ETH_HLEN
<1>8. p.udpProto /\ p.from53 /\ p.udp > 8
  BY <1>1, <1>4, <1>5 DEF ValidResponse
<1>9. Captured(p)
  BY <1>2, <1>4, <1>6, <1>7, <1>8 DEF Captured
<1>10. HasResult(p.msg, p.payload)
  BY <1>3 DEF HasResult, ValidResponse
<1>11. QED
  BY <1>6, <1>9, <1>10

-----------------------------------------------------------------------------
(* The walk through the answers. *)

\* What the parser takes for an address is what the property calls one.
IsAddress(r) == (r.type = "A" /\ r.length = 4) \/ (r.type = "AAAA" /\ r.length = 16)

\* The fixed lengths are those of the two types (dns_parse.go:157 and 165).
LEMMA HoldsIsAddress ==
    ASSUME NEW r
    PROVE  /\ HoldsAddress(r) <=> IsAddress(r)
           /\ HoldsAddress(r) => Bytes[r.type] = r.length
<1>1. DOMAIN Bytes = {"A", "AAAA"} /\ Bytes["A"] = 4 /\ Bytes["AAAA"] = 16
  BY DEF Bytes
<1>2. QED
  BY <1>1 DEF HoldsAddress, IsAddress

Window(m, i) == [from |-> m.answers[i].data, size |-> m.answers[i].length]

\* The addresses among the first k - 1 answers.
Passed(m, k) ==
    {Window(m, i) : i \in {j \in DOMAIN m.answers : IsAddress(m.answers[j]) /\ j < k}}

\* One more answer passed.
LEMMA PassOne ==
    ASSUME NEW p \in Packets, NEW k \in DOMAIN p.msg.answers
    PROVE  Passed(p.msg, k + 1) =
               Passed(p.msg, k) \cup
               (IF IsAddress(p.msg.answers[k]) THEN {Window(p.msg, k)} ELSE {})
<1> DEFINE m == p.msg
           I(j) == IsAddress(m.answers[j])
<1>1. \A j \in DOMAIN m.answers : j < k + 1 <=> (j < k \/ j = k)
  <2>1. DOMAIN m.answers = 1..Len(m.answers) /\ Len(m.answers) \in Nat
    BY AnswersTyped, Zenon
  <2>2. \A j, i \in Nat : j < i + 1 <=> (j < i \/ j = i)
    OBVIOUS
  <2>3. 1..Len(m.answers) \subseteq Nat
    BY <2>1
  <2>4. QED
    BY <2>1, <2>2, <2>3, Zenon
<1> HIDE DEF I
<1>2. \A x : x \in Passed(m, k + 1) <=>
             \E j \in DOMAIN m.answers : I(j) /\ j < k + 1 /\ x = Window(m, j)
  BY Zenon DEF Passed, I
<1>3. \A x : x \in Passed(m, k) <=>
             \E j \in DOMAIN m.answers : I(j) /\ j < k /\ x = Window(m, j)
  BY Zenon DEF Passed, I
<1>4. CASE I(k)
  <2>1. \A x : x \in Passed(m, k + 1) <=> x \in Passed(m, k) \/ x = Window(m, k)
    BY <1>1, <1>2, <1>3, <1>4, Zenon
  <2>2. Passed(m, k + 1) = Passed(m, k) \cup {Window(m, k)}
    BY <2>1, Zenon
  <2>3. QED
    BY <1>4, <2>2, Zenon DEF I
<1>5. CASE ~I(k)
  <2>1. \A x : x \in Passed(m, k + 1) <=> x \in Passed(m, k)
    BY <1>1, <1>2, <1>3, <1>5, Zenon
  <2>2. Passed(m, k + 1) = Passed(m, k) \cup {}
    BY <2>1, Zenon
  <2>3. QED
    BY <1>5, <2>2, Zenon DEF I
<1>6. QED
  BY <1>4, <1>5, Zenon

\* When the answers before k end inside the copy and no address from k on does,
\* those passed are all that there are.
LEMMA NoneLeft ==
    ASSUME NEW p \in Packets, NEW n, NEW k \in Nat,
           \A j \in DOMAIN p.msg.answers : j < k => EndOf(p.msg, j) <= n,
           \A j \in DOMAIN p.msg.answers :
               IsAddress(p.msg.answers[j]) /\ ~(j < k) => ~(EndOf(p.msg, j) <= n)
    PROVE  Passed(p.msg, k) = AddressData(p.msg, n)
<1> DEFINE m == p.msg
<1>1. \A x : x \in Passed(m, k) <=>
             \E j \in DOMAIN m.answers :
                 IsAddress(m.answers[j]) /\ j < k /\ x = Window(m, j)
  BY Zenon DEF Passed
<1>2. \A x : x \in AddressData(m, n) <=>
             \E j \in DOMAIN m.answers :
                 IsAddress(m.answers[j]) /\ EndOf(m, j) <= n /\ x = Window(m, j)
  BY Zenon DEF AddressData, IsAddress, Window
<1>3. \A x : x \in Passed(m, k) <=> x \in AddressData(m, n)
  BY <1>1, <1>2, Zenon
<1>4. QED
  BY <1>3, Zenon

-----------------------------------------------------------------------------
(* The inductive invariant. *)

\* A record in the ring buffer is a captured packet and its masked length.
Held(rec, crossed) ==
    /\ rec.pkt \in crossed /\ Captured(rec.pkt)
    /\ rec.len = Masked(rec.pkt)

RingOK ==
    /\ ring \in Seq([pkt : Packets, len : 1..(DNS_MAX_LEN - 1)])
    /\ Len(ring) <= RingCap
    /\ \A i \in DOMAIN ring : Held(ring[i], offered)

Windows == [from : Nat, size : Nat]

Jobs == [pkt : Packets, len : 1..(DNS_MAX_LEN - 1), next : Nat, off : Nat,
         reads : SUBSET Windows]

\* The parser stands at the start of an answer, or behind the last one, with
\* every answer before it inside the copy and its address taken.
Walked(j) ==
    LET m == j.pkt.msg IN
    /\ HasResult(m, j.len)
    /\ j.next \in 1..(Len(m.answers) + 1)
    /\ j.off = EndOf(m, j.next - 1)
    /\ j.reads = Passed(m, j.next)
    /\ \A i \in DOMAIN m.answers : i < j.next => EndOf(m, i) <= j.len

JobOK == job # NoJob => job \in Jobs /\ Held(job, offered) /\ Walked(job)

LearnedOK ==
    \A r \in learned : r.pkt \in offered /\ r.domain \in Names

IInv ==
    /\ offered \subseteq Packets
    /\ RingOK /\ JobOK /\ LearnedOK
    /\ Attributed /\ ShortResponsesLearned

\* Before a packet crosses there is nothing to be wrong about.
LEMMA Initially == Init => IInv
BY CaptureAssumption
   DEF Init, IInv, RingOK, JobOK, LearnedOK, Attributed, ShortResponsesLearned

\* Appending what capture_dns reserved and submitted.
LEMMA ArriveStep == ASSUME IInv, NEW p \in Packets, Arrive(p) PROVE IInv'
<1> USE DEF IInv
<1> DEFINE S   == [pkt : Packets, len : 1..(DNS_MAX_LEN - 1)]
           rec == [pkt |-> p, len |-> Masked(p)]
<1>1. ring \in Seq(S) /\ Len(ring) <= RingCap
  BY DEF RingOK
<1>2. RingCap \in Nat
  BY CaptureAssumption
<1>3. offered \subseteq offered' /\ offered' \subseteq Packets
  BY DEF Arrive
<1>4. Len(ring) < RingCap => p \in offered'
  BY DEF Arrive
<1>5. learned' = learned /\ job' = job
  BY DEF Arrive
<1>6. RingOK' /\ (\A i \in DOMAIN ring : i \in DOMAIN ring' /\ ring'[i] = ring[i])
  <2>1. CASE Captured(p) /\ Len(ring) < RingCap
    <3>1. ring' = Append(ring, rec)
      BY <2>1 DEF Arrive
    <3>2. rec \in S
      BY <2>1, MaskedFits
    <3>3. /\ ring' \in Seq(S) /\ Len(ring') = Len(ring) + 1
          /\ DOMAIN ring' = 1..Len(ring) + 1
          /\ \A i \in 1..Len(ring) : ring'[i] = ring[i]
          /\ ring'[Len(ring) + 1] = rec
      <4> HIDE DEF S, rec
      <4>1. QED
        BY <1>1, <3>1, <3>2
    <3>4. DOMAIN ring = 1..Len(ring) /\ Len(ring) \in Nat
      BY <1>1
    <3>5. \A i \in DOMAIN ring' : Held(ring'[i], offered')
      <4> SUFFICES ASSUME NEW i \in DOMAIN ring' PROVE Held(ring'[i], offered')
        OBVIOUS
      <4>1. CASE i \in DOMAIN ring
        BY <4>1, <1>3, <3>3, <3>4 DEF RingOK, Held
      <4>2. CASE i = Len(ring) + 1
        BY <4>2, <1>4, <2>1, <3>3 DEF Held
      <4>3. QED
        BY <4>1, <4>2, <3>3, <3>4
    <3>6. QED
      BY <1>1, <1>2, <2>1, <3>3, <3>4, <3>5 DEF RingOK
  <2>2. CASE ~(Captured(p) /\ Len(ring) < RingCap)
    <3>1. ring' = ring
      BY <2>2 DEF Arrive
    <3>2. QED
      BY <1>3, <3>1 DEF RingOK, Held
  <2>3. QED
    BY <2>1, <2>2
<1>7. JobOK' /\ LearnedOK'
  BY <1>3, <1>5 DEF LearnedOK, JobOK, Held
<1>8. Attributed'
  BY <1>5 DEF Attributed
<1>9. ShortResponsesLearned'
  <2> SUFFICES ASSUME NEW q \in offered', ValidResponse(q),
                      q.payload < DNS_MAX_LEN
               PROVE  Kept(q)'
    BY DEF ShortResponsesLearned
  <2>1. CASE q \in offered
    <3>1. Kept(q)
      BY <2>1 DEF ShortResponsesLearned
    <3>2. QED
      BY <3>1, <1>5, <1>6, Zenon DEF Kept
  <2>2. CASE q \notin offered
    <3>1. q = p /\ Len(ring) < RingCap
      BY <2>2 DEF Arrive
    <3>2. Captured(p)
      BY <3>1, ValidPasses
    <3>3. ring' = Append(ring, rec)
      BY <3>1, <3>2 DEF Arrive
    <3>4. Len(ring) + 1 \in DOMAIN ring' /\ ring'[Len(ring) + 1] = rec
      <4> HIDE DEF S, rec
      <4>1. QED
        BY <1>1, <3>3
    <3>5. QED
      BY <3>1, <3>4 DEF Kept
  <2>3. QED
    BY <2>1, <2>2
<1>10. QED
  BY <1>3, <1>6, <1>7, <1>8, <1>9

\* A record of the job's shape is none of the waiting goroutine's.
LEMMA JobsAreJobs ==
    ASSUME NEW j \in Jobs
    PROVE  /\ j # NoJob /\ j.pkt \in Packets
           /\ j.len \in 1..(DNS_MAX_LEN - 1) /\ j.next \in Nat /\ j.off \in Nat
           /\ j.reads \subseteq Windows
<1> DEFINE L == 1..(DNS_MAX_LEN - 1)
           N == Nat
           P == SUBSET Windows
<1>1. Jobs = [pkt : Packets, len : L, next : N, off : N, reads : P]
  BY Zenon DEF Jobs
<1>2. j.pkt \in Packets /\ j.len \in L /\ j.next \in N /\ j.off \in N /\ j.reads \in P
  <2> HIDE DEF L, N, P
  <2>1. QED
    BY <1>1, Zenon
<1>3. j.len # 0
  BY <1>2 DEF DNS_MAX_LEN
<1>4. NoJob.len = 0
  BY DEF NoJob
<1>5. QED
  BY <1>2, <1>3, <1>4, Zenon

\* The record of the job of a record just taken.
LEMMA TakenJob ==
    ASSUME NEW p \in Packets, NEW n \in 1..(DNS_MAX_LEN - 1), HasResult(p.msg, n)
    PROVE  LET j == [pkt |-> p, len |-> n, next |-> 1,
                     off |-> DnsHeader + QuestionLen, reads |-> {}] IN
           j \in Jobs /\ Walked(j)
<1> DEFINE j == [pkt |-> p, len |-> n, next |-> 1,
                 off |-> DnsHeader + QuestionLen, reads |-> {}]
           m == p.msg
<1>1. DnsHeader + QuestionLen \in Nat /\ 1 \in Nat /\ {} \in SUBSET Windows
  BY DEF DnsHeader, QuestionLen
<1>2. j \in Jobs
  <2> DEFINE o == DnsHeader + QuestionLen
             L == 1..(DNS_MAX_LEN - 1)
             N == Nat
  <2> HIDE DEF o, L, N
  <2>1. n \in L /\ o \in N /\ 1 \in N
    BY <1>1, Zenon DEF o, L, N
  <2>2. [pkt |-> p, len |-> n, next |-> 1, off |-> o, reads |-> {}] \in
            [pkt : Packets, len : L, next : N, off : N, reads : SUBSET Windows]
    BY <2>1, <1>1, Zenon
  <2>3. QED
    BY <2>2, Zenon DEF Jobs, o, L, N
<1>3. Walked(j)
  <2>1. Len(m.answers) \in Nat /\ DOMAIN m.answers = 1..Len(m.answers)
    BY AnswersTyped, Zenon
  <2>2. 1 \in 1..(Len(m.answers) + 1) /\ \A i \in DOMAIN m.answers : ~(i < 1)
    BY <2>1
  <2>3. EndOf(m, 1 - 1) = DnsHeader + QuestionLen
    BY DEF EndOf
  <2>4. Passed(m, 1) = {}
    BY <2>2, Zenon DEF Passed
  <2>5. /\ j.pkt = p /\ j.len = n /\ j.next = 1 /\ j.off = DnsHeader + QuestionLen
        /\ j.reads = {}
    BY Zenon
  <2> HIDE DEF j
  <2>6. QED
    BY <2>2, <2>3, <2>4, <2>5, Zenon DEF Walked
<1>4. QED
  BY <1>2, <1>3, Zenon

\* A record taken from the ring: parsed from the first answer on, or dropped.
LEMMA TakeStep == ASSUME IInv, Take PROVE IInv'
<1> USE DEF IInv
<1> DEFINE S   == [pkt : Packets, len : 1..(DNS_MAX_LEN - 1)]
           rec == Head(ring)
           new == [pkt |-> rec.pkt, len |-> rec.len, next |-> 1,
                   off |-> DnsHeader + QuestionLen, reads |-> {}]
<1>1. ring \in Seq(S) /\ Len(ring) <= RingCap
  BY DEF RingOK
<1>2. /\ offered' = offered /\ learned' = learned /\ ring' = Tail(ring)
      /\ ring # <<>> /\ job = NoJob
  BY DEF Take
<1>3. /\ ring' \in Seq(S) /\ Len(ring') = Len(ring) - 1 /\ Len(ring) \in Nat
      /\ DOMAIN ring' = 1..(Len(ring) - 1) /\ DOMAIN ring = 1..Len(ring)
      /\ \A i \in 1..(Len(ring) - 1) : ring'[i] = ring[i + 1]
      /\ rec \in S /\ rec = ring[1] /\ 1 \in DOMAIN ring
  <2> HIDE DEF S
  <2>1. QED
    BY <1>1, <1>2
<1>4. RingOK'
  <2>1. \A i \in DOMAIN ring' : Held(ring'[i], offered')
    BY <1>2, <1>3 DEF RingOK, Held
  <2>2. QED
    BY <1>1, <1>3, <2>1, CaptureAssumption DEF RingOK
<1>5. /\ rec.pkt \in Packets /\ rec.len \in 1..(DNS_MAX_LEN - 1)
      /\ rec.len \in 1..DNS_MAX_LEN /\ Held(rec, offered)
  <2>1. Held(rec, offered)
    BY <1>3 DEF RingOK
  <2>2. rec.pkt \in Packets /\ rec.len \in 1..(DNS_MAX_LEN - 1)
    BY <1>3
  <2>3. QED
    BY <2>1, <2>2 DEF DNS_MAX_LEN
<1>6. job' = IF HasResult(rec.pkt.msg, rec.len) THEN new ELSE NoJob
  BY <1>5 DEF Take
<1>7. new.pkt = rec.pkt /\ new.len = rec.len
  BY Zenon
<1>8. JobOK'
  <2>1. CASE HasResult(rec.pkt.msg, rec.len)
    <3>1. new \in Jobs /\ Walked(new)
      BY <1>5, <2>1, TakenJob, Zenon
    <3>2. Held(new, offered)
      BY <1>5, <1>7, Zenon DEF Held
    <3>3. job' = new
      BY <1>6, <2>1, Zenon
    <3> HIDE DEF new
    <3>4. QED
      BY <3>1, <3>2, <3>3, <1>2, Zenon DEF JobOK
  <2>2. CASE ~HasResult(rec.pkt.msg, rec.len)
    BY <1>6, <2>2, Zenon DEF JobOK
  <2>3. QED
    BY <2>1, <2>2, Zenon
<1>9. LearnedOK' /\ Attributed'
  BY <1>2, Zenon DEF LearnedOK, Attributed
<1>10. ShortResponsesLearned'
  <2> SUFFICES ASSUME NEW q \in offered, ValidResponse(q),
                      q.payload < DNS_MAX_LEN
               PROVE  Kept(q)'
    BY <1>2, Zenon DEF ShortResponsesLearned
  <2>1. Kept(q)
    BY DEF ShortResponsesLearned
  <2>2. CASE \E r \in learned : r.pkt = q /\ r.reads = AddressData(q.msg, q.payload)
    BY <1>2, <2>2, Zenon DEF Kept
  <2>3. CASE \E i \in DOMAIN ring : ring[i].pkt = q
    <3>1. PICK i \in DOMAIN ring : ring[i].pkt = q
      BY <2>3
    <3>2. CASE i = 1
      <4>1. rec.pkt = q /\ rec.len = Masked(q)
        BY <1>3, <1>5, <3>1, <3>2 DEF Held
      <4>2. Masked(q) = q.payload /\ HasResult(q.msg, q.payload)
        BY ValidPasses
      <4>3. job' = new /\ HasResult(rec.pkt.msg, rec.len)
        BY <1>6, <4>1, <4>2, Zenon
      <4>4. new \in Jobs
        BY <1>5, <4>3, TakenJob, Zenon
      <4> HIDE DEF new
      <4>5. QED
        BY <1>7, <4>1, <4>3, <4>4, JobsAreJobs, Zenon DEF Kept
    <3>3. CASE i # 1
      <4> DEFINE L == Len(ring)
      <4>1. /\ i \in 1..L /\ L \in Nat /\ DOMAIN ring' = 1..(L - 1)
            /\ \A k \in 1..(L - 1) : ring'[k] = ring[k + 1]
        BY <1>3, Zenon
      <4>2. i - 1 \in 1..(L - 1) /\ (i - 1) + 1 = i
        <5> HIDE DEF L
        <5>1. QED
          BY <3>3, <4>1
      <4>3. i - 1 \in DOMAIN ring' /\ ring'[i - 1] = ring[i]
        BY <4>1, <4>2, Zenon
      <4>4. QED
        BY <3>1, <4>3, Zenon DEF Kept
    <3>4. QED
      BY <3>2, <3>3
  <2>4. QED
    BY <1>2, <2>1, <2>2, <2>3, Zenon DEF Kept
<1>11. QED
  BY <1>2, <1>4, <1>8, <1>9, <1>10

\* What the header at the parser's offset belongs to.
LEMMA AtAnswer ==
    ASSUME IInv, AnswerHeader
    PROVE  LET m == job.pkt.msg
               k == job.next IN
           /\ job \in Jobs /\ Held(job, offered) /\ Walked(job)
           /\ job.pkt \in Packets /\ k \in DOMAIN m.answers /\ Answer = m.answers[k]
           /\ k \in 1..Len(m.answers) /\ job.len \in Nat /\ job.off \in Nat
           /\ Answer.length \in Nat
           /\ Answer.data = job.off + ResourceHeader
           /\ EndOf(m, k) = job.off + ResourceHeader + Answer.length
<1> DEFINE m == job.pkt.msg
           k == job.next
<1>1. job \in Jobs /\ Held(job, offered) /\ Walked(job)
  BY Zenon DEF IInv, JobOK, AnswerHeader
<1>2. job.pkt \in Packets /\ job.len \in 1..(DNS_MAX_LEN - 1) /\ job.off \in Nat
  BY <1>1, JobsAreJobs, Zenon
<1>3. k \in DOMAIN m.answers /\ Answer = m.answers[k]
  BY Zenon DEF AnswerHeader, Answer
<1>4. k \in 1..Len(m.answers) /\ Answer.length \in Nat
  BY <1>2, <1>3, AnswersTyped, Zenon
<1>5. /\ Answer.data = EndOf(m, k - 1) + 12
      /\ EndOf(m, k) = Answer.data + Answer.length
  BY <1>2, <1>3, <1>4, EndsInOrder, Zenon
<1>6. job.off = EndOf(m, k - 1)
  BY <1>1, Zenon DEF Walked
<1>7. Answer.data = job.off + ResourceHeader
  BY <1>5, <1>6, Zenon DEF ResourceHeader
<1>8. EndOf(m, k) = job.off + ResourceHeader + Answer.length
  BY <1>5, <1>7, Zenon
<1>9. job.len \in Nat
  BY <1>2 DEF DNS_MAX_LEN
<1>10. QED
  BY <1>1, <1>2, <1>3, <1>4, <1>7, <1>8, <1>9, Zenon

\* Past an answer that lies inside the copy, with what was read of it.
LEMMA AdvanceStep ==
    ASSUME IInv, AnswerHeader, NEW reads, Advance(reads),
           Fits(Answer.length),
           reads = IF IsAddress(Answer) THEN {Window(job.pkt.msg, job.next)} ELSE {},
           reads \subseteq Windows
    PROVE  IInv'
<1> USE DEF IInv
<1> DEFINE m == job.pkt.msg
           k == job.next
           o == job.off + ResourceHeader + Answer.length
           new == [job EXCEPT !.off = o, !.next = k + 1, !.reads = job.reads \cup reads]
<1>1. /\ job' = new /\ ring' = ring /\ learned' = learned /\ offered' = offered
      /\ job # NoJob
  BY Zenon DEF Advance, AnswerHeader
<1>2. /\ job \in Jobs /\ Held(job, offered) /\ Walked(job) /\ job.pkt \in Packets
      /\ k \in DOMAIN m.answers /\ Answer = m.answers[k] /\ k \in 1..Len(m.answers)
      /\ job.len \in Nat /\ job.off \in Nat /\ Answer.length \in Nat
      /\ EndOf(m, k) = o
  BY AtAnswer, Zenon
<1>3. o \in Nat /\ k + 1 \in Nat /\ k \in Nat /\ o <= job.len
  <2>1. o <= job.len /\ ResourceHeader \in Nat
    BY DEF Fits, ResourceHeader
  <2>2. o \in Nat
    <3>1. \A x, y, z \in Nat : x + y + z \in Nat
      OBVIOUS
    <3>2. QED
      BY <1>2, <2>1, <3>1, Zenon
  <2>3. k + 1 \in Nat /\ k \in Nat
    <3>1. \A j, l : j \in 1..l => j \in Nat /\ j + 1 \in Nat
      OBVIOUS
    <3>2. QED
      BY <1>2, <3>1, Zenon
  <2>4. QED
    BY <2>1, <2>2, <2>3, Zenon
<1>4. job.reads \cup reads \in SUBSET Windows
  BY <1>2, JobsAreJobs, Zenon
<1>5. /\ new \in Jobs /\ new.pkt = job.pkt /\ new.len = job.len
      /\ new.off = o /\ new.next = k + 1 /\ new.reads = job.reads \cup reads
  <2> DEFINE L == 1..(DNS_MAX_LEN - 1)
             N == Nat
             P == SUBSET Windows
             u == job.reads \cup reads
             k1 == k + 1
  <2>1. o \in N /\ k1 \in N /\ u \in P
    BY <1>3, <1>4, Zenon
  <2> HIDE DEF o, k1, u, L, N, P
  <2>2. job \in [pkt : Packets, len : L, next : N, off : N, reads : P]
    BY <1>2, Zenon DEF Jobs, L, N, P
  <2>3. LET n == [job EXCEPT !.off = o, !.next = k1, !.reads = u] IN
        /\ n \in [pkt : Packets, len : L, next : N, off : N, reads : P]
        /\ n.pkt = job.pkt /\ n.len = job.len /\ n.off = o /\ n.next = k1
        /\ n.reads = u
    BY <2>1, <2>2
  <2>4. QED
    BY <2>3, Zenon DEF Jobs, L, N, P, u, k1
<1> HIDE DEF new
<1>6. Walked(new)
  <2>1. HasResult(m, job.len) /\ job.reads = Passed(m, k)
    BY <1>2, Zenon DEF Walked
  <2>2. k + 1 \in 1..(Len(m.answers) + 1) /\ (k + 1) - 1 = k
    <3>1. Len(m.answers) \in Nat
      BY <1>2, AnswersTyped, Zenon
    <3>2. QED
      BY <1>2, <3>1
  <2>3. Passed(m, k + 1) = job.reads \cup reads
    BY <1>2, <2>1, PassOne, Zenon
  <2>4. \A i \in DOMAIN m.answers : i < k + 1 => EndOf(m, i) <= job.len
    <3> SUFFICES ASSUME NEW i \in DOMAIN m.answers, i < k + 1
                 PROVE  EndOf(m, i) <= job.len
      BY Zenon
    <3>1. CASE i < k
      BY <3>1, <1>2, Zenon DEF Walked
    <3>2. CASE i = k
      BY <3>2, <1>2, <1>3, Zenon
    <3>3. i \in Nat
      <4>1. DOMAIN m.answers = 1..Len(m.answers)
        BY <1>2, AnswersTyped, Zenon
      <4>2. QED
        BY <4>1
    <3>4. i < k \/ i = k
      BY <3>3, <1>3
    <3>5. QED
      BY <3>1, <3>2, <3>4, Zenon
  <2>5. EndOf(m, (k + 1) - 1) = o
    BY <1>2, <2>2, Zenon
  <2>6. QED
    BY <1>5, <2>1, <2>2, <2>3, <2>4, <2>5, Zenon DEF Walked
<1>7. Held(new, offered)
  BY <1>2, <1>5, Zenon DEF Held
<1>8. JobOK'
  BY <1>1, <1>5, <1>6, <1>7, Zenon DEF JobOK
<1>9. RingOK' /\ LearnedOK' /\ Attributed' /\ offered' \subseteq Packets
  BY <1>1, Zenon DEF RingOK, LearnedOK, Attributed
<1>10. ShortResponsesLearned'
  <2> SUFFICES ASSUME NEW q \in offered, ValidResponse(q),
                      q.payload < DNS_MAX_LEN
               PROVE  Kept(q)'
    BY <1>1, Zenon DEF ShortResponsesLearned
  <2>1. Kept(q)
    BY Zenon DEF ShortResponsesLearned
  <2>2. job' # NoJob /\ job'.pkt = job.pkt
    BY <1>1, <1>5, JobsAreJobs, Zenon
  <2>3. QED
    BY <1>1, <2>1, <2>2, Zenon DEF Kept
<1>11. QED
  BY <1>8, <1>9, <1>10, Zenon

\* The bytes that AResource or AAAAResource reads are those of the record.
LEMMA ParseAddressStep == ASSUME IInv, ParseAddress PROVE IInv'
<1> DEFINE b == Bytes[Answer.type]
           w == [from |-> job.off + ResourceHeader, size |-> b]
<1>1. AnswerHeader /\ HoldsAddress(Answer) /\ Fits(b) /\ Advance({w})
  BY Zenon DEF ParseAddress
<1>2. IsAddress(Answer) /\ b = Answer.length
  BY <1>1, HoldsIsAddress, Zenon
<1>3. /\ Answer = job.pkt.msg.answers[job.next]
      /\ Answer.data = job.off + ResourceHeader
      /\ Answer.length \in Nat /\ job.off \in Nat
  BY <1>1, AtAnswer, Zenon
<1>4. w = Window(job.pkt.msg, job.next)
  BY <1>2, <1>3, Zenon DEF Window
<1>5. {w} \subseteq Windows
  <2>1. job.off + ResourceHeader \in Nat /\ b \in Nat
    BY <1>2, <1>3 DEF ResourceHeader
  <2> HIDE DEF b
  <2>2. QED
    BY <2>1 DEF Windows
<1>6. Fits(Answer.length)
  BY <1>1, <1>2, Zenon
<1> HIDE DEF w, b
<1>7. {w} = IF IsAddress(Answer) THEN {Window(job.pkt.msg, job.next)} ELSE {}
  BY <1>2, <1>4, Zenon
<1>8. QED
  BY <1>1, <1>5, <1>6, <1>7, AdvanceStep, Zenon

\* What is skipped is no address.
LEMMA SkipAnswerStep == ASSUME IInv, SkipAnswer PROVE IInv'
<1>1. AnswerHeader /\ ~HoldsAddress(Answer) /\ Fits(Answer.length) /\ Advance({})
  BY Zenon DEF SkipAnswer
<1>2. ~IsAddress(Answer)
  BY <1>1, HoldsIsAddress, Zenon
<1>3. QED
  BY <1>1, <1>2, AdvanceStep, Zenon

\* Where the parser gives up, no address that is whole lies behind.
LEMMA NothingBehind ==
    ASSUME IInv, Return, NEW i \in DOMAIN job.pkt.msg.answers,
           IsAddress(job.pkt.msg.answers[i]), ~(i < job.next)
    PROVE  ~(EndOf(job.pkt.msg, i) <= job.len)
<1> DEFINE m == job.pkt.msg
           k == job.next
           L == Len(m.answers)
           E(j) == EndOf(m, j)
<1>1. /\ job \in Jobs /\ Walked(job) /\ job.pkt \in Packets /\ job.off \in Nat
      /\ job.len \in 1..(DNS_MAX_LEN - 1) /\ k \in Nat /\ job # NoJob
  BY JobsAreJobs, Zenon DEF IInv, JobOK, Return
<1>2. L \in Nat /\ DOMAIN m.answers = 1..L
  BY <1>1, AnswersTyped, Zenon
<1>3. i \in 1..L /\ k \in 1..L /\ k <= i /\ k - 1 \in 0..(i - 1) /\ k - 1 \in 0..L
      /\ i \in 0..L /\ k \in 0..L
  <2>1. k \in 1..(L + 1) /\ i \in 1..L /\ ~(i < k)
    BY <1>1, <1>2, Zenon DEF Walked
  <2> HIDE DEF L, k
  <2>2. QED
    BY <1>2, <2>1
<1>4. job.len \in Nat
  BY <1>1 DEF DNS_MAX_LEN
<1>5. /\ \A j \in 0..L : E(j) \in Nat
      /\ \A j \in 1..L : \A h \in 0..(j - 1) : E(h) + 12 <= E(j)
  BY <1>1, EndsInOrder, Zenon
<1>6. job.off = E(k - 1)
  BY <1>1, Zenon DEF Walked
<1>7. CASE ~AnswerHeader
  <2>1. ~Fits(0)
    BY <1>1, <1>2, <1>3, <1>7, Zenon DEF AnswerHeader
  <2>2. E(k - 1) + 12 <= E(i) /\ E(i) \in Nat
    BY <1>3, <1>5, Zenon
  <2> HIDE DEF E
  <2>3. QED
    BY <1>1, <1>4, <1>6, <2>1, <2>2 DEF Fits, ResourceHeader, E
<1>8. CASE AnswerHeader
  <2>1. /\ Answer = m.answers[k] /\ Answer.length \in Nat
        /\ E(k) = job.off + ResourceHeader + Answer.length
    BY <1>8, AtAnswer, Zenon
  <2>2. ~Fits(Answer.length)
    <3>1. HoldsAddress(Answer) => Bytes[Answer.type] = Answer.length
      BY HoldsIsAddress, Zenon
    <3>2. QED
      BY <1>8, <3>1, Zenon DEF Return
  <2>3. ~(E(k) <= job.len)
    BY <2>1, <2>2, Zenon DEF Fits
  <2>4. E(k) \in Nat /\ E(i) \in Nat
    BY <1>3, <1>5, Zenon
  <2>5. CASE i = k
    BY <2>3, <2>5, Zenon
  <2>6. CASE i # k
    <3>1. k \in 0..(i - 1)
      <4> HIDE DEF L, k
      <4>1. QED
        BY <1>2, <1>3, <2>6
    <3>2. E(k) + 12 <= E(i)
      BY <1>3, <1>5, <3>1, Zenon
    <3> HIDE DEF E
    <3>3. QED
      BY <1>4, <2>3, <2>4, <3>2 DEF E
  <2>7. QED
    BY <2>5, <2>6, Zenon
<1>9. QED
  BY <1>7, <1>8, Zenon

\* parseDNSResponse returns: what was read is all there was to read.
LEMMA ReturnStep == ASSUME IInv, Return PROVE IInv'
<1> USE DEF IInv
<1> DEFINE m == job.pkt.msg
           new == [pkt |-> job.pkt, len |-> job.len, domain |-> m.name,
                   reads |-> job.reads]
<1>1. /\ learned' = learned \cup {new} /\ job' = NoJob
      /\ ring' = ring /\ offered' = offered /\ job # NoJob
  BY Zenon DEF Return
<1>2. job \in Jobs /\ Held(job, offered) /\ Walked(job)
  BY <1>1, Zenon DEF JobOK
<1>3. job.pkt \in Packets /\ job.next \in Nat
  BY <1>2, JobsAreJobs, Zenon
<1>4. /\ new.pkt = job.pkt /\ new.len = job.len /\ new.domain = m.name
      /\ new.reads = job.reads
  BY Zenon
<1> HIDE DEF new
<1>5. job.reads = AddressData(m, job.len)
  <2>1. Passed(m, job.next) = AddressData(m, job.len)
    <3>1. \A j \in DOMAIN m.answers : j < job.next => EndOf(m, j) <= job.len
      BY <1>2, Zenon DEF Walked
    <3>2. \A j \in DOMAIN m.answers :
              IsAddress(m.answers[j]) /\ ~(j < job.next) => ~(EndOf(m, j) <= job.len)
      BY NothingBehind, Zenon
    <3>3. QED
      BY <1>3, <3>1, <3>2, NoneLeft, Zenon
  <2>2. QED
    BY <1>2, <2>1, Zenon DEF Walked
<1>6. LearnedOK'
  <2>1. m.name \in Names
    BY <1>3, AnswersTyped, Zenon
  <2>2. QED
    BY <1>1, <1>2, <1>4, <2>1, Zenon DEF LearnedOK, Held
<1>7. Attributed'
  <2>1. m.response /\ m.question
    BY <1>2, Zenon DEF Walked, HasResult
  <2>2. job.len <= job.pkt.payload
    BY <1>2, <1>3, MaskedFits, Zenon DEF Held
  <2>3. \A r \in learned' : r \in learned \/ r = new
    BY <1>1, Zenon
  <2>4. QED
    BY <1>4, <1>5, <2>1, <2>2, <2>3, Zenon DEF Attributed
<1>8. ShortResponsesLearned'
  <2> SUFFICES ASSUME NEW q \in offered, ValidResponse(q),
                      q.payload < DNS_MAX_LEN
               PROVE  Kept(q)'
    BY <1>1, Zenon DEF ShortResponsesLearned
  <2>1. Kept(q)
    BY Zenon DEF ShortResponsesLearned
  <2>2. learned \subseteq learned' /\ new \in learned'
    BY <1>1, Zenon
  <2>3. CASE job.pkt = q
    <3>1. job.len = q.payload
      <4>1. Masked(q) = q.payload
        BY ValidPasses
      <4>2. QED
        BY <1>2, <2>3, <4>1, Zenon DEF Held
    <3>2. QED
      BY <1>4, <1>5, <2>2, <2>3, <3>1, Zenon DEF Kept
  <2>4. CASE job.pkt # q
    BY <1>1, <2>1, <2>2, <2>4, Zenon DEF Kept
  <2>5. QED
    BY <2>3, <2>4, Zenon
<1>9. RingOK' /\ JobOK' /\ offered' \subseteq Packets
  BY <1>1, Zenon DEF RingOK, JobOK
<1>10. QED
  BY <1>6, <1>7, <1>8, <1>9, Zenon

\* The invariant holds in every state.
LEMMA Inductive == Spec => []IInv
<1>1. IInv /\ UNCHANGED vars => IInv'
  BY DEF vars, IInv, RingOK, JobOK, Held, LearnedOK, Attributed,
         ShortResponsesLearned, Kept
<1>2. IInv /\ Next => IInv'
  BY ArriveStep, TakeStep, ParseAddressStep, SkipAnswerStep, ReturnStep, Zenon
     DEF Next
<1>3. QED
  BY <1>1, <1>2, Initially, PTL DEF Spec

-----------------------------------------------------------------------------
(* Theorems. *)

\* No record in the ring buffer is empty or overruns the 512 bytes of
\* dns_event.payload, and only what crossed an interface is learned.
THEOREM TypeCorrect == Spec => []TypeOK
<1>1. IInv => TypeOK
  <2> SUFFICES ASSUME IInv PROVE TypeOK
    OBVIOUS
  <2>1. \A i \in DOMAIN ring :
            ring[i].pkt \in offered /\ ring[i].len \in 1..(DNS_MAX_LEN - 1)
    <3> SUFFICES ASSUME NEW i \in DOMAIN ring
                 PROVE  /\ ring[i].pkt \in offered
                        /\ ring[i].len \in 1..(DNS_MAX_LEN - 1)
      OBVIOUS
    <3> DEFINE S == [pkt : Packets, len : 1..(DNS_MAX_LEN - 1)]
    <3>1. ring[i] \in S
      <4>1. ring \in Seq(S)
        BY DEF IInv, RingOK
      <4> HIDE DEF S
      <4>2. QED
        BY <4>1
    <3>2. QED
      BY <3>1 DEF IInv, RingOK, Held
  <2>2. job # NoJob => job.pkt \in offered /\ job.next \in Nat /\ job.off \in Nat
    BY JobsAreJobs, Zenon DEF IInv, JobOK, Held
  <2>3. QED
    BY <2>1, <2>2 DEF IInv, RingOK, LearnedOK, TypeOK
<1>2. QED
  BY <1>1, Inductive, PTL

\* Whatever the headers and the records declare and wherever the copy is cut,
\* the offsets of the walk stay on the boundaries of the answers: what is taken
\* for an address is the data of a whole address record of a response, every
\* such record in the copy is taken, and nothing past the bytes of the packet
\* is read (parseDNSResponse, dns_parse.go:153-182).
THEOREM LearnsOnlyAnswers == Spec => []Attributed
<1>1. IInv => Attributed
  BY DEF IInv
<1>2. QED
  BY <1>1, Inductive, PTL

\* A well-formed response shorter than 512 bytes that finds room in the ring
\* buffer passes the filter whole, with or without IP options, and every
\* address of it is applied: the mask of dns.c:65 loses none of them.
THEOREM MaskLosesNoShortResponse == Spec => []ShortResponsesLearned
<1>1. IInv => ShortResponsesLearned
  BY DEF IInv
<1>2. QED
  BY <1>1, Inductive, PTL
=============================================================================
