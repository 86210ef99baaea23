----------------------------- MODULE DnsCapture -----------------------------
(***************************************************************************)
(* From a packet on an interface to the bytes the DNS goroutine takes for  *)
(* addresses: the socket filter (internal/ebpf/bpf/dns.c), the record      *)
(* checks of dnsWatcher.run, and parseDNSResponse                          *)
(* (internal/ebpf/dns_parse.go) walking through the answers by offsets,    *)
(* with the steps of the message parser it calls.  BlockWatcher takes the  *)
(* answers as they come out here.                                          *)
(***************************************************************************)
EXTENDS Naturals, Sequences

CONSTANTS
    Packets,    \* what may cross an interface, see Packet
    Names,      \* domains asked for
    RingCap     \* records the ring buffer holds

\* Lengths in bytes; a question is one name of a fixed size, and so is all of
\* an answer but its data.
ETH_HLEN       == 14
DNS_MAX_LEN    == 512
DnsHeader      == 12
QuestionLen    == 16
ResourceHeader == 12

\* How many bytes AResource and AAAAResource read, whatever is declared.
Bytes == [A |-> 4, AAAA |-> 16]

\* A resource record: its data starts at an offset in the message and has
\* the length that its header declares.
Record  == [type : {"A", "AAAA", "other"}, data : Nat, length : Nat]
Message == [response : BOOLEAN, question : BOOLEAN, name : Names,
            answers : Seq(Record)]

\* Where the first i answers end.
EndOf(m, i) == IF i = 0 THEN DnsHeader + QuestionLen
               ELSE m.answers[i].data + m.answers[i].length

\* The answers follow the question, each right after the one before it, and so
\* behind all of those before that.
LaidOut(m) ==
    \A i \in DOMAIN m.answers :
        /\ m.answers[i].data = EndOf(m, i - 1) + ResourceHeader
        /\ \A j \in 0..(i - 1) : EndOf(m, j) + ResourceHeader <= m.answers[i].data

\* Four bits of words of four bytes.
HeaderLength == {4 * w : w \in 0..15}

\* ihl and udp are the header fields, payload the bytes that really follow:
\* of msg, a sender or a link may have left off the end.
Packet == [udpProto : BOOLEAN, ihl : HeaderLength, from53 : BOOLEAN,
           udp : 0..65535, payload : Nat, msg : Message]

ASSUME CaptureAssumption ==
    /\ RingCap \in Nat \ {0}
    /\ \A p \in Packets : p \in Packet /\ LaidOut(p.msg)

VARIABLES
    ring,       \* dns_events: [pkt, len]
    job,        \* the record that run is parsing, see NoJob and Take
    learned,    \* history: [pkt, len, domain, reads], what run then applies
    offered     \* history: packets that crossed while the ring had room

vars == <<ring, job, learned, offered>>

\* The goroutine waits in Read.
NoJob == [len |-> 0]

Init == ring = <<>> /\ job = NoJob /\ learned = {} /\ offered = {}

-----------------------------------------------------------------------------
(* capture_dns *)

SkbLen(p) == ETH_HLEN + p.ihl + 8 + p.payload

\* bpf_skb_load_bytes of the payload: the headers before it are then inside
\* the packet too, so the loads of their fields have succeeded.
Loadable(p, n) == ETH_HLEN + p.ihl + 8 + n <= SkbLen(p)

\* Mutant: the mask is one bit too wide at the end of its range.
MaskedTooWide(p) == (p.udp - 8) % (DNS_MAX_LEN + 1)

\* dns_len &= DNS_MAX_LEN - 1, a power of two.
Masked(p) == (p.udp - 8) % DNS_MAX_LEN

\* Mutant: an IP header with options is not understood.
CapturedNoOptions(p) ==
    /\ p.udpProto /\ p.ihl = 20 /\ p.from53
    /\ p.udp > 8 /\ Masked(p) # 0
    /\ Loadable(p, Masked(p))

Captured(p) ==
    /\ SkbLen(p) >= ETH_HLEN + 20 + 8
    /\ p.udpProto /\ p.ihl \in 20..60 /\ p.from53
    /\ p.udp > 8 /\ Masked(p) # 0
    /\ Loadable(p, Masked(p))

Arrive(p) ==
    /\ ring' = IF Captured(p) /\ Len(ring) < RingCap
               THEN Append(ring, [pkt |-> p, len |-> Masked(p)]) ELSE ring
    /\ offered' = IF Len(ring) < RingCap THEN offered \cup {p} ELSE offered
    /\ UNCHANGED <<job, learned>>

-----------------------------------------------------------------------------
(* dnsWatcher.run and parseDNSResponse *)

\* Start, Question and SkipAllQuestions succeed; run drops a result without a
\* domain.
HasResult(m, n) == m.response /\ m.question /\ n >= DnsHeader + QuestionLen

\* reader.Read, the checks of the record, and the parser up to the answers.
Take ==
    /\ job = NoJob /\ ring # <<>>
    /\ LET rec == Head(ring) IN
       job' = IF rec.len \in 1..DNS_MAX_LEN /\ HasResult(rec.pkt.msg, rec.len)
              THEN [pkt |-> rec.pkt, len |-> rec.len, next |-> 1,
                    off |-> DnsHeader + QuestionLen, reads |-> {}]
              ELSE NoJob
    /\ ring' = Tail(ring)
    /\ UNCHANGED <<learned, offered>>

\* So many bytes behind the header at the parser's offset are in the payload.
Fits(n) == job.off + ResourceHeader + n <= job.len

\* AnswerHeader succeeds.
AnswerHeader ==
    job # NoJob /\ job.next \in DOMAIN job.pkt.msg.answers /\ Fits(0)

Answer == job.pkt.msg.answers[job.next]

\* Mutant: the declared length of a record is not looked at.
HoldsAddressByType(r) == r.type \in DOMAIN Bytes

HoldsAddress(r) == r.type \in DOMAIN Bytes /\ r.length = Bytes[r.type]

\* The parser moves on by the declared length.
Advance(reads) ==
    /\ job' = [job EXCEPT !.off = @ + ResourceHeader + Answer.length,
                          !.next = @ + 1, !.reads = @ \cup reads]
    /\ UNCHANGED <<ring, learned, offered>>

\* AResource or AAAAResource: the bytes at the offset are an address.
ParseAddress ==
    /\ AnswerHeader /\ HoldsAddress(Answer) /\ Fits(Bytes[Answer.type])
    /\ Advance({[from |-> job.off + ResourceHeader, size |-> Bytes[Answer.type]]})

SkipAnswer ==
    /\ AnswerHeader /\ ~HoldsAddress(Answer) /\ Fits(Answer.length)
    /\ Advance({})

\* No answer is left, or the rest is cut off; what was read before counts.
Return ==
    /\ job # NoJob
    /\ \/ ~AnswerHeader
       \/ AnswerHeader /\ HoldsAddress(Answer) /\ ~Fits(Bytes[Answer.type])
       \/ AnswerHeader /\ ~HoldsAddress(Answer) /\ ~Fits(Answer.length)
    /\ learned' = learned \cup {[pkt |-> job.pkt, len |-> job.len,
                                 domain |-> job.pkt.msg.name, reads |-> job.reads]}
    /\ job' = NoJob
    /\ UNCHANGED <<ring, offered>>

Next ==
    \/ \E p \in Packets : Arrive(p)
    \/ Take \/ ParseAddress \/ SkipAnswer \/ Return

Spec == Init /\ [][Next]_vars

-----------------------------------------------------------------------------
(* Properties. *)

\* The type invariant of the capture path.
TypeOK ==
    /\ Len(ring) <= RingCap
    /\ \A i \in DOMAIN ring :
           ring[i].pkt \in offered /\ ring[i].len \in 1..(DNS_MAX_LEN - 1)
    /\ job # NoJob => job.pkt \in offered /\ job.next \in Nat /\ job.off \in Nat
    /\ \A r \in learned : r.pkt \in offered /\ r.domain \in Names
    /\ offered \subseteq Packets

\* Where the addresses of a message are: the data of its A and AAAA records of
\* the right length, as far as they are whole in its first n bytes.
AddressData(m, n) ==
    {[from |-> m.answers[i].data, size |-> m.answers[i].length] :
        i \in {j \in DOMAIN m.answers :
                  /\ \/ m.answers[j].type = "A" /\ m.answers[j].length = 4
                     \/ m.answers[j].type = "AAAA" /\ m.answers[j].length = 16
                  /\ EndOf(m, j) <= n}}

\* However a packet is cut and whatever its headers and records declare, the
\* walk through the answers (parseDNSResponse) takes for addresses the bytes of
\* whole address records, all of those that the copy holds and none else: no
\* byte of another record, none past the copied length, none that the packet
\* did not have.  They go under the name that the same response answers.
Attributed ==
    \A r \in learned :
        LET m == r.pkt.msg IN
        /\ m.response /\ m.question /\ r.domain = m.name
        /\ r.len <= r.pkt.payload
        /\ r.reads = AddressData(m, r.len)

\* A well-formed response with an answer, whose length fields are right.
ValidResponse(p) ==
    /\ p.udpProto /\ p.from53 /\ p.ihl >= 20 /\ p.udp = 8 + p.payload
    /\ p.msg.response /\ p.msg.question
    /\ p.payload = EndOf(p.msg, Len(p.msg.answers))

Kept(p) ==
    \/ \E i \in DOMAIN ring : ring[i].pkt = p
    \/ job # NoJob /\ job.pkt = p
    \/ \E r \in learned : r.pkt = p /\ r.reads = AddressData(p.msg, p.payload)

\* A response of fewer than DNS_MAX_LEN bytes that finds room in the ring
\* buffer is not lost on the way and loses none of its addresses.
ShortResponsesLearned ==
    \A p \in offered : ValidResponse(p) /\ p.payload < DNS_MAX_LEN => Kept(p)
=============================================================================
