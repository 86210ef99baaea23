---------------------------- MODULE MCDnsCapture ----------------------------
(* Responses of every interesting length, and packets that are none. *)
EXTENDS DnsCapture, SequencesExt

\* A record of a type that declares so many bytes of data.
R(type, length) == [type |-> type, length |-> length]

\* The records one after the other, from behind the question on.
Placed(records) ==
    [i \in DOMAIN records |->
        [type |-> records[i].type, length |-> records[i].length,
         data |-> FoldLeft(LAMBDA off, r : off + ResourceHeader + r.length,
                           DnsHeader + QuestionLen, SubSeq(records, 1, i - 1))
                  + ResourceHeader]]

Msg(records) == [response |-> TRUE, question |-> TRUE, name |-> "host",
                 answers |-> Placed(records)]

\* A packet with consistent lengths around a message.
Wrap(m) ==
    LET n == EndOf(m, Len(m.answers)) IN
    [udpProto |-> TRUE, ihl |-> 20, from53 |-> TRUE, udp |-> 8 + n,
     payload |-> n, msg |-> m]

\* Payloads of 28 + 28 + 12 + other data + 16 bytes.
Sized(n) == Wrap(Msg(<<R("AAAA", 16), R("other", n - 84), R("A", 4)>>))

\* 97 bytes, in which an A record declares less, and an AAAA record more, than
\* an address; the last record starts at 81.
Small == Wrap(Msg(<<R("A", 4), R("A", 2), R("AAAA", 11), R("A", 4)>>))

WellFormed == {[Small EXCEPT !.ihl = 24], Sized(511), Sized(512)}
Oversized  == {Sized(600)}

\* The UDP header claims less or more than there is, or the end of the message
\* is left off.
Cut        == {[Small EXCEPT !.udp = 60], [Small EXCEPT !.udp = 300],
               [Small EXCEPT !.udp = 102, !.payload = 94]}
NotAnswers == {[Small EXCEPT !.msg.response = FALSE],
               [Small EXCEPT !.msg.question = FALSE],
               [Small EXCEPT !.from53 = FALSE]}

AllPackets == WellFormed \cup Oversized \cup Cut \cup NotAnswers
=============================================================================
