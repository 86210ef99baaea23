------------------------ MODULE ReportCollector_proofs ------------------------
(***************************************************************************)
(* What a report shows of any log, for every set of events, every order of *)
(* texts and every cap.                                                    *)
(***************************************************************************)
EXTENDS ReportCollector, FiniteSetTheorems, SequenceTheorems, TLAPS

\* What the parser makes of the events of the log.
CleanEvents == {Clean(e) : e \in Events}

-----------------------------------------------------------------------------
(* Positions. *)

\* One more than each of two sizes keeps their order.
LEMMA MoreThan ==
    ASSUME NEW u \in Nat, NEW v \in Nat, u <= v, u # v
    PROVE  u + 1 < v + 1
OBVIOUS

\* A set with fewer than n elements leaves a position among n.
LEMMA PositionOf ==
    ASSUME NEW u \in Nat, NEW n \in Nat, u <= n - 1
    PROVE  u + 1 \in 1..n
OBVIOUS

\* Of two positions one before the other, neither is the other.
LEMMA Apart ==
    ASSUME NEW u \in Nat, NEW v \in Nat, u < v \/ v < u
    PROVE  u # v
OBVIOUS

-----------------------------------------------------------------------------
(* Line.String and ParseLine. *)

\* The two fields of a chunk.
LEMMA ChunkFields ==
    ASSUME NEW k, NEW v
    PROVE  Chunk(k, v).key = k /\ Chunk(k, v).val = v
BY DEF Chunk

\* A line of the agent has three chunks, the process name and the destination.
LEMMA FormatShape ==
    ASSUME NEW e \in Events
    PROVE  LET l == Format(e)  n == Len(e.comm) IN
           /\ n \in Nat \ {0} /\ l \in Seq(Range(l)) /\ Len(l) = n + 4
           /\ l[1] = Chunk("verdict", e.verdict) /\ l[2] = Chunk("pid", e.pid)
           /\ l[3] = Chunk("tgid", e.tgid)
           /\ \A i \in 1..n : l[i + 3] = e.comm[i]
           /\ l[n + 4] = Chunk("dst", Dst(e.domain, e.ip, e.port))
<1> DEFINE l == Format(e)
           n == Len(e.comm)
           a == Chunk("verdict", e.verdict)
           b == Chunk("pid", e.pid)
           c == Chunk("tgid", e.tgid)
           d == Chunk("dst", Dst(e.domain, e.ip, e.port))
           S == Range(e.comm) \cup {a, b, c, d}
<1>1. e.comm \in Seq(Range(e.comm)) /\ e.comm # <<>>
  BY EventAssumption
<1>2. l = <<a, b, c>> \o e.comm \o <<d>>
  BY DEF Format
<1>3. e.comm \in Seq(S) /\ {a, b, c, d} \subseteq S
  <2> DEFINE R == Range(e.comm)
  <2>1. R \subseteq S
    OBVIOUS
  <2>2. e.comm \in Seq(R)
    BY <1>1
  <2> HIDE DEF R, S
  <2>3. e.comm \in Seq(S)
    BY <2>1, <2>2
  <2>4. QED
    BY <2>3 DEF S
<1> HIDE DEF l, a, b, c, d, S
<1>4. n \in Nat \ {0}
  BY <1>1, <1>3
<1>5. <<a, b, c>> \in Seq(S) /\ <<d>> \in Seq(S)
  BY <1>3
<1>6. /\ <<a, b, c>> \o e.comm \in Seq(S) /\ Len(<<a, b, c>> \o e.comm) = n + 3
      /\ \A i \in 1..(n + 3) : (<<a, b, c>> \o e.comm)[i] =
             IF i <= 3 THEN <<a, b, c>>[i] ELSE e.comm[i - 3]
  BY <1>3, <1>4, <1>5
<1>7. /\ l \in Seq(S) /\ Len(l) = n + 4
      /\ \A i \in 1..(n + 4) : l[i] =
             IF i <= n + 3 THEN (<<a, b, c>> \o e.comm)[i] ELSE <<d>>[i - (n + 3)]
  BY <1>2, <1>4, <1>5, <1>6
<1>8. l[1] = a /\ l[2] = b /\ l[3] = c /\ l[n + 4] = d
  <2> DEFINE h == <<a, b, c>>
             t == <<d>>
             X == h \o e.comm
  <2>1. h[1] = a /\ h[2] = b /\ h[3] = c /\ t[1] = d
    OBVIOUS
  <2>2. \A i \in 1..(n + 3) : X[i] = IF i <= 3 THEN h[i] ELSE e.comm[i - 3]
    BY <1>6, Zenon
  <2>3. \A i \in 1..(n + 4) : l[i] = IF i <= n + 3 THEN X[i] ELSE t[i - (n + 3)]
    BY <1>7, Zenon
  <2> HIDE DEF h, t, X, n
  <2>4. \A i \in 1..3 : l[i] = h[i]
    BY ONLY <1>4, <2>2, <2>3
  <2>5. l[n + 4] = t[1]
    BY ONLY <1>4, <2>3
  <2>6. QED
    BY <2>1, <2>4, <2>5
<1>9. \A i \in 1..n : l[i + 3] = e.comm[i]
  BY <1>4, <1>6, <1>7
<1>10. l \in Seq(Range(l))
  <2>1. l \in [1..Len(l) -> Range(l)]
    BY <1>7 DEF Range
  <2>2. QED
    BY <1>4, <1>7, <2>1
<1>11. QED
  BY <1>4, <1>7, <1>8, <1>9, <1>10 DEF l, a, b, c, d

\* The last dst field of a line of the agent is the one it was written with,
\* whatever the process name holds (parse.go:81, strings.LastIndex).
LEMMA DstIsLast ==
    ASSUME NEW e \in Events
    PROVE  DstAt(Format(e)) = Len(e.comm) + 4 /\ Positions(Format(e), "dst") # {}
<1> DEFINE l == Format(e)
           n == Len(e.comm)
<1>1. /\ n \in Nat \ {0} /\ l \in Seq(Range(l)) /\ Len(l) = n + 4
      /\ l[n + 4].key = "dst"
  BY FormatShape, ChunkFields
<1> HIDE DEF l, n
<1>2. DOMAIN l = 1..(n + 4)
  BY <1>1
<1>3. n + 4 \in Positions(l, "dst") /\ \A j \in Positions(l, "dst") : j <= n + 4
  BY <1>1, <1>2 DEF Positions
<1>4. \A i \in Positions(l, "dst") :
          (\A j \in Positions(l, "dst") : j <= i) => i = n + 4
  BY <1>1, <1>2, <1>3 DEF Positions
<1>5. DstAt(l) = n + 4
  BY <1>3, <1>4 DEF DstAt
<1>6. QED
  BY <1>3, <1>5 DEF l, n

\* ParseLine is the inverse of Line.String, but for what sanitize replaces.
LEMMA RoundTrip ==
    ASSUME NEW e \in Events
    PROVE  Parses(Format(e)) /\ ParseLine(Format(e)) = Clean(e)
<1> DEFINE l == Format(e)
           n == Len(e.comm)
<1>1. /\ n \in Nat \ {0} /\ l \in Seq(Range(l)) /\ Len(l) = n + 4
      /\ l[1] = Chunk("verdict", e.verdict) /\ l[2] = Chunk("pid", e.pid)
      /\ l[3] = Chunk("tgid", e.tgid)
      /\ \A i \in 1..n : l[i + 3] = e.comm[i]
      /\ l[n + 4] = Chunk("dst", Dst(e.domain, e.ip, e.port))
  BY FormatShape
<1>2. DstAt(l) = n + 4 /\ Positions(l, "dst") # {}
  BY DstIsLast
<1>3. /\ e.verdict # "" /\ {e.pid, e.tgid} \subseteq Number
      /\ e.ip \in Address /\ e.port \in Port
      /\ e.comm \in Seq(Range(e.comm)) /\ e.comm[1].key = "comm"
  BY EventAssumption
<1> HIDE DEF l, n
<1>4. /\ l # <<>>
      /\ l[1].key = "verdict" /\ l[1].val = e.verdict
      /\ l[2].key = "pid" /\ l[2].val = e.pid
      /\ l[3].key = "tgid" /\ l[3].val = e.tgid
      /\ l[4].key = "comm"
  <2>1. l[4] = e.comm[1]
    BY <1>1
  <2>2. l # <<>>
    BY <1>1
  <2>3. l[1].key = "verdict" /\ l[1].val = e.verdict
    BY <1>1, ChunkFields
  <2>4. l[2].key = "pid" /\ l[2].val = e.pid
    BY <1>1, ChunkFields
  <2>5. l[3].key = "tgid" /\ l[3].val = e.tgid
    BY <1>1, ChunkFields
  <2>6. QED
    BY <1>3, <2>1, <2>2, <2>3, <2>4, <2>5
<1>5. LET dst == l[DstAt(l)].val IN
      dst.domain = e.domain /\ dst.ip = e.ip /\ dst.port = e.port
  BY <1>1, <1>2, ChunkFields DEF Dst
<1>6. Parses(l)
  <2>1. DstAt(l) > 4
    BY <1>1, <1>2
  <2>2. LET dst == l[DstAt(l)].val IN dst.ip \in Address /\ dst.port \in Port
    BY <1>3, <1>5
  <2>3. QED
    BY <1>2, <1>3, <1>4, <2>1, <2>2 DEF Parses, IsVerdictLine
<1>7. SubSeq(l, 4, DstAt(l) - 1) = e.comm
  <2> DEFINE s == SubSeq(l, 4, n + 3)
  <2>1. DstAt(l) - 1 = n + 3
    BY <1>1, <1>2
  <2>2. e.comm = [i \in 1..n |-> e.comm[i]]
    <3> DEFINE R == Range(e.comm)
    <3>1. e.comm \in Seq(R)
      BY <1>3
    <3> HIDE DEF R
    <3>2. QED
      BY <3>1 DEF n
  <2>3. s = [i \in 1..n |-> l[i + 3]]
    BY <1>1
  <2>4. s = e.comm
    BY <1>1, <2>2, <2>3
  <2>5. QED
    BY <2>1, <2>4
<1>8. ParseLine(l) = Clean(e)
  BY <1>4, <1>5, <1>6, <1>7 DEF ParseLine, Clean
<1>9. QED
  BY <1>6, <1>8 DEF l

-----------------------------------------------------------------------------
(* Counting. *)

\* How often a sequence has a member of a set, and where.
At(h, T)    == {i \in DOMAIN h : h[i] \in T}
Count(h, T) == Cardinality(At(h, T))

\* There are finitely many places.
LEMMA AtFinite ==
    ASSUME NEW S, NEW h \in Seq(S), NEW T
    PROVE  IsFiniteSet(At(h, T)) /\ Count(h, T) \in Nat
<1>1. DOMAIN h = 1..Len(h) /\ Len(h) \in Nat
  OBVIOUS
<1>2. IsFiniteSet(1..Len(h))
  BY <1>1, FS_Interval
<1>3. At(h, T) \subseteq 1..Len(h)
  BY <1>1 DEF At
<1>4. IsFiniteSet(At(h, T))
  BY ONLY <1>2, <1>3, FS_Subset
<1>5. QED
  BY <1>4, FS_CardinalityType DEF Count

\* One more element is counted once, or not at all.
LEMMA CountAppend ==
    ASSUME NEW S, NEW h \in Seq(S), NEW x \in S, NEW T
    PROVE  Count(Append(h, x), T) = IF x \in T THEN Count(h, T) + 1 ELSE Count(h, T)
<1> DEFINE g == Append(h, x)
           n == Len(h)
<1>1. n \in Nat /\ DOMAIN h = 1..n
  OBVIOUS
<1>2. DOMAIN g = 1..(n + 1) /\ g[n + 1] = x /\ \A i \in 1..n : g[i] = h[i]
  OBVIOUS
<1> HIDE DEF g, n
<1>3. n + 1 \notin At(h, T)
  BY <1>1 DEF At
<1>4. IsFiniteSet(At(h, T))
  BY AtFinite
<1>5. CASE x \in T
  <2>1. At(g, T) = At(h, T) \cup {n + 1}
    BY <1>1, <1>2, <1>5 DEF At
  <2>2. Cardinality(At(h, T) \cup {n + 1}) = Cardinality(At(h, T)) + 1
    BY ONLY <1>3, <1>4, FS_AddElement
  <2>3. QED
    BY <1>5, <2>1, <2>2 DEF Count, g
<1>6. CASE x \notin T
  <2>1. At(g, T) = At(h, T)
    BY <1>1, <1>2, <1>6 DEF At
  <2>2. QED
    BY <1>6, <2>1 DEF Count, g
<1>7. QED
  BY <1>5, <1>6

\* The pairs countEvents counts, one for each event of a family.
Pairs(f, family) == UNION {{v} \X (1..f[v]) : v \in family \cap DOMAIN f}
Pair(v, n)       == <<v, n>>

\* c.byVerdict[v]++ makes one pair, and one only if v is of the family.
LEMMA PairsIncrement ==
    ASSUME NEW f, NEW v, NEW family, NEW m \in Nat \ {0},
           v \in DOMAIN f => f[v] = m - 1, v \notin DOMAIN f => m = 1
    PROVE  \A p : p \in Pairs(Put(f, v, m), family) <=>
                     p \in Pairs(f, family) \/ (v \in family /\ p = Pair(v, m))
<1> DEFINE n == m - 1
<1>0. n \in Nat /\ m = n + 1 /\ (v \in DOMAIN f => f[v] = n)
  OBVIOUS
<1> HIDE DEF n
<1> DEFINE g == Put(f, v, m)
<1>1. /\ DOMAIN g = DOMAIN f \cup {v} /\ g[v] = n + 1
      /\ \A w \in DOMAIN f : w # v => g[w] = f[w]
  BY <1>0 DEF Put
<1> HIDE DEF g
<1>2. \A p : p \in Pairs(f, family) <=>
          \E w \in family \cap DOMAIN f : \E j \in 1..f[w] : p = <<w, j>>
  BY DEF Pairs
<1>3. \A p : p \in Pairs(g, family) <=>
          \E w \in family \cap DOMAIN g : \E j \in 1..g[w] : p = <<w, j>>
  BY DEF Pairs
<1>4. 1..(n + 1) = (1..n) \cup {n + 1}
  BY <1>0
<1>5. ASSUME NEW p, p \in Pairs(g, family)
      PROVE  p \in Pairs(f, family) \/ (v \in family /\ p = <<v, n + 1>>)
  <2>1. PICK w \in family \cap DOMAIN g : \E j \in 1..g[w] : p = <<w, j>>
    BY <1>3, <1>5
  <2>1a. PICK j \in 1..g[w] : p = <<w, j>>
    BY <2>1
  <2>2. CASE w # v
    BY <1>1, <1>2, <2>1, <2>1a, <2>2
  <2>3. CASE w = v /\ j = n + 1
    BY <2>1, <2>1a, <2>3
  <2>4. CASE w = v /\ j # n + 1
    <3>1. j \in 1..n
      BY <1>1, <1>4, <2>1, <2>1a, <2>4
    <3>2. v \in DOMAIN f /\ f[v] = n
      BY <1>0, <3>1
    <3>3. QED
      BY <1>2, <2>1, <2>1a, <2>4, <3>1, <3>2
  <2>5. QED
    BY <2>2, <2>3, <2>4
<1>6. ASSUME NEW p, p \in Pairs(f, family) PROVE p \in Pairs(g, family)
  <2>1. PICK w \in family \cap DOMAIN f : \E j \in 1..f[w] : p = <<w, j>>
    BY <1>2, <1>6
  <2>1a. PICK j \in 1..f[w] : p = <<w, j>>
    BY <2>1
  <2>2. CASE w # v
    BY <1>1, <1>3, <2>1, <2>1a, <2>2
  <2>3. CASE w = v
    <3>1. g[v] = m /\ f[v] = n /\ v \in family \cap DOMAIN g
      BY <1>0, <1>1, <2>1, <2>3
    <3>2. j \in 1..m
      BY <1>0, <1>4, <2>1a, <2>3, <3>1
    <3>3. QED
      BY <1>3, <2>1a, <2>3, <3>1, <3>2
  <2>4. QED
    BY <2>2, <2>3
<1>7. ASSUME v \in family PROVE <<v, n + 1>> \in Pairs(g, family)
  BY <1>1, <1>3, <1>4, <1>7
<1>8. QED
  BY <1>0, <1>5, <1>6, <1>7 DEF g, Pair

\* The pair is a new one.
LEMMA PairIsNew ==
    ASSUME NEW f, NEW v, NEW family, NEW m \in Nat \ {0},
           v \in DOMAIN f => f[v] = m - 1
    PROVE  Pair(v, m) \notin Pairs(f, family)
<1>1. SUFFICES ASSUME <<v, m>> \in Pairs(f, family) PROVE FALSE
  BY DEF Pair
<1>2. PICK w \in family \cap DOMAIN f : \E j \in 1..f[w] : <<v, m>> = <<w, j>>
  BY <1>1 DEF Pairs
<1>3. PICK j \in 1..f[w] : <<v, m>> = <<w, j>>
  BY <1>2
<1>4. w = v /\ j = m
  BY <1>3
<1>5. QED
  BY <1>2, <1>3, <1>4

-----------------------------------------------------------------------------
(* Collector.Add. *)

\* One entry of dests, for a destination of which the names S were seen.
Comms == {c.comm : c \in CleanEvents}
Agg   == [count : Nat \ {0}, procs : SUBSET Comms, seen : SUBSET Comms, more : Nat]

Exact(a, S) ==
    /\ a.seen = S /\ IsFiniteSet(S) /\ a.procs \subseteq S
    /\ Cardinality(a.procs) + a.more = Cardinality(S)
    /\ Cardinality(a.procs) <= ProcCap
    /\ a.more > 0 => Cardinality(a.procs) = ProcCap

WithKept(a, s, p)    == [a EXCEPT !.seen = s, !.procs = p]
WithCounted(a, s, m) == [a EXCEPT !.seen = s, !.more = m]
Kept(x, a, s, p) ==
    /\ x \in Agg /\ x.count = a.count /\ x.more = a.more
    /\ x.seen = s /\ x.procs = p
Counted(x, a, s, m) ==
    /\ x \in Agg /\ x.count = a.count /\ x.more = m
    /\ x.seen = s /\ x.procs = a.procs

\* An entry that keeps one more name (summary.go:174-177).
LEMMA AggKeeps ==
    ASSUME NEW a \in Agg, NEW s \in SUBSET Comms, NEW p \in SUBSET Comms
    PROVE  Kept(WithKept(a, s, p), a, s, p)
<1> DEFINE C == Nat \ {0}
           P == SUBSET Comms
           N == Nat
<1>1. Agg = [count : C, procs : P, seen : P, more : N]
  BY Zenon DEF Agg
<1> HIDE DEF C, P, N
<1>2. s \in P /\ p \in P
  BY Zenon DEF P
<1>3. QED
  BY <1>1, <1>2 DEF WithKept, Kept

\* An entry that counts one more name (summary.go:178-181).
LEMMA AggCounts ==
    ASSUME NEW a \in Agg, NEW s \in SUBSET Comms, NEW m \in Nat
    PROVE  Counted(WithCounted(a, s, m), a, s, m)
<1> DEFINE C == Nat \ {0}
           P == SUBSET Comms
           N == Nat
<1>1. Agg = [count : C, procs : P, seen : P, more : N]
  BY Zenon DEF Agg
<1> HIDE DEF C, P, N
<1>2. s \in P /\ m \in N
  BY Zenon DEF P, N
<1>3. QED
  BY <1>1, <1>2 DEF WithCounted, Counted

\* The fields of an entry.
LEMMA AggTyped ==
    ASSUME NEW a \in Agg
    PROVE  /\ a.seen \in SUBSET Comms /\ a.procs \in SUBSET Comms
           /\ a.more \in Nat
<1> DEFINE C == Nat \ {0}
           P == SUBSET Comms
           N == Nat
<1>1. Agg = [count : C, procs : P, seen : P, more : N]
  BY Zenon DEF Agg
<1>2. a.seen \in P /\ a.procs \in P /\ a.more \in N
  <2> HIDE DEF C, P, N
  <2>1. QED
    BY <1>1, Zenon
<1>3. QED
  BY <1>2, Zenon

\* A name is kept or counted once, and never both (summary.go:169-181).
LEMMA AddProcExact ==
    ASSUME NEW a \in Agg, NEW comm \in Comms, NEW S, Exact(a, S)
    PROVE  LET b == AddProc(a, comm) IN
           b \in Agg /\ b.count = a.count /\ Exact(b, S \cup ({comm} \ {NoComm}))
<1> DEFINE b == AddProc(a, comm)
<1>1. CASE comm = NoComm \/ comm \in a.seen
  <2>1. b = a
    BY <1>1 DEF AddProc
  <2>2. S \cup ({comm} \ {NoComm}) = S
    BY <1>1 DEF Exact
  <2>3. QED
    BY <2>1, <2>2
<1>2. CASE comm # NoComm /\ comm \notin a.seen
  <2>1. S \cup ({comm} \ {NoComm}) = S \cup {comm}
    BY <1>2
  <2>2. /\ IsFiniteSet(S) /\ IsFiniteSet(a.procs) /\ comm \notin S
        /\ comm \notin a.procs
    BY <1>2, FS_Subset DEF Exact
  <2>3. /\ IsFiniteSet(S \cup {comm})
        /\ Cardinality(S \cup {comm}) = Cardinality(S) + 1
        /\ Cardinality(a.procs \cup {comm}) = Cardinality(a.procs) + 1
    BY ONLY <2>2, FS_AddElement
  <2>4. Cardinality(S) \in Nat /\ Cardinality(a.procs) \in Nat
    BY <2>2, FS_CardinalityType
  <2>5. ProcCap \in Nat
    BY ReportAssumption
  <2>6. a.more \in Nat
    BY AggTyped, Zenon
  <2>7. CASE Cardinality(a.procs) < ProcCap
    <3> DEFINE s == a.seen \cup {comm}
               p == a.procs \cup {comm}
    <3>1. b = WithKept(a, s, p)
      BY <1>2, <2>7 DEF AddProc, WithKept
    <3>2. /\ b \in Agg /\ b.count = a.count /\ b.more = a.more
          /\ b.seen = a.seen \cup {comm} /\ b.procs = a.procs \cup {comm}
      <4>1. s \in SUBSET Comms /\ p \in SUBSET Comms
        BY AggTyped
      <4>2. /\ b \in Agg /\ b.count = a.count /\ b.more = a.more
            /\ b.seen = s /\ b.procs = p
        <5> HIDE DEF s, p, b
        <5>1. Kept(WithKept(a, s, p), a, s, p)
          BY <4>1, AggKeeps, Zenon
        <5>2. QED
          BY <3>1, <5>1, Zenon DEF Kept
      <4>3. QED
        BY <4>2, Zenon
    <3>3. Exact(b, S \cup {comm})
      BY <2>3, <2>4, <2>5, <2>6, <2>7, <3>2 DEF Exact
    <3>4. QED
      BY <2>1, <3>2, <3>3
  <2>8. CASE ~(Cardinality(a.procs) < ProcCap)
    <3>1. b = WithCounted(a, a.seen \cup {comm}, a.more + 1)
      BY <1>2, <2>8 DEF AddProc, WithCounted
    <3>2. /\ b \in Agg /\ b.count = a.count /\ b.more = a.more + 1
          /\ b.seen = a.seen \cup {comm} /\ b.procs = a.procs
      <4> DEFINE s == a.seen \cup {comm}
                 m == a.more + 1
      <4>1. s \in SUBSET Comms /\ m \in Nat
        BY <2>6, AggTyped
      <4>2. b = WithCounted(a, s, m)
        BY <3>1, Zenon
      <4>3. /\ b \in Agg /\ b.count = a.count /\ b.more = m /\ b.seen = s
            /\ b.procs = a.procs
        <5> HIDE DEF s, m, b
        <5>1. Counted(WithCounted(a, s, m), a, s, m)
          BY <4>1, AggCounts, Zenon
        <5>2. QED
          BY <4>2, <5>1, Zenon DEF Counted
      <4>4. QED
        BY <4>3, Zenon
    <3>3. Exact(b, S \cup {comm})
      BY <2>3, <2>4, <2>5, <2>6, <2>8, <3>2 DEF Exact
    <3>4. QED
      BY <2>1, <3>2, <3>3
  <2>9. QED
    BY <2>7, <2>8
<1>3. QED
  BY <1>1, <1>2

\* The rows an event counts towards, and the names a row should have seen.
Keys        == {destKey(c) : c \in CleanEvents}
Of(k)       == {c \in CleanEvents : destKey(c) = k}
Names(h, k) == {h[i].comm : i \in {j \in DOMAIN h : destKey(h[j]) = k}} \ {NoComm}

DestOK(a, k, h) == a \in Agg /\ a.count = Count(h, Of(k)) /\ Exact(a, Names(h, k))

\* An event is for a row exactly if its key is the row's.
LEMMA KeyIsFor ==
    ASSUME NEW k \in Keys, NEW e
    PROVE  IsFor(e, k) <=> destKey(e) = k
<1>1. PICK c \in CleanEvents : k = destKey(c)
  BY DEF Keys
<1>2. QED
  BY <1>1 DEF IsFor, destKey

\* What one more event adds to the names of a row.
LEMMA NamesAppend ==
    ASSUME NEW S, NEW h \in Seq(S), NEW x \in S, NEW k
    PROVE  Names(Append(h, x), k) =
               IF destKey(x) = k THEN Names(h, k) \cup ({x.comm} \ {NoComm})
                                 ELSE Names(h, k)
<1> DEFINE g == Append(h, x)
           n == Len(h)
<1>1. n \in Nat /\ DOMAIN h = 1..n
  OBVIOUS
<1>2. DOMAIN g = 1..(n + 1) /\ g[n + 1] = x /\ \A i \in 1..n : g[i] = h[i]
  OBVIOUS
<1>3. 1..(n + 1) = (1..n) \cup {n + 1}
  BY <1>1
<1> HIDE DEF g, n
<1>4. CASE destKey(x) = k
  <2>1. {j \in DOMAIN g : destKey(g[j]) = k} =
            {j \in DOMAIN h : destKey(h[j]) = k} \cup {n + 1}
    BY <1>1, <1>2, <1>3, <1>4
  <2>2. QED
    BY <1>1, <1>2, <1>4, <2>1 DEF Names, g
<1>5. CASE destKey(x) # k
  <2>1. {j \in DOMAIN g : destKey(g[j]) = k} = {j \in DOMAIN h : destKey(h[j]) = k}
    BY <1>1, <1>2, <1>3, <1>5
  <2>2. QED
    BY <1>1, <1>2, <1>5, <2>1 DEF Names, g
<1>6. QED
  BY <1>4, <1>5

\* A row no event was for has nothing to account for.
LEMMA NoneYet ==
    ASSUME NEW h, NEW k, \A i \in DOMAIN h : destKey(h[i]) # k
    PROVE  Count(h, Of(k)) = 0 /\ Names(h, k) = {}
<1>1. At(h, Of(k)) = {}
  BY DEF At, Of
<1>2. Names(h, k) = {}
  BY DEF Names
<1>3. QED
  BY <1>1, <1>2, FS_EmptySet DEF Count

\* The rows and the events they were made from.
RowsFit(d, h) ==
    /\ \A i \in DOMAIN h : destKey(h[i]) \in DOMAIN d
    /\ \A k \in DOMAIN d : k \in Keys /\ DestOK(d[k], k, h)

\* Collector.Add keeps every row in step with the events (summary.go:162-168).
LEMMA AddFits ==
    ASSUME NEW h \in Seq(CleanEvents), NEW c \in CleanEvents,
           RowsFit(dests, h), Add(c)
    PROVE  RowsFit(dests', Append(h, c))
<1> DEFINE k == destKey(c)
           g == Append(h, c)
           z == [count |-> 0, procs |-> {}, seen |-> {}, more |-> 0]
           a == IF k \in DOMAIN dests THEN dests[k] ELSE z
           b == [a EXCEPT !.count = @ + 1]
<1>1. dests' = Put(dests, k, AddProc(b, c.comm))
  BY DEF Add
<1>2. k \in Keys /\ c \in Of(k) /\ c.comm \in Comms
  BY DEF Keys, Of, Comms
<1>3. b \in Agg /\ b.count = Count(h, Of(k)) + 1 /\ Exact(b, Names(h, k))
  <2>1. CASE k \in DOMAIN dests
    <3>1. a = dests[k] /\ a \in Agg /\ a.count = Count(h, Of(k)) /\ Exact(a, Names(h, k))
      BY <2>1 DEF RowsFit, DestOK
    <3>2. /\ b \in Agg /\ b.count = a.count + 1 /\ b.procs = a.procs
          /\ b.seen = a.seen /\ b.more = a.more
      <4> HIDE DEF a
      <4>1. QED
        BY <3>1 DEF Agg
    <3>3. QED
      BY <3>1, <3>2 DEF Exact
  <2>2. CASE k \notin DOMAIN dests
    <3>1. \A i \in DOMAIN h : destKey(h[i]) # k
      BY <2>2 DEF RowsFit
    <3>2. Count(h, Of(k)) = 0 /\ Names(h, k) = {}
      BY <3>1, NoneYet
    <3>3. b \in Agg /\ b.count = 1 /\ b.procs = {} /\ b.seen = {} /\ b.more = 0
      <4>1. /\ z \in [count : {0}, procs : {{}}, seen : {{}}, more : {0}]
            /\ a = z
        BY <2>2
      <4> HIDE DEF a, z
      <4>2. QED
        BY <4>1 DEF Agg
    <3>4. IsFiniteSet({}) /\ Cardinality({}) = 0 /\ ProcCap \in Nat
      BY FS_EmptySet, ReportAssumption
    <3> HIDE DEF b
    <3>5. QED
      BY <3>2, <3>3, <3>4 DEF Agg, Exact
  <2>3. QED
    BY <2>1, <2>2
<1> HIDE DEF b
<1>4. DestOK(AddProc(b, c.comm), k, g)
  <2>1. /\ AddProc(b, c.comm) \in Agg /\ AddProc(b, c.comm).count = b.count
        /\ Exact(AddProc(b, c.comm), Names(h, k) \cup ({c.comm} \ {NoComm}))
    BY <1>2, <1>3, AddProcExact
  <2>2. Names(g, k) = Names(h, k) \cup ({c.comm} \ {NoComm})
    BY NamesAppend
  <2>3. Count(g, Of(k)) = Count(h, Of(k)) + 1
    BY <1>2, CountAppend
  <2>4. QED
    BY <1>3, <2>1, <2>2, <2>3 DEF DestOK
<1>5. \A j \in DOMAIN dests : j # k => DestOK(dests[j], j, g)
  <2> SUFFICES ASSUME NEW j \in DOMAIN dests, j # k PROVE DestOK(dests[j], j, g)
    OBVIOUS
  <2>1. DestOK(dests[j], j, h)
    BY DEF RowsFit
  <2>2. Names(g, j) = Names(h, j)
    BY NamesAppend
  <2>3. Count(g, Of(j)) = Count(h, Of(j))
    <3>1. c \notin Of(j)
      BY DEF Of
    <3>2. QED
      BY <3>1, CountAppend
  <2>4. QED
    BY <2>1, <2>2, <2>3 DEF DestOK
<1>6. /\ DOMAIN dests' = DOMAIN dests \cup {k} /\ dests'[k] = AddProc(b, c.comm)
      /\ \A j \in DOMAIN dests : j # k => dests'[j] = dests[j]
  BY <1>1 DEF Put
<1>7. \A j \in DOMAIN dests' : j \in Keys /\ DestOK(dests'[j], j, g)
  BY <1>2, <1>4, <1>5, <1>6 DEF RowsFit
<1>8. \A i \in DOMAIN g : destKey(g[i]) \in DOMAIN dests'
  <2>1. /\ DOMAIN g = 1..(Len(h) + 1) /\ g[Len(h) + 1] = c
        /\ \A i \in 1..Len(h) : i \in DOMAIN h /\ g[i] = h[i]
    OBVIOUS
  <2> HIDE DEF g
  <2>2. \A i \in DOMAIN g : i = Len(h) + 1 \/ i \in 1..Len(h)
    BY <2>1
  <2>3. QED
    BY <1>6, <2>1, <2>2 DEF RowsFit
<1>9. QED
  BY <1>7, <1>8 DEF RowsFit

\* The counts by verdict and the events they were made from.
OfFamily(family) == {c \in CleanEvents : c.verdict \in family}

TallyFits(f, h) ==
    /\ \A v \in DOMAIN f : f[v] \in Nat \ {0}
    /\ \A family \in {Deny, Allow, Skip} :
           /\ IsFiniteSet(Pairs(f, family))
           /\ Cardinality(Pairs(f, family)) = Count(h, OfFamily(family))

\* An event counts towards its family and no other.
LEMMA TallyGrows ==
    ASSUME NEW f, NEW h \in Seq(CleanEvents), NEW c \in CleanEvents,
           NEW v, v = c.verdict, NEW m \in Nat \ {0}, TallyFits(f, h),
           v \in DOMAIN f => f[v] = m - 1, v \notin DOMAIN f => m = 1
    PROVE  TallyFits(Put(f, v, m), Append(h, c))
<1> DEFINE g == Put(f, v, m)
<1>1. \A w \in DOMAIN g : g[w] \in Nat \ {0}
  BY DEF Put, TallyFits
<1>2. ASSUME NEW family \in {Deny, Allow, Skip}
      PROVE  /\ IsFiniteSet(Pairs(g, family))
             /\ Cardinality(Pairs(g, family)) = Count(Append(h, c), OfFamily(family))
  <2>0. \A p : p \in Pairs(g, family) <=>
                  p \in Pairs(f, family) \/ (v \in family /\ p = Pair(v, m))
    BY PairsIncrement
  <2>1. /\ IsFiniteSet(Pairs(f, family))
        /\ Cardinality(Pairs(f, family)) = Count(h, OfFamily(family))
    BY <1>2 DEF TallyFits
  <2>2. CASE v \in family
    <3>1. Pairs(g, family) = Pairs(f, family) \cup {Pair(v, m)}
      BY <2>0, <2>2
    <3>2. Pair(v, m) \notin Pairs(f, family)
      BY PairIsNew
    <3>3. /\ IsFiniteSet(Pairs(g, family))
          /\ Cardinality(Pairs(g, family)) = Cardinality(Pairs(f, family)) + 1
      BY ONLY <2>1, <3>1, <3>2, FS_AddElement
    <3>4. c \in OfFamily(family)
      BY <2>2 DEF OfFamily
    <3>5. Count(Append(h, c), OfFamily(family)) = Count(h, OfFamily(family)) + 1
      BY <3>4, CountAppend
    <3>6. QED
      BY <2>1, <3>3, <3>5
  <2>3. CASE v \notin family
    <3>1. Pairs(g, family) = Pairs(f, family)
      BY <2>0, <2>3
    <3>2. c \notin OfFamily(family)
      BY <2>3 DEF OfFamily
    <3>3. Count(Append(h, c), OfFamily(family)) = Count(h, OfFamily(family))
      BY <3>2, CountAppend
    <3>4. QED
      BY <2>1, <3>1, <3>3
  <2>4. QED
    BY <2>2, <2>3
<1>3. QED
  BY <1>1, <1>2 DEF TallyFits

\* Collector.Add keeps the counts in step with the events (summary.go:161).
LEMMA AddTallies ==
    ASSUME NEW h \in Seq(CleanEvents), NEW c \in CleanEvents,
           TallyFits(byVerdict, h), Add(c)
    PROVE  TallyFits(byVerdict', Append(h, c))
<1> DEFINE v == c.verdict
           m == 1 + IF v \in DOMAIN byVerdict THEN byVerdict[v] ELSE 0
<1>1. byVerdict' = Put(byVerdict, v, m)
  <2> DEFINE n == IF v \in DOMAIN byVerdict THEN byVerdict[v] ELSE 0
  <2>1. byVerdict' = Put(byVerdict, v, n + 1)
    BY DEF Add
  <2>2. n \in Nat
    BY DEF TallyFits
  <2>3. n + 1 = m
    BY <2>2
  <2>4. QED
    BY <2>1, <2>3
<1>2. m \in Nat \ {0}
  BY DEF TallyFits
<1>3. /\ v \in DOMAIN byVerdict => byVerdict[v] = m - 1
      /\ v \notin DOMAIN byVerdict => m = 1
  BY DEF TallyFits
<1> HIDE DEF m
<1>4. QED
  BY <1>1, <1>2, <1>3, TallyGrows

-----------------------------------------------------------------------------
(* The inductive invariant. *)

\* What is in the log, and which of it is damage.
LogLines     == {[line |-> x[1], event |-> x[2]] : x \in Inputs}
DamagedLines == {r \in LogLines : r.event = NoEvent /\ IsVerdictLine(r.line)}

Scanned ==
    /\ cmd \in Commands /\ state \in {"scan", "failed", "done"}
    /\ log \in Seq(LogLines) /\ Len(log) <= MaxLines /\ written \in Seq(Events)
    /\ malformed \in Nat /\ malformed = Count(log, DamagedLines)

\* With --raw nothing is collected, and without it nothing is written.
RawOK ==
    /\ IF cmd.raw THEN total = 0 /\ byVerdict = <<>> /\ dests = <<>>
                  ELSE raw = <<>>
    /\ cmd.raw /\ state # "failed" => raw = History
    /\ RawFaithful

\* The collector agrees with the events read so far.
Collected ==
    ~cmd.raw => /\ total = Len(written) /\ TallyFits(byVerdict, History)
                /\ RowsFit(dests, History)

\* The report was made from the collector as it is.
Reported ==
    state = "done" /\ ~cmd.raw =>
        /\ report.total = total /\ report.malformed = malformed
        /\ report.denied = countEvents(Deny)
        /\ report.allowed = countEvents(Allow)
        /\ report.skipped = countEvents(Skip)
        /\ report.suggested = SuggestedAllowlist

IInv == Scanned /\ RawOK /\ Collected /\ Reported

\* The history is the events as the parser sees them.
LEMMA HistoryTyped ==
    ASSUME written \in Seq(Events)
    PROVE  /\ History \in Seq(CleanEvents) /\ Len(History) = Len(written)
           /\ DOMAIN History = 1..Len(written) /\ Len(written) \in Nat
<1>1. /\ DOMAIN written = 1..Len(written) /\ Len(written) \in Nat
      /\ \A i \in DOMAIN written : written[i] \in Events
  OBVIOUS
<1>2. History \in [1..Len(written) -> CleanEvents]
  BY <1>1 DEF History, CleanEvents
<1>3. QED
  BY <1>1, <1>2

\* It grows by the event of the line that is read.
LEMMA HistoryGrows ==
    ASSUME written \in Seq(Events), NEW e \in Events, written' = Append(written, e)
    PROVE  History' = Append(History, Clean(e)) /\ Clean(e) \in CleanEvents
<1> DEFINE n == Len(written)
           h == Append(History, Clean(e))
<1>1. Clean(e) \in CleanEvents
  BY DEF CleanEvents
<1>2. /\ n \in Nat /\ DOMAIN written' = 1..(n + 1) /\ written'[n + 1] = e
      /\ \A i \in 1..n : written'[i] = written[i]
  OBVIOUS
<1>3. /\ h \in Seq(CleanEvents) /\ DOMAIN h = 1..(n + 1) /\ h[n + 1] = Clean(e)
      /\ \A i \in 1..n : h[i] = History[i]
  <2>1. /\ History \in Seq(CleanEvents) /\ Len(History) = n /\ n \in Nat
    BY HistoryTyped
  <2> HIDE DEF n
  <2>2. QED
    BY <1>1, <2>1
<1>4. h = [i \in 1..(n + 1) |-> h[i]]
  <2>1. Len(h) = n + 1
    BY <1>2, <1>3
  <2> HIDE DEF h
  <2>2. QED
    BY <1>3, <2>1
<1>5. History' = [i \in 1..(n + 1) |-> Clean(written'[i])]
  BY <1>2 DEF History
<1>6. \A i \in 1..(n + 1) : Clean(written'[i]) = h[i]
  <2> SUFFICES ASSUME NEW i \in 1..(n + 1) PROVE Clean(written'[i]) = h[i]
    OBVIOUS
  <2>1. CASE i = n + 1
    BY <1>2, <1>3, <2>1
  <2>2. CASE i \in 1..n
    <3>1. History[i] = Clean(written[i])
      BY <2>2 DEF History
    <3>2. QED
      BY <1>2, <1>3, <2>2, <3>1
  <2>3. i = n + 1 \/ i \in 1..n
    <3>1. n \in Nat
      BY <1>2
    <3> HIDE DEF n
    <3>2. QED
      BY <3>1
  <2>4. QED
    BY <2>1, <2>2, <2>3
<1> HIDE DEF h, n
<1>7. QED
  BY <1>1, <1>4, <1>5, <1>6 DEF h

\* The empty map, as the empty sequence.
LEMMA EmptyDomain == DOMAIN <<>> = {}
<1>1. <<>> \in Seq({}) /\ Len(<<>>) = 0
  OBVIOUS
<1>2. DOMAIN <<>> = 1..0
  BY <1>1
<1>3. QED
  BY <1>2

\* Nothing is read before the first line.
LEMMA Initially == Init => IInv
<1> SUFFICES ASSUME Init PROVE IInv
  OBVIOUS
<1>1. /\ log \in Seq(LogLines) /\ Len(log) = 0 /\ written \in Seq(Events)
      /\ Len(written) = 0 /\ DOMAIN log = {}
  <2>1. log = <<>> /\ written = <<>>
    BY DEF Init
  <2>2. QED
    BY <2>1, EmptyDomain
<1>2. Count(log, DamagedLines) = 0
  <2>1. At(log, DamagedLines) = {}
    BY <1>1 DEF At
  <2>2. QED
    BY <2>1, FS_EmptySet DEF Count
<1>3. Scanned
  <2>1. cmd \in Commands /\ state \in {"scan", "failed", "done"} /\ malformed = 0
    BY DEF Init
  <2>2. MaxLines \in Nat
    BY ReportAssumption
  <2>3. QED
    BY <1>1, <1>2, <2>1, <2>2 DEF Scanned
<1>4. History = <<>> /\ DOMAIN History = {}
  <2>1. History \in Seq(CleanEvents) /\ Len(History) = 0
    BY <1>1, HistoryTyped
  <2>2. QED
    BY <2>1
<1>5. RawOK
  <2>1. RawFaithful
    BY <1>4 DEF Init, RawFaithful
  <2>2. QED
    BY <1>4, <2>1 DEF Init, RawOK
<1>6. DOMAIN byVerdict = {} /\ DOMAIN dests = {}
  <2>1. byVerdict = <<>> /\ dests = <<>>
    BY DEF Init
  <2>2. QED
    BY <2>1, EmptyDomain
<1>7. TallyFits(byVerdict, History)
  <2>1. ASSUME NEW family
        PROVE  Pairs(byVerdict, family) = {} /\ At(History, OfFamily(family)) = {}
    BY <1>4, <1>6 DEF Pairs, At
  <2>2. QED
    BY <1>6, <2>1, FS_EmptySet DEF TallyFits, Count
<1>8. RowsFit(dests, History)
  BY <1>4, <1>6 DEF RowsFit
<1>9. Collected
  BY <1>1, <1>7, <1>8 DEF Init, Collected
<1>10. Reported
  BY DEF Init, Reported
<1>11. QED
  BY <1>3, <1>5, <1>9, <1>10 DEF IInv

\* Reading a line keeps the scan's own state (parse.go:209-227).
LEMMA ReadKeeps ==
    ASSUME Scanned, NEW x \in Inputs, Read(x[1], x[2]), cmd' = cmd, state' = state,
           malformed' = IF x[2] = NoEvent /\ IsVerdictLine(x[1])
                        THEN malformed + 1 ELSE malformed
    PROVE  Scanned'
<1> DEFINE r == [line |-> x[1], event |-> x[2]]
<1>1. r \in LogLines /\ log' = Append(log, r) /\ log \in Seq(LogLines)
  BY DEF LogLines, Read, Scanned
<1>2. Len(log) < MaxLines /\ MaxLines \in Nat
  BY ReportAssumption DEF Read
<1>3. r.event = x[2] /\ r.line = x[1]
  OBVIOUS
<1> HIDE DEF r
<1>4. log' \in Seq(LogLines) /\ Len(log') = Len(log) + 1 /\ Len(log) \in Nat
  BY <1>1
<1>5. r \in DamagedLines <=> (x[2] = NoEvent /\ IsVerdictLine(x[1]))
  BY <1>1, <1>3 DEF DamagedLines
<1>6. malformed' = Count(log', DamagedLines)
  BY <1>1, <1>5, CountAppend DEF Scanned
<1>7. malformed' \in Nat
  BY DEF Scanned
<1>8. written' \in Seq(Events)
  <2>1. x[2] # NoEvent => x[2] \in Events
    BY DEF Inputs
  <2>2. written \in Seq(Events)
    BY DEF Scanned
  <2>3. QED
    BY <2>1, <2>2 DEF Read
<1>9. QED
  BY <1>2, <1>4, <1>6, <1>7, <1>8 DEF Scanned

\* A line that is no event changes nothing but the mode or the damage count.
LEMMA OtherKeeps ==
    ASSUME IInv, state = "scan",
           UNCHANGED <<cmd, state, written, collector, raw, report>>, Scanned'
    PROVE  IInv'
<1>1. History' = History
  BY DEF History
<1>2. RawOK'
  BY <1>1 DEF IInv, RawOK, RawFaithful, Rejected, collector
<1>3. Collected'
  BY <1>1 DEF IInv, Collected, collector
<1>4. Reported'
  BY DEF Reported
<1>5. QED
  BY <1>2, <1>3, <1>4 DEF IInv

\* A verdict line: the event it was written for is written or collected.
LEMMA VerdictStep ==
    ASSUME IInv, NEW x \in Inputs, ScanVerdict(x[1], x[2])
    PROVE  IInv'
<1>1. PICK e \in Events : x = <<Format(e), e>>
  BY LinesAssumption DEF Inputs, ScanVerdict
<1> DEFINE c == Clean(e)
<1>2. ParseLine(x[1]) = c
  BY <1>1, RoundTrip
<1>3. e # NoEvent /\ written' = Append(written, e) /\ state = "scan"
  BY <1>1, EventAssumption DEF ScanVerdict, Read
<1>4. UNCHANGED <<cmd, state, mode, malformed, report>>
  BY DEF ScanVerdict
<1>5. Scanned'
  BY <1>1, <1>3, <1>4, ReadKeeps DEF IInv, ScanVerdict
<1>6. written \in Seq(Events)
  BY DEF IInv, Scanned
<1>7. /\ History' = Append(History, c) /\ c \in CleanEvents
      /\ History \in Seq(CleanEvents) /\ Len(written') = Len(written) + 1
  BY <1>3, <1>6, HistoryGrows, HistoryTyped
<1>8. Reported'
  BY <1>3, <1>4 DEF Reported
<1> HIDE DEF c
<1>9. CASE cmd.raw
  <2>1. raw' = Append(raw, c) /\ UNCHANGED collector
    BY <1>2, <1>9 DEF ScanVerdict, WriteEvent
  <2>2. raw' = History'
    BY <1>3, <1>7, <1>9, <2>1 DEF IInv, RawOK
  <2>3. RawOK'
    BY <1>3, <1>4, <1>9, <2>1, <2>2 DEF IInv, RawOK, RawFaithful, collector
  <2>4. Collected'
    BY <1>4, <1>9 DEF Collected
  <2>5. QED
    BY <1>5, <1>8, <2>3, <2>4 DEF IInv
<1>10. CASE ~cmd.raw
  <2>1. Add(c) /\ UNCHANGED raw
    BY <1>2, <1>10 DEF ScanVerdict
  <2>2. RawOK'
    BY <1>4, <1>10, <2>1 DEF IInv, RawOK, RawFaithful
  <2>3. TallyFits(byVerdict', History') /\ RowsFit(dests', History')
    BY <1>7, <1>10, <2>1, AddTallies, AddFits DEF IInv, Collected
  <2>4. total' = Len(written')
    BY <1>7, <1>10, <2>1 DEF IInv, Collected, Add
  <2>5. Collected'
    BY <2>3, <2>4 DEF Collected
  <2>6. QED
    BY <1>5, <1>8, <2>2, <2>5 DEF IInv
<1>11. QED
  BY <1>9, <1>10

\* A verdict line that does not parse is damage, for no event is cut short.
LEMMA MalformedStep ==
    ASSUME IInv, NEW x \in Inputs, ScanMalformed(x[1], x[2])
    PROVE  IInv'
<1>1. x[2] = NoEvent
  BY RoundTrip DEF Inputs, ScanMalformed
<1>2. /\ Read(x[1], x[2]) /\ IsVerdictLine(x[1]) /\ malformed' = malformed + 1
      /\ UNCHANGED <<cmd, state, mode, collector, raw, report>>
  BY DEF ScanMalformed
<1>3. state = "scan" /\ written' = written
  BY <1>1, <1>2 DEF Read
<1>4. Scanned'
  BY <1>1, <1>2, ReadKeeps DEF IInv
<1>5. QED
  BY <1>2, <1>3, <1>4, OtherKeeps

\* Any other line at most tells the mode.
LEMMA OtherStep ==
    ASSUME IInv, NEW l \in NotEvents, ScanOther(l)
    PROVE  IInv'
<1> DEFINE x == <<l, NoEvent>>
<1>1. x \in Inputs /\ x[1] = l /\ x[2] = NoEvent
  BY DEF Inputs
<1>2. /\ Read(x[1], x[2]) /\ ~IsVerdictLine(x[1])
      /\ UNCHANGED <<cmd, state, malformed, collector, raw, report>>
  BY <1>1 DEF ScanOther
<1>3. state = "scan" /\ written' = written
  BY <1>1, <1>2 DEF Read
<1> HIDE DEF x
<1>4. Scanned'
  BY <1>1, <1>2, ReadKeeps DEF IInv
<1>5. QED
  BY <1>2, <1>3, <1>4, OtherKeeps

\* A scan that fails leaves a prefix of what was written.
LEMMA TooLongStep == ASSUME IInv, ScanTooLong PROVE IInv'
<1>1. /\ state = "scan" /\ state' = "failed"
      /\ UNCHANGED <<cmd, log, written, mode, malformed, collector, report>>
  BY DEF ScanTooLong
<1>2. PICK n \in 0..Len(raw) : raw' = SubSeq(raw, 1, n)
  BY DEF ScanTooLong
<1>3. History' = History
  BY <1>1 DEF History
<1>4. Scanned'
  BY <1>1 DEF IInv, Scanned, DamagedLines, Count, At
<1>5. ~cmd.raw => raw' = <<>>
  BY <1>2 DEF IInv, RawOK
<1>6. cmd.raw => IsPrefix(raw', History)
  <2> SUFFICES ASSUME cmd.raw PROVE IsPrefix(raw', History)
    OBVIOUS
  <2> DEFINE h == History
             r == SubSeq(h, 1, n)
  <2>1. raw = h
    BY <1>1 DEF IInv, RawOK
  <2>2. h \in Seq(CleanEvents)
    BY HistoryTyped DEF IInv, Scanned
  <2>3. raw' = r /\ n \in 0..Len(h)
    BY <1>2, <2>1
  <2> HIDE DEF h
  <2>4. Len(r) = n /\ r \in Seq(CleanEvents) /\ n \in Nat /\ n <= Len(h)
    BY <2>2, <2>3
  <2> HIDE DEF r
  <2>5. SubSeq(r, 1, n) = r
    BY <2>4
  <2>6. SubSeq(h, 1, n) = r
    BY DEF r
  <2>7. QED
    BY <2>3, <2>4, <2>5, <2>6 DEF IsPrefix, h
<1>7. RawOK'
  BY <1>1, <1>3, <1>5, <1>6 DEF IInv, RawOK, RawFaithful, collector
<1>8. Collected'
  BY <1>1, <1>3 DEF IInv, Collected, collector
<1>9. Reported'
  BY <1>1 DEF Reported
<1>10. QED
  BY <1>4, <1>7, <1>8, <1>9 DEF IInv

\* The totals of a report are the collector's, whatever the format.
LEMMA RenderedFields ==
    ASSUME NEW f
    PROVE  /\ Rendered(f).total = total /\ Rendered(f).malformed = malformed
           /\ Rendered(f).denied = countEvents(Deny)
           /\ Rendered(f).allowed = countEvents(Allow)
           /\ Rendered(f).skipped = countEvents(Skip)
           /\ Rendered(f).suggested = SuggestedAllowlist
BY DEF Rendered

\* The report is made from the collector, which is used no more.
LEMMA RenderStep == ASSUME IInv, Render PROVE IInv'
<1>1. /\ state = "scan" /\ state' = "done"
      /\ UNCHANGED <<cmd, log, written, mode, malformed, collector, raw>>
  BY DEF Render
<1>2. History' = History
  BY <1>1 DEF History
<1>3. Scanned'
  BY <1>1 DEF IInv, Scanned, DamagedLines, Count, At
<1>4. RawOK'
  BY <1>1, <1>2 DEF IInv, RawOK, RawFaithful, collector
<1>5. Collected'
  BY <1>1, <1>2 DEF IInv, Collected, collector
<1>6. Reported'
  <2> SUFFICES ASSUME ~cmd.raw
               PROVE  /\ report'.total = total' /\ report'.malformed = malformed'
                      /\ report'.denied = countEvents(Deny)'
                      /\ report'.allowed = countEvents(Allow)'
                      /\ report'.skipped = countEvents(Skip)'
                      /\ report'.suggested = SuggestedAllowlist'
    BY <1>1 DEF Reported
  <2>1. report' = Rendered(ResolveFormat(cmd.format))
    BY DEF Render
  <2>2. UNCHANGED <<total, byVerdict, dests, malformed>>
    BY <1>1 DEF collector
  <2>3. /\ countEvents(Deny)' = countEvents(Deny)
        /\ countEvents(Allow)' = countEvents(Allow)
        /\ countEvents(Skip)' = countEvents(Skip)
        /\ SuggestedAllowlist' = SuggestedAllowlist
    BY <2>2 DEF countEvents, SuggestedAllowlist, Deny, Allow, Skip
  <2>4. QED
    BY <2>1, <2>2, <2>3, RenderedFields
<1>7. QED
  BY <1>3, <1>4, <1>5, <1>6 DEF IInv

\* The invariant holds in every state.
LEMMA Inductive == Spec => []IInv
<1>1. ASSUME IInv, UNCHANGED vars PROVE IInv'
  <2>1. History' = History
    BY <1>1 DEF vars, History
  <2>2. Scanned'
    BY <1>1 DEF vars, IInv, Scanned, DamagedLines, Count, At
  <2>3. RawOK'
    BY <1>1, <2>1 DEF vars, IInv, RawOK, RawFaithful
  <2>4. Collected'
    BY <1>1, <2>1 DEF vars, IInv, Collected
  <2>5. Reported'
    <3>1. /\ countEvents(Deny)' = countEvents(Deny)
          /\ countEvents(Allow)' = countEvents(Allow)
          /\ countEvents(Skip)' = countEvents(Skip)
          /\ SuggestedAllowlist' = SuggestedAllowlist
      BY <1>1 DEF vars, countEvents, SuggestedAllowlist, Deny, Allow, Skip
    <3>2. UNCHANGED <<state, cmd, report, total, malformed>>
      BY <1>1 DEF vars
    <3>3. QED
      BY <1>1, <3>1, <3>2 DEF IInv, Reported
  <2>6. QED
    BY <2>2, <2>3, <2>4, <2>5 DEF IInv
<1>2. ASSUME IInv, Next PROVE IInv'
  <2>1. CASE \E x \in Inputs : ScanVerdict(x[1], x[2]) \/ ScanMalformed(x[1], x[2])
    BY <1>2, <2>1, VerdictStep, MalformedStep
  <2>2. CASE \E l \in NotEvents : ScanOther(l)
    BY <1>2, <2>2, OtherStep
  <2>3. CASE ScanTooLong
    BY <1>2, <2>3, TooLongStep
  <2>4. CASE Render
    BY <1>2, <2>4, RenderStep
  <2>5. QED
    BY <1>2, <2>1, <2>2, <2>3, <2>4 DEF Next
<1>3. IInv /\ [Next]_vars => IInv'
  BY <1>1, <1>2
<1>4. QED
  BY <1>3, Initially, PTL DEF Spec

-----------------------------------------------------------------------------
(* Theorems. *)

\* The collector's fields have the types Collector declares, and an entry of
\* dests keeps no name it has not seen.
THEOREM TypeCorrect == Spec => []TypeOK
<1>1. ASSUME IInv PROVE TypeOK
  <2>1. cmd \in Commands /\ state \in {"scan", "failed", "done"}
        /\ Len(log) <= MaxLines /\ malformed \in Nat
    BY <1>1 DEF IInv, Scanned
  <2>2. CASE cmd.raw
    <3>1. total = 0 /\ DOMAIN byVerdict = {} /\ DOMAIN dests = {}
      BY <1>1, <2>2, EmptyDomain DEF IInv, RawOK
    <3>2. QED
      BY <2>1, <3>1 DEF TypeOK
  <2>3. CASE ~cmd.raw
    <3>1. raw = <<>> /\ total \in Nat
      BY <1>1, <2>3, HistoryTyped DEF IInv, RawOK, Collected, Scanned
    <3>2. \A v \in DOMAIN byVerdict : byVerdict[v] \in Nat \ {0}
      BY <1>1, <2>3 DEF IInv, Collected, TallyFits
    <3>3. \A k \in DOMAIN dests :
              /\ dests[k].count \in Nat \ {0} /\ dests[k].more \in Nat
              /\ dests[k].procs \subseteq dests[k].seen
      <4> SUFFICES ASSUME NEW k \in DOMAIN dests
                   PROVE  /\ dests[k].count \in Nat \ {0} /\ dests[k].more \in Nat
                          /\ dests[k].procs \subseteq dests[k].seen
        OBVIOUS
      <4>1. DestOK(dests[k], k, History)
        BY <1>1, <2>3 DEF IInv, Collected, RowsFit
      <4>2. dests[k] \in Agg /\ dests[k].procs \subseteq dests[k].seen
        BY <4>1 DEF DestOK, Exact
      <4>3. QED
        BY <4>2 DEF Agg
    <3>4. QED
      BY <2>1, <3>1, <3>2, <3>3 DEF TypeOK
  <2>4. QED
    BY <2>2, <2>3
<1>2. QED
  BY <1>1, Inductive, PTL

\* --raw: what Line.String formatted is what the renderer writes, event by
\* event and in order, for the events whose process name has no line break,
\* whatever else it holds and whatever the pieces of the others are; a scan
\* that fails cuts the end off and nothing else.
THEOREM RawIsWritten == Spec => []RawFaithful
<1>1. IInv => RawFaithful
  BY DEF IInv, RawOK
<1>2. QED
  BY <1>1, Inductive, PTL

\* maxProcessesPerDest: the names kept for a destination and the number of
\* those dropped add up to its distinct names, for every cap (summary.go:169).
THEOREM NamesAddUp == Spec => []ProcessesExact
<1>1. ASSUME IInv PROVE ProcessesExact
  <2> SUFFICES ASSUME ~cmd.raw, NEW k \in DOMAIN dests
               PROVE  LET names == {History[i].comm : i \in {j \in DOMAIN History :
                                       IsFor(History[j], k)}} \ {NoComm}
                      IN /\ dests[k].procs \subseteq names
                         /\ Cardinality(dests[k].procs) + dests[k].more
                                = Cardinality(names)
                         /\ dests[k].more > 0 => Cardinality(dests[k].procs) = ProcCap
    BY DEF ProcessesExact
  <2>1. k \in Keys /\ Exact(dests[k], Names(History, k))
    BY <1>1 DEF IInv, Collected, RowsFit, DestOK
  <2>2. {j \in DOMAIN History : IsFor(History[j], k)} =
            {j \in DOMAIN History : destKey(History[j]) = k}
    BY <2>1, KeyIsFor
  <2>3. QED
    BY <2>1, <2>2 DEF Exact, Names
<1>2. QED
  BY <1>1, Inductive, PTL

\* Merging events into rows and verdicts into families loses none and mixes
\* none, and the allowlist suggested is the destinations that were judged.
THEOREM ReportAddsUp == Spec => []ReportAgrees
<1>1. ASSUME IInv PROVE ReportAgrees
  <2> SUFFICES ASSUME state = "done", ~cmd.raw
               PROVE  /\ report.total = Len(History)
                      /\ report.denied = Occurrences(LAMBDA e : e.verdict \in Deny)
                      /\ report.allowed = Occurrences(LAMBDA e : e.verdict \in Allow)
                      /\ report.skipped = Occurrences(LAMBDA e : e.verdict \in Skip)
                      /\ report.malformed = Cardinality(Damaged)
                      /\ \A i \in DOMAIN History : \E k \in DOMAIN dests :
                             IsFor(History[i], k)
                      /\ \A k \in DOMAIN dests :
                             dests[k].count = Occurrences(LAMBDA e : IsFor(e, k))
                      /\ report.suggested =
                             {Destination(History[i]) : i \in {j \in DOMAIN History :
                                                        ~IsSkip(History[j].verdict)}}
    BY DEF ReportAgrees
  <2>1. /\ History \in Seq(CleanEvents) /\ Len(History) = Len(written)
        /\ \A i \in DOMAIN History : History[i] \in CleanEvents
    <3>1. /\ History \in Seq(CleanEvents) /\ Len(History) = Len(written)
      BY <1>1, HistoryTyped DEF IInv, Scanned
    <3> DEFINE h == History
    <3> HIDE DEF h
    <3>2. h \in Seq(CleanEvents) => \A i \in DOMAIN h : h[i] \in CleanEvents
      OBVIOUS
    <3>3. QED
      BY <3>1, <3>2 DEF h
  <2>2. /\ total = Len(written) /\ TallyFits(byVerdict, History)
        /\ RowsFit(dests, History)
    BY <1>1 DEF IInv, Collected
  <2>3. /\ report.total = total /\ report.malformed = malformed
        /\ report.denied = countEvents(Deny)
        /\ report.allowed = countEvents(Allow)
        /\ report.skipped = countEvents(Skip)
        /\ report.suggested = SuggestedAllowlist
    BY <1>1 DEF IInv, Reported
  <2>4. ASSUME NEW family \in {Deny, Allow, Skip}
        PROVE  countEvents(family) =
                   Cardinality({i \in DOMAIN History : History[i].verdict \in family})
    <3>1. countEvents(family) = Count(History, OfFamily(family))
      BY <2>2, <2>4 DEF TallyFits, countEvents, Pairs
    <3>2. At(History, OfFamily(family)) =
              {i \in DOMAIN History : History[i].verdict \in family}
      BY <2>1 DEF At, OfFamily
    <3>3. QED
      BY <3>1, <3>2 DEF Count
  <2>5. /\ report.denied = Occurrences(LAMBDA e : e.verdict \in Deny)
        /\ report.allowed = Occurrences(LAMBDA e : e.verdict \in Allow)
        /\ report.skipped = Occurrences(LAMBDA e : e.verdict \in Skip)
    BY <2>3, <2>4 DEF Occurrences
  <2>6. report.malformed = Cardinality(Damaged)
    <3>1. log \in Seq(LogLines) /\ malformed = Count(log, DamagedLines)
      BY <1>1 DEF IInv, Scanned
    <3>2. \A i \in DOMAIN log : log[i] \in LogLines
      BY <3>1
    <3>3. At(log, DamagedLines) = Damaged
      BY <3>2 DEF At, DamagedLines, Damaged
    <3>4. QED
      BY <2>3, <3>1, <3>3 DEF Count
  <2>7. \A i \in DOMAIN History : \E k \in DOMAIN dests : IsFor(History[i], k)
    <3> SUFFICES ASSUME NEW i \in DOMAIN History
                 PROVE  \E k \in DOMAIN dests : IsFor(History[i], k)
      OBVIOUS
    <3>1. destKey(History[i]) \in DOMAIN dests
      BY <2>2 DEF RowsFit
    <3>2. destKey(History[i]) \in Keys
      BY <2>1 DEF Keys
    <3>3. QED
      BY <3>1, <3>2, KeyIsFor
  <2>8. ASSUME NEW k \in DOMAIN dests
        PROVE  /\ dests[k].count = Occurrences(LAMBDA e : IsFor(e, k))
               /\ \E i \in DOMAIN History : destKey(History[i]) = k
    <3>1. k \in Keys /\ dests[k] \in Agg /\ dests[k].count = Count(History, Of(k))
      BY <2>2, <2>8 DEF RowsFit, DestOK
    <3>2. At(History, Of(k)) = {i \in DOMAIN History : IsFor(History[i], k)}
      BY <2>1, <3>1, KeyIsFor DEF At, Of
    <3>3. dests[k].count # 0
      BY <3>1 DEF Agg
    <3>4. \E i \in DOMAIN History : destKey(History[i]) = k
      BY <3>1, <3>3, NoneYet
    <3>5. QED
      BY <3>1, <3>2, <3>4 DEF Count, Occurrences
  <2>9. SuggestedAllowlist =
            {Destination(History[i]) : i \in {j \in DOMAIN History :
                                               ~IsSkip(History[j].verdict)}}
    <3>1. ASSUME NEW i \in DOMAIN History
          PROVE  LET k == destKey(History[i]) IN
                 /\ k \in DOMAIN dests /\ k.verdict = History[i].verdict
                 /\ Destination(k) = Destination(History[i]) /\ Destination(k) # ""
      <4>1. PICK e \in Events : History[i] = Clean(e)
        BY <2>1, <3>1 DEF CleanEvents
      <4>2. History[i].ip = e.ip /\ e.ip # ""
        <5>1. History[i].ip = e.ip
          BY <4>1 DEF Clean
        <5>2. e.ip \in Address
          BY EventAssumption
        <5>3. "" \notin Address
          BY ReportAssumption
        <5>4. QED
          BY <5>1, <5>2, <5>3
      <4>3. destKey(History[i]) \in DOMAIN dests
        BY <2>2, <3>1 DEF RowsFit
      <4>4. QED
        BY <4>2, <4>3 DEF destKey, Destination
    <3>2. ASSUME NEW d \in SuggestedAllowlist
          PROVE  \E i \in DOMAIN History :
                     ~IsSkip(History[i].verdict) /\ d = Destination(History[i])
      <4>1. PICK k \in DOMAIN dests : ~IsSkip(k.verdict) /\ d = Destination(k)
        BY <3>2 DEF SuggestedAllowlist
      <4>2. PICK i \in DOMAIN History : destKey(History[i]) = k
        BY <2>8
      <4>3. QED
        BY <3>1, <4>1, <4>2
    <3>3. ASSUME NEW i \in DOMAIN History, ~IsSkip(History[i].verdict)
          PROVE  Destination(History[i]) \in SuggestedAllowlist
      BY <3>1, <3>3 DEF SuggestedAllowlist
    <3>4. QED
      BY <3>2, <3>3
  <2>10. QED
    BY <2>1, <2>2, <2>3, <2>5, <2>6, <2>7, <2>8, <2>9
<1>2. QED
  BY <1>1, Inductive, PTL

-----------------------------------------------------------------------------
(* The order of the rows. *)

\* One of two different keys comes first.
Less(s, t) == \E i \in DOMAIN s : s[i] < t[i] /\ \A j \in 1..(i - 1) : s[j] = t[j]

\* Two different keys differ first in one of their six parts.
LEMMA LexTotal ==
    ASSUME NEW s \in [1..6 -> Int], NEW t \in [1..6 -> Int], s # t
    PROVE  Less(s, t) \/ Less(t, s)
<1>1. \E i \in 1..6 : s[i] # t[i] /\ \A j \in 1..(i - 1) : s[j] = t[j]
  <2>1. PICK i \in 1..6 : s[i] # t[i]
    OBVIOUS
  <2>2. CASE s[1] # t[1]
    BY <2>2
  <2>3. CASE s[1] = t[1] /\ s[2] # t[2]
    BY <2>3
  <2>4. CASE s[1] = t[1] /\ s[2] = t[2] /\ s[3] # t[3]
    BY <2>4
  <2>5. CASE s[1] = t[1] /\ s[2] = t[2] /\ s[3] = t[3] /\ s[4] # t[4]
    BY <2>5
  <2>6. CASE s[1] = t[1] /\ s[2] = t[2] /\ s[3] = t[3] /\ s[4] = t[4] /\ s[5] # t[5]
    BY <2>6
  <2>7. CASE /\ s[1] = t[1] /\ s[2] = t[2] /\ s[3] = t[3] /\ s[4] = t[4]
             /\ s[5] = t[5]
    BY <2>1, <2>7
  <2>8. QED
    BY <2>2, <2>3, <2>4, <2>5, <2>6, <2>7
<1>2. PICK i \in 1..6 : s[i] # t[i] /\ \A j \in 1..(i - 1) : s[j] = t[j]
  BY <1>1
<1>3. s[i] \in Int /\ t[i] \in Int
  OBVIOUS
<1>4. s[i] < t[i] \/ t[i] < s[i]
  BY <1>2, <1>3
<1>5. QED
  BY <1>2, <1>4 DEF Less

\* Where a row comes from.
LEMMA RowSource ==
    ASSUME IInv, NEW r \in Rows
    PROVE  \E e \in Events :
               LET k == destKey(Clean(e)) IN
               /\ k \in DOMAIN dests
               /\ r = [verdict |-> k.verdict, domain |-> k.domain, ip |-> k.ip,
                       port |-> k.port, count |-> dests[k].count,
                       procs |-> dests[k].procs, more |-> dests[k].more]
               /\ r.verdict = sanitize(e.verdict) /\ r.domain = sanitize(e.domain)
               /\ r.ip = e.ip /\ r.port = e.port /\ r.count \in Nat
<1>1. PICK k \in DOMAIN dests :
          r = [verdict |-> k.verdict, domain |-> k.domain, ip |-> k.ip,
               port |-> k.port, count |-> dests[k].count,
               procs |-> dests[k].procs, more |-> dests[k].more]
  BY DEF Rows
<1>2. ~cmd.raw
  <2>1. DOMAIN dests # {}
    BY <1>1
  <2>2. QED
    BY <2>1, EmptyDomain DEF IInv, RawOK
<1>3. k \in Keys /\ dests[k] \in Agg
  BY <1>1, <1>2 DEF IInv, Collected, RowsFit, DestOK
<1>4. PICK e \in Events : k = destKey(Clean(e))
  BY <1>3 DEF Keys, CleanEvents
<1>5. /\ k.verdict = sanitize(e.verdict) /\ k.domain = sanitize(e.domain)
      /\ k.ip = e.ip /\ k.port = e.port
  BY <1>4 DEF destKey, Clean
<1>6. dests[k].count \in Nat
  BY <1>3 DEF Agg
<1>7. QED
  BY <1>1, <1>4, <1>5, <1>6

\* What the comparison function compares are numbers.
LEMMA SortKeyTyped ==
    ASSUME IInv, NEW r \in Rows
    PROVE  /\ SortKey(r) \in [1..6 -> Int]
           /\ {Destination(r), r.verdict, r.ip} \subseteq DOMAIN Rank
<1>1. PICK e \in Events :
          /\ r.verdict = sanitize(e.verdict) /\ r.domain = sanitize(e.domain)
          /\ r.ip = e.ip /\ r.port = e.port /\ r.count \in Nat
  BY RowSource
<1>2. {Destination(r), r.verdict, r.ip} \subseteq DOMAIN Rank
  <2>1. {sanitize(e.verdict), sanitize(e.domain), e.ip} \subseteq DOMAIN Rank
    BY RankAssumption
  <2>2. Destination(r) \in {r.domain, r.ip}
    BY DEF Destination
  <2>3. QED
    BY <1>1, <2>1, <2>2
<1>3. \A x \in DOMAIN Rank : Rank[x] \in Int
  BY RankAssumption
<1>4. /\ Rank[Destination(r)] \in Int /\ Rank[r.verdict] \in Int
      /\ Rank[r.ip] \in Int
  BY <1>2, <1>3
<1>5. r.port \in Int
  <2>1. Port \subseteq Int
    BY DEF Port
  <2>2. r.port \in Port
    BY <1>1, EventAssumption
  <2>3. QED
    BY <2>1, <2>2
<1>6. total \in Int
  <2>1. total \in Nat
    BY HistoryTyped DEF IInv, RawOK, Collected, Scanned
  <2>2. QED
    BY <2>1
<1>7. total - r.count \in Int
  BY <1>1, <1>6
<1>8. severity(r.verdict) \in Int
  BY DEF severity
<1>9. SortKey(r) \in [1..6 -> Int]
  <2>1. ASSUME NEW a \in Int, NEW b \in Int, NEW c \in Int, NEW d \in Int,
               NEW f \in Int, NEW g \in Int
        PROVE  <<a, b, c, d, f, g>> \in [1..6 -> Int]
    <3>1. <<a, b, c, d, f, g>> \in Seq(Int) /\ Len(<<a, b, c, d, f, g>>) = 6
      OBVIOUS
    <3>2. QED
      BY <3>1
  <2>2. QED
    BY <1>4, <1>5, <1>7, <1>8, <2>1 DEF SortKey
<1>10. QED
  BY <1>2, <1>9

\* No connection is logged with its own address for a domain.
NamesNotAddresses == \A e \in Events : sanitize(e.domain) # e.ip

ShownAs(r) ==
    \/ r.domain # "" /\ Destination(r) = r.domain
    \/ r.domain = "" /\ Destination(r) = r.ip

\* A row is shown under its name, or its address when it has none.
LEMMA DestinationIs == \A r : ShownAs(r)
BY Zenon DEF ShownAs, Destination

\* Then no two rows are equal to the comparison function.
LEMMA KeysDiffer ==
    ASSUME NamesNotAddresses, IInv, NEW a \in Rows, NEW b \in Rows,
           SortKey(a) = SortKey(b)
    PROVE  a = b
<1>1. PICK e \in Events :
          LET k == destKey(Clean(e)) IN
          /\ k \in DOMAIN dests
          /\ a = [verdict |-> k.verdict, domain |-> k.domain, ip |-> k.ip,
                  port |-> k.port, count |-> dests[k].count,
                  procs |-> dests[k].procs, more |-> dests[k].more]
          /\ a.verdict = sanitize(e.verdict) /\ a.domain = sanitize(e.domain)
          /\ a.ip = e.ip /\ a.port = e.port /\ a.count \in Nat
  BY RowSource
<1>2. PICK f \in Events :
          LET k == destKey(Clean(f)) IN
          /\ k \in DOMAIN dests
          /\ b = [verdict |-> k.verdict, domain |-> k.domain, ip |-> k.ip,
                  port |-> k.port, count |-> dests[k].count,
                  procs |-> dests[k].procs, more |-> dests[k].more]
          /\ b.verdict = sanitize(f.verdict) /\ b.domain = sanitize(f.domain)
          /\ b.ip = f.ip /\ b.port = f.port /\ b.count \in Nat
  BY RowSource
<1>3. /\ Rank[Destination(a)] = Rank[Destination(b)] /\ a.port = b.port
      /\ Rank[a.verdict] = Rank[b.verdict] /\ Rank[a.ip] = Rank[b.ip]
  BY DEF SortKey
<1>4. Destination(a) = Destination(b) /\ a.verdict = b.verdict /\ a.ip = b.ip
  BY <1>3, SortKeyTyped, RankAssumption
<1>5. a.domain # a.ip /\ b.domain # b.ip
  BY <1>1, <1>2 DEF NamesNotAddresses
<1>6. a.domain = b.domain
  <2>1. ShownAs(a) /\ ShownAs(b)
    BY DestinationIs, Zenon
  <2>2. QED
    BY <1>4, <1>5, <2>1, Zenon DEF ShownAs
<1>7. destKey(Clean(e)) = destKey(Clean(f))
  BY <1>1, <1>2, <1>3, <1>4, <1>6 DEF destKey, Clean
<1>8. QED
  BY <1>1, <1>2, <1>7

\* sort.Slice: whatever order the map is walked in, two rows have one order,
\* for no two are equal to the comparison function (summary.go:226-247).
\* Without the hypothesis a row with the domain "192.0.2.1" and one without a
\* domain, both of that address, would be equal to it.
THEOREM OneOrder == ASSUME NamesNotAddresses PROVE Spec => []StableOrder
<1>1. ASSUME IInv PROVE StableOrder
  <2> SUFFICES ASSUME NEW a \in Rows, NEW b \in Rows, a # b
               PROVE  Before(a, b) \/ Before(b, a)
    BY DEF StableOrder
  <2>1. SortKey(a) # SortKey(b)
    BY <1>1, KeysDiffer
  <2>2. SortKey(a) \in [1..6 -> Int] /\ SortKey(b) \in [1..6 -> Int]
    BY <1>1, SortKeyTyped
  <2>3. Less(SortKey(a), SortKey(b)) \/ Less(SortKey(b), SortKey(a))
    BY <2>1, <2>2, LexTotal
  <2>4. QED
    BY <2>3 DEF Less, Before
<1>2. QED
  BY <1>1, Inductive, PTL
-----------------------------------------------------------------------------
(* Sorting. *)

\* One key before another before a third.
LEMMA LexTrans ==
    ASSUME NEW s \in [1..6 -> Int], NEW t \in [1..6 -> Int], NEW u \in [1..6 -> Int],
           Less(s, t), Less(t, u)
    PROVE  Less(s, u)
<1>1. PICK i \in 1..6 : s[i] < t[i] /\ \A l \in 1..(i - 1) : s[l] = t[l]
  BY DEF Less
<1>2. PICK j \in 1..6 : t[j] < u[j] /\ \A l \in 1..(j - 1) : t[l] = u[l]
  BY DEF Less
<1>3. CASE i <= j
  <2>1. s[i] < u[i] /\ \A l \in 1..(i - 1) : s[l] = u[l]
    BY <1>1, <1>2, <1>3
  <2>2. QED
    BY <2>1 DEF Less
<1>4. CASE j < i
  <2>1. s[j] < u[j] /\ \A l \in 1..(j - 1) : s[l] = u[l]
    BY <1>1, <1>2, <1>4
  <2>2. QED
    BY <2>1 DEF Less
<1>5. QED
  BY <1>3, <1>4

\* The order of the keys, and that of some numbering among equal ones.
Comes(key, idx, x, y) == Less(key[x], key[y]) \/ (key[x] = key[y] /\ idx[x] < idx[y])

\* That is a strict total order.
LEMMA ComesOrder ==
    ASSUME NEW S, NEW key \in [S -> [1..6 -> Int]], NEW idx \in [S -> Nat],
           \A x, y \in S : idx[x] = idx[y] => x = y
    PROVE  /\ \A x \in S : ~Comes(key, idx, x, x)
           /\ \A x, y \in S : x # y => Comes(key, idx, x, y) \/ Comes(key, idx, y, x)
           /\ \A x, y, z \in S : Comes(key, idx, x, y) /\ Comes(key, idx, y, z)
                                     => Comes(key, idx, x, z)
<1>1. \A x \in S : key[x] \in [1..6 -> Int] /\ idx[x] \in Nat
  OBVIOUS
<1>2. \A k \in [1..6 -> Int] : ~Less(k, k)
  BY DEF Less
<1>3. ASSUME NEW x \in S PROVE ~Comes(key, idx, x, x)
  BY <1>1, <1>2 DEF Comes
<1>4. ASSUME NEW x \in S, NEW y \in S, x # y
      PROVE  Comes(key, idx, x, y) \/ Comes(key, idx, y, x)
  <2>1. CASE key[x] = key[y]
    BY <1>1, <1>4, <2>1 DEF Comes
  <2>2. CASE key[x] # key[y]
    BY <1>1, <2>2, LexTotal DEF Comes
  <2>3. QED
    BY <2>1, <2>2
<1>5. ASSUME NEW x \in S, NEW y \in S, NEW z \in S,
             Comes(key, idx, x, y), Comes(key, idx, y, z)
      PROVE  Comes(key, idx, x, z)
  <2>1. CASE Less(key[x], key[y]) /\ Less(key[y], key[z])
    BY <1>1, <2>1, LexTrans DEF Comes
  <2>2. CASE ~(Less(key[x], key[y]) /\ Less(key[y], key[z]))
    BY <1>1, <1>5, <2>2 DEF Comes
  <2>3. QED
    BY <2>1, <2>2
<1>6. QED
  BY <1>3, <1>4, <1>5

\* A finite set has a sequence in which no element comes after a greater one:
\* each element stands where the number of those before it says.
LEMMA SortExists ==
    ASSUME NEW S, IsFiniteSet(S), NEW key \in [S -> [1..6 -> Int]]
    PROVE  \E s \in SetToSeqs(S) :
               \A i, j \in DOMAIN s : i < j => ~Less(key[s[j]], key[s[i]])
<1> DEFINE n == Cardinality(S)
<1>1. n \in Nat /\ IsFiniteSet(1..n) /\ Cardinality(1..n) = n
  BY FS_CardinalityType, FS_Interval
<1>2. PICK idx \in Bijection(S, 1..n) : TRUE
  <2>1. ExistsBijection(S, 1..n)
    BY <1>1, FS_SameCardinalityBij
  <2>2. QED
    BY <2>1 DEF ExistsBijection
<1>3. idx \in [S -> Nat] /\ \A x, y \in S : idx[x] = idx[y] => x = y
  <2>1. idx \in [S -> 1..n] /\ \A x, y \in S : idx[x] = idx[y] => x = y
    BY <1>2 DEF Bijection, Injection, IsInjective
  <2>2. QED
    BY <1>1, <2>1
<1> DEFINE Lower(x) == {y \in S : Comes(key, idx, y, x)}
           pos == [x \in S |-> Cardinality(Lower(x)) + 1]
<1>4. ASSUME NEW x \in S
      PROVE  IsFiniteSet(Lower(x)) /\ pos[x] \in 1..n /\ pos[x] = Cardinality(Lower(x)) + 1
  <2>0. ~Comes(key, idx, x, x)
    BY <1>3, ComesOrder
  <2>1. Lower(x) \subseteq S \ {x}
    BY <2>0
  <2>2. IsFiniteSet(S \ {x}) /\ Cardinality(S \ {x}) = n - 1
    BY FS_RemoveElement
  <2>3. IsFiniteSet(Lower(x)) /\ Cardinality(Lower(x)) <= n - 1
    BY <2>1, <2>2, FS_Subset
  <2>4. Cardinality(Lower(x)) \in Nat
    BY <2>3, FS_CardinalityType
  <2>5. pos[x] = Cardinality(Lower(x)) + 1
    BY Zenon
  <2>6. n \in Nat
    BY <1>1
  <2> HIDE DEF n, Lower, pos
  <2>7. pos[x] \in 1..n
    BY <2>3, <2>4, <2>5, <2>6, PositionOf, Zenon
  <2>8. QED
    BY <2>3, <2>5, <2>7
<1>5. ASSUME NEW x \in S, NEW y \in S, Comes(key, idx, x, y)
      PROVE  pos[x] < pos[y]
  <2>1. Lower(x) \subseteq Lower(y)
    BY <1>3, <1>5, ComesOrder
  <2>2. x \in Lower(y) /\ x \notin Lower(x)
    BY <1>3, <1>5, ComesOrder
  <2>3. /\ Cardinality(Lower(x)) <= Cardinality(Lower(y))
        /\ Cardinality(Lower(x)) # Cardinality(Lower(y))
    BY <1>4, <2>1, <2>2, FS_Subset
  <2>4. pos[x] \in 1..n /\ pos[y] \in 1..n
    BY <1>4
  <2>5. pos[x] = Cardinality(Lower(x)) + 1 /\ pos[y] = Cardinality(Lower(y)) + 1
    BY <1>4
  <2>6. Cardinality(Lower(x)) \in Nat /\ Cardinality(Lower(y)) \in Nat
    BY <1>4, FS_CardinalityType
  <2> HIDE DEF Lower, pos, n
  <2>7. QED
    BY <2>3, <2>5, <2>6, MoreThan, Zenon
<1> HIDE DEF pos, Lower
<1>6. pos \in [S -> 1..n]
  BY <1>4 DEF pos
<1> HIDE DEF n
<1>7. \A x, y \in S : pos[x] = pos[y] => x = y
  <2>1. ASSUME NEW x \in S, NEW y \in S, x # y PROVE pos[x] # pos[y]
    <3>1. pos[x] \in Nat /\ pos[y] \in Nat
      <4>1. 1..n \subseteq Nat
        OBVIOUS
      <4>2. pos[x] \in 1..n /\ pos[y] \in 1..n
        BY <1>6, Zenon
      <4>3. QED
        BY <4>1, <4>2, Zenon
    <3>2. Comes(key, idx, x, y) \/ Comes(key, idx, y, x)
      BY <1>3, <2>1, ComesOrder
    <3>3. pos[x] < pos[y] \/ pos[y] < pos[x]
      BY <1>5, <3>2
    <3>4. QED
      BY <3>1, <3>3, Apart, Zenon
  <2>2. QED
    BY <2>1
<1>8. \A i \in 1..n : \E x \in S : pos[x] = i
  <2>1. pos \in Injection(S, 1..n)
    BY <1>6, <1>7 DEF Injection, IsInjective
  <2>2. Cardinality(S) = Cardinality(1..n)
    BY <1>1 DEF n
  <2>3. pos \in Surjection(S, 1..n)
    BY <1>1, <2>1, <2>2, FS_Injection
  <2>4. QED
    BY <2>3 DEF Surjection
<1> DEFINE s == [i \in 1..n |-> CHOOSE x \in S : pos[x] = i]
<1>9. s \in [1..n -> S] /\ \A i \in 1..n : pos[s[i]] = i
  BY <1>8
<1> HIDE DEF s
<1>10. s \in SetToSeqs(S)
  BY <1>9 DEF SetToSeqs, n
<1>11. ASSUME NEW i \in DOMAIN s, NEW j \in DOMAIN s, i < j
       PROVE  ~Less(key[s[j]], key[s[i]])
  <2>1. /\ i \in 1..n /\ j \in 1..n /\ s[i] \in S /\ s[j] \in S
        /\ pos[s[i]] = i /\ pos[s[j]] = j
    BY <1>9
  <2>2. ~(j < i)
    BY <1>1, <1>11, <2>1
  <2>3. QED
    BY <1>5, <2>1, <2>2 DEF Comes
<1>12. QED
  BY <1>10, <1>11
-----------------------------------------------------------------------------
(* What is shown and what is announced as omitted. *)

\* The sequences of a set have its elements and its size.
LEMMA SeqOfSet ==
    ASSUME NEW S, IsFiniteSet(S), NEW s \in SetToSeqs(S)
    PROVE  /\ s \in Seq(S) /\ Len(s) = Cardinality(S) /\ Cardinality(S) \in Nat
           /\ \A x \in S : \E i \in 1..Len(s) : s[i] = x
<1> DEFINE n == Cardinality(S)
<1>1. n \in Nat /\ IsFiniteSet(1..n) /\ Cardinality(1..n) = n
  BY FS_CardinalityType, FS_Interval
<1>2. s \in [1..n -> S] /\ \A i, j \in 1..n : i # j => s[i] # s[j]
  BY DEF SetToSeqs
<1> HIDE DEF n
<1>3. s \in Seq(S) /\ Len(s) = n
  BY <1>1, <1>2
<1>4. s \in Injection(1..n, S)
  BY <1>2 DEF Injection, IsInjective
<1>5. s \in Surjection(1..n, S)
  BY <1>1, <1>4, FS_Injection DEF n
<1>6. \A x \in S : \E i \in 1..n : s[i] = x
  BY <1>5 DEF Surjection
<1>7. QED
  BY <1>1, <1>3, <1>6 DEF n

\* A log has finitely many rows.
LEMMA RowsFinite == ASSUME IInv PROVE IsFiniteSet(Rows)
<1> DEFINE Row(k) == [verdict |-> k.verdict, domain |-> k.domain, ip |-> k.ip,
                      port |-> k.port, count |-> dests[k].count,
                      procs |-> dests[k].procs, more |-> dests[k].more]
           g == [k \in DOMAIN dests |-> Row(k)]
<1>1. IsFiniteSet(DOMAIN dests)
  <2>1. CASE cmd.raw
    BY <2>1, EmptyDomain, FS_EmptySet DEF IInv, RawOK
  <2>2. CASE ~cmd.raw
    <3> DEFINE n == Len(written)
               f == [i \in 1..n |-> destKey(History[i])]
               T == {f[i] : i \in 1..n}
    <3>1. n \in Nat /\ DOMAIN History = 1..n
      BY HistoryTyped DEF IInv, Scanned
    <3>2. f \in Surjection(1..n, T)
      BY DEF Surjection
    <3>3. IsFiniteSet(T)
      BY <3>1, <3>2, FS_Interval, FS_Surjection
    <3>4. ASSUME NEW k \in DOMAIN dests PROVE k \in T
      <4>1. dests[k].count \in Nat \ {0} /\ dests[k].count = Count(History, Of(k))
        BY <2>2 DEF IInv, Collected, RowsFit, DestOK, Agg
      <4>2. \E i \in DOMAIN History : destKey(History[i]) = k
        BY <4>1, NoneYet
      <4>3. QED
        BY <3>1, <4>2
    <3>5. QED
      BY <3>3, <3>4, FS_Subset
  <2>3. QED
    BY <2>1, <2>2
<1>2. g \in Surjection(DOMAIN dests, Rows)
  BY DEF Surjection, Rows
<1>3. QED
  BY <1>1, <1>2, FS_Surjection

\* Summary and filter: the rows of a table are in order.
LEMMA SortedRows ==
    ASSUME IInv, NEW S \in SUBSET Rows
    PROVE  /\ Sorted(S) \in Seq(S) /\ Len(Sorted(S)) = Cardinality(S)
           /\ Cardinality(S) \in Nat
           /\ \A x \in S : \E i \in 1..Len(Sorted(S)) : Sorted(S)[i] = x
           /\ \A i, j \in 1..Len(Sorted(S)) :
                  i < j => ~Before(Sorted(S)[j], Sorted(S)[i])
<1> DEFINE key == [r \in S |-> SortKey(r)]
<1>1. IsFiniteSet(S)
  BY RowsFinite, FS_Subset
<1>2. key \in [S -> [1..6 -> Int]]
  BY SortKeyTyped
<1>3. PICK s \in SetToSeqs(S) :
          \A i, j \in DOMAIN s : i < j => ~Less(key[s[j]], key[s[i]])
  BY <1>1, <1>2, SortExists
<1>4. \A i \in DOMAIN s : s[i] \in S
  BY <1>3 DEF SetToSeqs
<1>5. \A i, j \in DOMAIN s : i < j => ~Before(s[j], s[i])
  BY <1>3, <1>4 DEF Less, Before
<1>6. /\ Sorted(S) \in SetToSeqs(S)
      /\ \A i, j \in DOMAIN Sorted(S) : i < j => ~Before(Sorted(S)[j], Sorted(S)[i])
  BY <1>3, <1>5 DEF Sorted
<1>7. /\ Sorted(S) \in Seq(S) /\ Len(Sorted(S)) = Cardinality(S)
      /\ Cardinality(S) \in Nat
      /\ \A x \in S : \E i \in 1..Len(Sorted(S)) : Sorted(S)[i] = x
  BY <1>1, <1>6, SeqOfSet
<1>8. DOMAIN Sorted(S) = 1..Len(Sorted(S))
  BY <1>7
<1>9. QED
  BY <1>6, <1>7, <1>8

\* limitRows keeps the first rows, and what it leaves out it counts.
LEMMA Limited ==
    ASSUME NEW S, NEW s \in Seq(S), NEW top \in Nat, NEW x \in S,
           \E j \in 1..Len(s) : s[j] = x,
           x \notin Range(limitRows(s, top))
    PROVE  /\ top > 0 /\ Len(s) > top /\ Len(s) - Len(limitRows(s, top)) > 0
           /\ \E j \in 1..Len(s) : s[j] = x /\ j > top
           /\ \A y \in Range(limitRows(s, top)) :
                  \E i \in 1..Len(s) : s[i] = y /\ i <= top
<1> DEFINE t == limitRows(s, top)
<1>1. PICK j \in 1..Len(s) : s[j] = x
  OBVIOUS
<1>2. ~(top = 0 \/ Len(s) <= top)
  BY <1>1 DEF limitRows, Range
<1>3. t = SubSeq(s, 1, top)
  BY <1>2 DEF limitRows
<1>4. /\ DOMAIN t = 1..top /\ Len(t) = top
      /\ \A i \in 1..top : t[i] = s[i]
  BY <1>2, <1>3
<1>5. j > top
  BY <1>1, <1>4 DEF Range
<1>6. \A y \in Range(t) : \E i \in 1..Len(s) : s[i] = y /\ i <= top
  BY <1>2, <1>4 DEF Range
<1>7. QED
  BY <1>1, <1>2, <1>4, <1>5, <1>6

\* severity comes first in the order of the rows: no other row precedes a
\* denial.
LEMMA DenialsBefore ==
    ASSUME IInv, NEW r \in Rows, NEW x \in Rows, IsDeny(r.verdict), ~Before(r, x)
    PROVE  IsDeny(x.verdict)
<1> SUFFICES ASSUME ~IsDeny(x.verdict) PROVE FALSE
  OBVIOUS
<1>1. severity(r.verdict) = 0 /\ severity(x.verdict) \in {1, 2, 3}
  BY DEF severity, IsDeny, IsAllow, IsSkip, Deny, Allow, Skip
<1>2. SortKey(r) \in [1..6 -> Int] /\ SortKey(x) \in [1..6 -> Int]
  BY SortKeyTyped
<1>3. SortKey(r)[1] = severity(r.verdict) /\ SortKey(x)[1] = severity(x.verdict)
  BY DEF SortKey
<1>4. SortKey(r)[1] < SortKey(x)[1] /\ 1 \in DOMAIN SortKey(r)
  BY <1>1, <1>2, <1>3
<1>5. QED
  BY <1>4 DEF Before

\* The rows of a family are rows.
LEMMA FilterRows ==
    ASSUME IInv, NEW family, NEW r \in Rows, r.verdict \in family
    PROVE  LET S == {x \in Rows : x.verdict \in family} IN
           /\ filter(family) \in Seq(S)
           /\ \E j \in 1..Len(filter(family)) : filter(family)[j] = r
<1> DEFINE S == {x \in Rows : x.verdict \in family}
<1>1. S \in SUBSET Rows /\ r \in S /\ filter(family) = Sorted(S)
  BY DEF filter
<1> HIDE DEF S
<1>2. /\ Sorted(S) \in Seq(S)
      /\ \A x \in S : \E j \in 1..Len(Sorted(S)) : Sorted(S)[j] = x
  BY <1>1, SortedRows
<1>3. QED
  BY <1>1, <1>2 DEF S

\* What each renderer makes of a denial that its tables do not show.
LEMMA RenderedDenials ==
    ASSUME IInv, NEW f, NEW r \in Rows, IsDeny(r.verdict),
           NEW R, R = Rendered(f),
           NEW shown, shown = UNION {Range(R.tables[i]) : i \in DOMAIN R.tables},
           r \notin shown
    PROVE  /\ \/ \E i \in DOMAIN R.omitted : R.omitted[i] > 0
              \/ R.warned
              \/ f = "annotations" /\ R.level = "off"
           /\ f # "markdown" => \A x \in shown : IsDeny(x.verdict)
<1> DEFINE T == Tables(f)
           L == LimitOf(f)
           D == {x \in Rows : x.verdict \in Deny}
<1>1. /\ R.tables = [i \in DOMAIN T |-> limitRows(T[i], L)]
      /\ R.omitted = [i \in DOMAIN T |->
                          OmittedNote(f, Len(T[i]) - Len(limitRows(T[i], L)))]
      /\ R.level = resolveLevel /\ R.warned = Truncated
  BY DEF Rendered
<1>2. L \in Nat /\ cmd.top \in Nat
  BY ReportAssumption DEF LimitOf, IInv, Scanned
<1>3. /\ filter(Deny) \in Seq(D) /\ r \in D
      /\ \E j \in 1..Len(filter(Deny)) : filter(Deny)[j] = r
  BY FilterRows DEF IsDeny
<1> HIDE DEF T, L, D
<1>4. ASSUME NEW i \in DOMAIN T PROVE r \notin Range(limitRows(T[i], L))
  BY <1>1, <1>4
<1>5. ASSUME NEW i \in DOMAIN T, T[i] = filter(Deny), f # "csv"
      PROVE  \E k \in DOMAIN R.omitted : R.omitted[k] > 0
  <2>1. Len(T[i]) - Len(limitRows(T[i], L)) > 0
    BY <1>2, <1>3, <1>4, <1>5, Limited
  <2>2. QED
    BY <1>1, <1>5, <2>1 DEF OmittedNote
<1>6. CASE f = "markdown"
  <2>1. DOMAIN T = 1..3 /\ T[1] = filter(Deny)
    BY <1>6 DEF T, Tables, MarkdownTables
  <2>2. QED
    BY <1>5, <1>6, <2>1
<1>7. CASE f = "annotations" /\ resolveLevel = "off"
  <2>1. DOMAIN T = {}
    BY <1>7, EmptyDomain DEF T, Tables, AnnotationTables
  <2>2. shown = {}
    BY <1>1, <2>1
  <2>3. QED
    BY <1>1, <1>7, <2>2
<1>8. CASE f = "annotations" /\ resolveLevel # "off"
  <2>1. DOMAIN T = {1} /\ T[1] = filter(Deny)
    BY <1>8 DEF T, Tables, AnnotationTables
  <2>2. ASSUME NEW x \in shown PROVE IsDeny(x.verdict)
    <3>1. x \in Range(limitRows(filter(Deny), L))
      BY <1>1, <2>1, <2>2
    <3>2. \E i \in 1..Len(filter(Deny)) : filter(Deny)[i] = x
      BY <1>2, <1>3, <1>4, <2>1, <3>1, Limited
    <3>3. x \in D
      BY <1>3, <3>2
    <3>4. QED
      BY <3>3 DEF D, IsDeny
  <2>3. QED
    BY <1>5, <1>8, <2>1, <2>2
<1>9. CASE f \notin {"markdown", "annotations"}
  <2>1. DOMAIN T = {1} /\ T[1] = Destinations /\ L = cmd.top
    BY <1>9 DEF T, L, Tables, OneTable, LimitOf
  <2>2. /\ Destinations \in Seq(Rows) /\ Len(Destinations) = Cardinality(Rows)
        /\ \E j \in 1..Len(Destinations) : Destinations[j] = r
        /\ \A i, j \in 1..Len(Destinations) :
               i < j => ~Before(Destinations[j], Destinations[i])
    BY SortedRows DEF Destinations
  <2>3. r \notin Range(limitRows(Destinations, L))
    BY <1>4, <2>1
  <2>4. /\ L > 0 /\ Len(Destinations) > L
        /\ Len(Destinations) - Len(limitRows(Destinations, L)) > 0
        /\ \E j \in 1..Len(Destinations) : Destinations[j] = r /\ j > L
        /\ \A y \in Range(limitRows(Destinations, L)) :
               \E i \in 1..Len(Destinations) : Destinations[i] = y /\ i <= L
    BY <1>2, <2>2, <2>3, Limited
  <2>5. R.warned
    BY <1>1, <2>1, <2>2, <2>4 DEF Truncated
  <2>6. ASSUME NEW x \in shown PROVE IsDeny(x.verdict)
    <3>1. x \in Range(limitRows(Destinations, L))
      BY <1>1, <2>1, <2>6
    <3>2. PICK i \in 1..Len(Destinations) : Destinations[i] = x /\ i <= L
      BY <2>4, <3>1
    <3>3. PICK j \in 1..Len(Destinations) : Destinations[j] = r /\ j > L
      BY <2>4
    <3>4. i < j
      BY <1>2, <3>2, <3>3
    <3>5. ~Before(r, x) /\ x \in Rows
      BY <2>2, <3>2, <3>3, <3>4
    <3>6. QED
      BY <3>5, DenialsBefore
  <2>7. QED
    BY <2>5, <2>6
<1>10. QED
  BY <1>6, <1>7, <1>8, <1>9

\* limitRows, render*.go and Truncated: no denial disappears from a report
\* without a word, and none gives way to a row that is not one.
THEOREM DenialsAnnounced == Spec => []DenialsFirst
<1>1. Init => DenialsFirst
  BY DEF Init, DenialsFirst
<1>2. ASSUME IInv, DenialsFirst, [Next]_vars PROVE DenialsFirst'
  <2>1. CASE Render
    <3> DEFINE f == ResolveFormat(cmd.format)
    <3>1. /\ cmd' = cmd /\ Rows' = Rows /\ f' = f
          /\ ~cmd.raw => report' = Rendered(f)
      BY <2>1 DEF Render, Rows, collector, ResolveFormat
    <3> HIDE DEF f
    <3>2. ASSUME ~cmd.raw, NEW r \in Rows, IsDeny(r.verdict), r \notin Shown'
          PROVE  /\ \/ \E i \in DOMAIN report'.omitted : report'.omitted[i] > 0
                    \/ report'.warned
                    \/ f = "annotations" /\ report'.level = "off"
                 /\ f # "markdown" => \A x \in Shown' : IsDeny(x.verdict)
      <4>1. Shown' = UNION {Range(report'.tables[i]) : i \in DOMAIN report'.tables}
        BY DEF Shown
      <4>2. report' = Rendered(f)
        BY <3>1, <3>2
      <4> DEFINE shown == Shown'
                 R     == report'
      <4>3. shown = UNION {Range(R.tables[i]) : i \in DOMAIN R.tables} /\ R = Rendered(f)
            /\ r \notin shown
        BY <3>2, <4>1, <4>2
      <4> HIDE DEF shown, R
      <4>4. /\ \/ \E i \in DOMAIN R.omitted : R.omitted[i] > 0
               \/ R.warned
               \/ f = "annotations" /\ R.level = "off"
            /\ f # "markdown" => \A x \in shown : IsDeny(x.verdict)
        BY <1>2, <3>2, <4>3, RenderedDenials
      <4>5. QED
        BY <4>4 DEF R, shown
    <3>3. QED
      BY <3>1, <3>2 DEF DenialsFirst, f
  <2>2. CASE Next /\ ~Render
    <3>1. state' # "done"
      BY <2>2 DEF Next, ScanVerdict, ScanMalformed, ScanOther, ScanTooLong, Read
    <3>2. QED
      BY <3>1 DEF DenialsFirst
  <2>3. CASE UNCHANGED vars
    <3>1. /\ cmd' = cmd /\ state' = state /\ Rows' = Rows /\ Shown' = Shown
          /\ report' = report
      BY <2>3 DEF vars, Rows, Shown
    <3>2. QED
      BY <1>2, <3>1 DEF DenialsFirst, ResolveFormat
  <2>4. QED
    BY <1>2, <2>1, <2>2, <2>3
<1>3. QED
  BY <1>1, <1>2, Inductive, PTL DEF Spec
=============================================================================
