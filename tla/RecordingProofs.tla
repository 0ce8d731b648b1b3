-------------------------- MODULE RecordingProofs --------------------------
(***************************************************************************)
(* Theorems about Recording: what the database holds of a node's counters, *)
(* for all messages, topics and numbers of recording tasks.                *)
(***************************************************************************)
EXTENDS Recording, NaturalLemmas

UnfilteredName == "topic_msg_recv_counts_unfiltered"
CountsName == "topic_msg_recv_counts"

Entry == [message : Message, received : BOOLEAN]

-----------------------------------------------------------------------------
(* The counters *)

ReceivedAt(n, t) == {i \in 1..n : log[i].received /\ log[i].message.topic = t}
NewAt(n, t)      == {i \in 1..n : New(i) /\ log[i].message.topic = t}
CopiesAt(n, t)   == {i \in 1..n : log[i].received /\ ~New(i) /\ log[i].message.topic = t}

Duplicates(n) == [t \in Topics |-> Cardinality(CopiesAt(n, t))]

\* The duplicates are the difference of the two counters, without saturation, and
\* no counter is above the number of messages.
LEMMA CounterFacts ==
  ASSUME NEW n \in Nat, NEW t \in Topics
  PROVE  /\ RecvCountsUnfiltered(n)[t] \in 0..n
         /\ RecvCounts(n)[t] \in 0..n
         /\ Duplicates(n)[t] \in 0..n
         /\ RecvCountsUnfiltered(n)[t] = RecvCounts(n)[t] + Duplicates(n)[t]
  <1>1. IsFiniteSet(1..n) /\ Cardinality(1..n) = n
    BY FS_Interval
  <1>2. /\ ReceivedAt(n, t) \subseteq 1..n /\ NewAt(n, t) \subseteq 1..n
        /\ CopiesAt(n, t) \subseteq 1..n
    BY DEF ReceivedAt, NewAt, CopiesAt
  <1>3. /\ ReceivedAt(n, t) = NewAt(n, t) \cup CopiesAt(n, t)
        /\ NewAt(n, t) \cap CopiesAt(n, t) = {}
    BY DEF ReceivedAt, NewAt, CopiesAt, New
  <1>4. /\ RecvCountsUnfiltered(n)[t] = Cardinality(ReceivedAt(n, t))
        /\ RecvCounts(n)[t] = Cardinality(NewAt(n, t))
        /\ Duplicates(n)[t] = Cardinality(CopiesAt(n, t))
    BY DEF RecvCountsUnfiltered, RecvCounts, Duplicates, ReceivedAt, NewAt
  <1> HIDE DEF ReceivedAt, NewAt, CopiesAt
  <1>5. /\ IsFiniteSet(NewAt(n, t)) /\ IsFiniteSet(CopiesAt(n, t))
        /\ Cardinality(ReceivedAt(n, t)) <= n /\ Cardinality(NewAt(n, t)) <= n
        /\ Cardinality(CopiesAt(n, t)) <= n
    BY <1>1, <1>2, FS_Subset
  <1>6. /\ Cardinality(ReceivedAt(n, t)) \in Nat /\ Cardinality(NewAt(n, t)) \in Nat
        /\ Cardinality(CopiesAt(n, t)) \in Nat
    BY <1>1, <1>2, FS_Subset, FS_CardinalityType
  <1>7. Cardinality(ReceivedAt(n, t)) = Cardinality(NewAt(n, t)) + Cardinality(CopiesAt(n, t))
    <2>1. Cardinality(NewAt(n, t) \cap CopiesAt(n, t)) = 0
      BY <1>3, FS_EmptySet
    <2>2. Cardinality(NewAt(n, t) \cup CopiesAt(n, t)) =
            Cardinality(NewAt(n, t)) + Cardinality(CopiesAt(n, t))
            - Cardinality(NewAt(n, t) \cap CopiesAt(n, t))
      BY <1>5, FS_Union
    <2> QED
      BY <1>3, <1>6, <2>1, <2>2
  <1> QED
    BY <1>4, <1>5, <1>6, <1>7

\* A counter never goes back.
LEMMA CountersGrow ==
  ASSUME NEW n \in Nat, NEW m \in Nat, m <= n, NEW t \in Topics
  PROVE  /\ RecvCountsUnfiltered(m)[t] <= RecvCountsUnfiltered(n)[t]
         /\ RecvCounts(m)[t] <= RecvCounts(n)[t]
         /\ Duplicates(m)[t] <= Duplicates(n)[t]
  <1>1. IsFiniteSet(1..n)
    BY FS_Interval
  <1>2. /\ ReceivedAt(n, t) \subseteq 1..n /\ NewAt(n, t) \subseteq 1..n
        /\ CopiesAt(n, t) \subseteq 1..n
        /\ ReceivedAt(m, t) \subseteq ReceivedAt(n, t) /\ NewAt(m, t) \subseteq NewAt(n, t)
        /\ CopiesAt(m, t) \subseteq CopiesAt(n, t)
    <2>1. \A i \in 1..m : i \in 1..n
      OBVIOUS
    <2> QED
      BY <2>1 DEF ReceivedAt, NewAt, CopiesAt
  <1>4. \A k \in {m, n} :
        /\ RecvCountsUnfiltered(k)[t] = Cardinality(ReceivedAt(k, t))
        /\ RecvCounts(k)[t] = Cardinality(NewAt(k, t))
        /\ Duplicates(k)[t] = Cardinality(CopiesAt(k, t))
    BY DEF RecvCountsUnfiltered, RecvCounts, Duplicates, ReceivedAt, NewAt
  <1> HIDE DEF ReceivedAt, NewAt, CopiesAt
  <1>5. /\ IsFiniteSet(ReceivedAt(n, t)) /\ IsFiniteSet(NewAt(n, t))
        /\ IsFiniteSet(CopiesAt(n, t))
    BY <1>1, <1>2, FS_Subset
  <1>6. /\ Cardinality(ReceivedAt(m, t)) <= Cardinality(ReceivedAt(n, t))
        /\ Cardinality(NewAt(m, t)) <= Cardinality(NewAt(n, t))
        /\ Cardinality(CopiesAt(m, t)) <= Cardinality(CopiesAt(n, t))
    BY <1>2, <1>5, FS_Subset
  <1> QED
    BY <1>4, <1>6

\* The counters of a snapshot do not depend on what comes after it.
LEMMA CountersKept ==
  ASSUME log \in Seq(Entry),
         \/ log' = log
         \/ \E entry \in Entry : log' = Append(log, entry)
  PROVE  /\ Len(log) <= Len(log')
         /\ \A n \in 0..Len(log) :
              /\ RecvCountsUnfiltered(n)' = RecvCountsUnfiltered(n)
              /\ RecvCounts(n)' = RecvCounts(n)
              /\ Duplicates(n)' = Duplicates(n)
  <1>1. Len(log) <= Len(log') /\ \A i \in 1..Len(log) : log'[i] = log[i]
    OBVIOUS
  <1>2. ASSUME NEW n \in 0..Len(log)
        PROVE  /\ RecvCountsUnfiltered(n)' = RecvCountsUnfiltered(n)
               /\ RecvCounts(n)' = RecvCounts(n)
               /\ Duplicates(n)' = Duplicates(n)
    <2>1. \A i \in 1..n : log'[i] = log[i] /\ \A j \in 1..i-1 : log'[j] = log[j]
      BY <1>1
    <2>2. \A i \in 1..n : New(i)' <=> New(i)
      BY <2>1 DEF New
    <2>3. \A t \in Topics :
            /\ {i \in 1..n : log'[i].received /\ log'[i].message.topic = t} =
               {i \in 1..n : log[i].received /\ log[i].message.topic = t}
            /\ {i \in 1..n : New(i)' /\ log'[i].message.topic = t} =
               {i \in 1..n : New(i) /\ log[i].message.topic = t}
            /\ CopiesAt(n, t)' = CopiesAt(n, t)
      BY <2>1, <2>2 DEF CopiesAt
    <2> QED
      BY <2>3 DEF RecvCountsUnfiltered, RecvCounts, Duplicates
  <1> QED
    BY <1>1, <1>2

-----------------------------------------------------------------------------
(* Points *)

Names == {UnfilteredName, CountsName, "topic_msg_recv_duplicates",
          "topic_msg_recv_counts_duplicates"}

Hash(t) == {<<"hash", t>>}
EpochTag(e) == {<<"epoch", e>>}

Tags == {Hash(t) : t \in Topics} \cup {EpochTag(e) : e \in Epochs}
Series == (Names \cup Topics) \X Tags \X Nat
Query == [series : Series, count : Nat]

\* q is the value of a counter in the snapshot of its time.
SnapshotPoint(q) ==
    \E t \in Topics, at \in 0..Len(log) :
        \/ q = Point(UnfilteredName, Hash(t), at, RecvCountsUnfiltered(at)[t])
        \/ q = Point(CountsName, Hash(t), at, RecvCounts(at)[t])
        \/ q = Point(DuplicatesName, Hash(t), at, Duplicates(at)[t])

\* q is the number of messages of a topic and an epoch, at the end of the run.
FinalCount(q) ==
    over /\ \E t \in Topics, e \in Epochs : Counted(t, e) > 0 /\ q = EpochPoint(t, e)

TruePoint(q) == SnapshotPoint(q) \/ FinalCount(q)

LEMMA PointFields ==
  \A name, tags, at, count :
     /\ Point(name, tags, at, count).series = <<name, tags, at>>
     /\ Point(name, tags, at, count).count = count
     /\ Point(name, tags, at, count).series[1] = name
     /\ Point(name, tags, at, count).series[2] = tags
     /\ Point(name, tags, at, count).series[3] = at
  BY DEF Point

LEMMA NamesDiffer ==
  /\ DuplicatesName \in Names
  /\ DuplicatesName # UnfilteredName /\ DuplicatesName # CountsName
  /\ UnfilteredName # CountsName
  /\ Topics \cap Names = {}
  BY NamesAssumption DEF DuplicatesName, Names, UnfilteredName, CountsName

\* The series and the time of a true point determine its count.
LEMMA OneCount ==
  ASSUME NEW p, NEW q, TruePoint(p), TruePoint(q), p.series = q.series
  PROVE  p.count = q.count
  <1>1. \A t, u : Hash(t) = Hash(u) => t = u
    <2> SUFFICES ASSUME NEW t, NEW u, Hash(t) = Hash(u) PROVE t = u
      OBVIOUS
    <2>1. <<"hash", t>> \in Hash(u)
      BY DEF Hash
    <2>2. <<"hash", t>> = <<"hash", u>>
      BY <2>1 DEF Hash
    <2> QED
      BY <2>2
  <1>2. \A t, u : EpochTag(t) = EpochTag(u) => t = u
    <2> SUFFICES ASSUME NEW t, NEW u, EpochTag(t) = EpochTag(u) PROVE t = u
      OBVIOUS
    <2>1. <<"epoch", t>> \in EpochTag(u)
      BY DEF EpochTag
    <2>2. <<"epoch", t>> = <<"epoch", u>>
      BY <2>1 DEF EpochTag
    <2> QED
      BY <2>2
  <1>3. CASE SnapshotPoint(p) /\ SnapshotPoint(q)
    <2>1. PICK t \in Topics, at \in 0..Len(log) :
             \/ p = Point(UnfilteredName, Hash(t), at, RecvCountsUnfiltered(at)[t])
             \/ p = Point(CountsName, Hash(t), at, RecvCounts(at)[t])
             \/ p = Point(DuplicatesName, Hash(t), at, Duplicates(at)[t])
      BY <1>3, Zenon DEF SnapshotPoint
    <2>2. PICK u \in Topics, from \in 0..Len(log) :
             \/ q = Point(UnfilteredName, Hash(u), from, RecvCountsUnfiltered(from)[u])
             \/ q = Point(CountsName, Hash(u), from, RecvCounts(from)[u])
             \/ q = Point(DuplicatesName, Hash(u), from, Duplicates(from)[u])
      BY <1>3, Zenon DEF SnapshotPoint
    <2>3. p.series[2] = Hash(t) /\ p.series[3] = at /\ q.series[2] = Hash(u) /\ q.series[3] = from
      BY <2>1, <2>2, PointFields
    <2>4. t = u /\ at = from
      BY <1>1, <2>3
    <2> DEFINE a == RecvCountsUnfiltered(at)[t]
               b == RecvCounts(at)[t]
               c == Duplicates(at)[t]
    <2>5. /\ \/ p.series[1] = UnfilteredName /\ p.count = a
             \/ p.series[1] = CountsName /\ p.count = b
             \/ p.series[1] = DuplicatesName /\ p.count = c
          /\ \/ q.series[1] = UnfilteredName /\ q.count = a
             \/ q.series[1] = CountsName /\ q.count = b
             \/ q.series[1] = DuplicatesName /\ q.count = c
      BY <2>1, <2>2, <2>4, PointFields
    <2> QED
      BY <2>5, NamesDiffer, Zenon
  <1>4. ASSUME NEW r, SnapshotPoint(r) PROVE r.series[1] \in Names
    <2>1. \/ r.series[1] = UnfilteredName \/ r.series[1] = CountsName
          \/ r.series[1] = DuplicatesName
      BY <1>4, PointFields DEF SnapshotPoint
    <2> QED
      BY <2>1, NamesDiffer DEF Names
  <1>5. ASSUME NEW r, FinalCount(r)
        PROVE  \E t \in Topics, e \in Epochs :
                  /\ r.series[1] = t /\ r.series[2] = EpochTag(e) /\ r.count = Counted(t, e)
    <2>1. PICK t \in Topics, e \in Epochs : r = EpochPoint(t, e)
      BY <1>5 DEF FinalCount
    <2>2. r = Point(t, EpochTag(e), e * SLOTS_PER_EPOCH, Counted(t, e))
      BY <2>1 DEF EpochPoint, EpochTag
    <2> QED
      BY <2>2, PointFields
  <1>6. ~((p.series[1] \in Names) /\ (p.series[1] \in Topics))
    BY NamesDiffer
  <1>7. CASE FinalCount(p) /\ FinalCount(q)
    <2>1. PICK t \in Topics, e \in Epochs :
             /\ p.series[1] = t /\ p.series[2] = EpochTag(e) /\ p.count = Counted(t, e)
      BY <1>5, <1>7, Zenon
    <2>2. PICK u \in Topics, f \in Epochs :
             /\ q.series[1] = u /\ q.series[2] = EpochTag(f) /\ q.count = Counted(u, f)
      BY <1>5, <1>7, Zenon
    <2>3. t = u /\ e = f
      BY <1>2, <2>1, <2>2
    <2> QED
      BY <2>1, <2>2, <2>3
  <1>8. \/ SnapshotPoint(p) /\ SnapshotPoint(q)
        \/ FinalCount(p) /\ FinalCount(q)
    <2>1. SnapshotPoint(p) => ~FinalCount(q)
      BY <1>4, <1>5, <1>6
    <2>2. SnapshotPoint(q) => ~FinalCount(p)
      BY <1>4, <1>5, <1>6
    <2> QED
      BY <2>1, <2>2 DEF TruePoint
  <1> QED
    BY <1>3, <1>7, <1>8

-----------------------------------------------------------------------------
(* Sequences made of sets and of sequences *)

LEMMA SequenceOfSet ==
  ASSUME NEW S, IsFiniteSet(S)
  PROVE  /\ Cardinality(S) \in Nat
         /\ SetToSeq(S) \in [1..Cardinality(S) -> S]
         /\ \A x \in S : \E i \in 1..Cardinality(S) : SetToSeq(S)[i] = x
  <1> DEFINE n == Cardinality(S)
             seq == SetToSeq(S)
  <1>1. n \in Nat /\ \E f \in [1..n -> S] : IsInjective(f)
    BY FS_CardinalityType DEF ExistsBijection, Bijection, Injection
  <1>2. seq \in [1..n -> S] /\ IsInjective(seq)
    BY <1>1 DEF SetToSeq
  <1>3. seq \in Injection(1..n, S)
    BY <1>2, Zenon DEF Injection
  <1>4. Cardinality(1..n) = n
    BY <1>1, FS_Interval
  <1> HIDE DEF seq, n
  <1>5. seq \in Surjection(1..n, S)
    BY <1>3, <1>4, FS_Injection DEF n
  <1>6. \A x \in S : \E i \in 1..n : seq[i] = x
    BY <1>5 DEF Surjection
  <1> QED
    BY <1>1, <1>2, <1>6 DEF n, seq

\* k sequences of seqs are in flat, and nothing else.
FlatUpTo(flat, seqs, k) ==
    /\ \A i \in DOMAIN flat : \E l \in 1..k : \E j \in DOMAIN seqs[l] : flat[i] = seqs[l][j]
    /\ \A l \in 1..k : \A j \in DOMAIN seqs[l] : \E i \in DOMAIN flat : flat[i] = seqs[l][j]

LEMMA FlatStep ==
  ASSUME NEW X, NEW n \in Nat, NEW seqs \in [1..n -> Seq(X)], NEW k \in 1..n, k + 1 \in 1..n,
         NEW flat \in Seq(X), FlatUpTo(flat, seqs, k)
  PROVE  /\ flat \o seqs[k + 1] \in Seq(X)
         /\ FlatUpTo(flat \o seqs[k + 1], seqs, k + 1)
  <1> DEFINE new == seqs[k + 1]
             both == flat \o new
  <1>1. new \in Seq(X)
    OBVIOUS
  <1>2. /\ both \in Seq(X) /\ Len(both) = Len(flat) + Len(new)
        /\ DOMAIN both = 1..Len(both) /\ DOMAIN flat = 1..Len(flat) /\ DOMAIN new = 1..Len(new)
        /\ Len(flat) \in Nat /\ Len(new) \in Nat
        /\ \A i \in 1..Len(flat) : both[i] = flat[i]
        /\ \A j \in 1..Len(new) : both[Len(flat) + j] = new[j]
    BY <1>1
  <1>3. \A l \in 1..k + 1 : l \in 1..k \/ l = k + 1
    OBVIOUS
  <1> HIDE DEF new, both
  <1>4. ASSUME NEW i \in DOMAIN both
        PROVE  \E l \in 1..k + 1 : \E j \in DOMAIN seqs[l] : both[i] = seqs[l][j]
    <2>1. CASE i \in 1..Len(flat)
      <3>1. PICK l \in 1..k : \E j \in DOMAIN seqs[l] : flat[i] = seqs[l][j]
        BY <1>2, <2>1 DEF FlatUpTo
      <3> QED
        BY <1>2, <2>1, <3>1
    <2>2. CASE i \notin 1..Len(flat)
      <3>1. /\ i - Len(flat) \in 1..Len(new) /\ both[i] = new[i - Len(flat)]
        <4>1. i \in Nat /\ i > Len(flat) /\ i <= Len(flat) + Len(new)
          BY <1>2, <1>4, <2>2
        <4>2. i - Len(flat) \in 1..Len(new) /\ Len(flat) + (i - Len(flat)) = i
          BY <1>2, <4>1
        <4> QED
          BY <1>2, <4>2
      <3>2. k + 1 \in 1..k + 1
        OBVIOUS
      <3> QED
        BY <1>2, <3>1, <3>2 DEF new
    <2> QED
      BY <2>1, <2>2
  <1>5. ASSUME NEW l \in 1..k + 1, NEW j \in DOMAIN seqs[l]
        PROVE  \E i \in DOMAIN both : both[i] = seqs[l][j]
    <2>1. CASE l \in 1..k
      <3>1. PICK i \in DOMAIN flat : flat[i] = seqs[l][j]
        BY <1>5, <2>1 DEF FlatUpTo
      <3>2. i \in DOMAIN both
        BY <1>2
      <3> QED
        BY <1>2, <3>1, <3>2
    <2>2. CASE l = k + 1
      <3>1. j \in 1..Len(new) /\ new[j] = seqs[l][j]
        BY <1>2, <1>5, <2>2 DEF new
      <3>2. Len(flat) + j \in DOMAIN both
        BY <1>2, <3>1
      <3> QED
        BY <1>2, <3>1, <3>2
    <2> QED
      BY <1>3, <2>1, <2>2
  <1> QED
    BY <1>2, <1>4, <1>5 DEF FlatUpTo, both, new

LEMMA Flattened ==
  ASSUME NEW X, NEW n \in Nat, NEW seqs \in [1..n -> Seq(X)]
  PROVE  /\ FlattenSeq(seqs) \in Seq(X)
         /\ FlatUpTo(FlattenSeq(seqs), seqs, n)
  <1>0. Len(seqs) = n
    OBVIOUS
  <1>1. CASE n = 0
    <2>1. FlattenSeq(seqs) = seqs /\ seqs = <<>>
      BY <1>0, <1>1 DEF FlattenSeq
    <2> QED
      BY <1>1, <2>1 DEF FlatUpTo
  <1>2. CASE n # 0
    <2> DEFINE flatten[i \in 1..n] == IF i = 1 THEN seqs[i] ELSE flatten[i - 1] \o seqs[i]
               base == seqs[1]
               step == [p \in Seq(X) \X (1..n - 1) |-> p[1] \o seqs[p[2] + 1]]
    <2>1. FlattenSeq(seqs) = flatten[n]
      BY <1>0, <1>2 DEF FlattenSeq
    <2>2. base \in Seq(X) /\ n - 1 \in Nat
      BY <1>2
    <2>3. step \in Steps(Seq(X), n - 1)
      <3>1. \A p \in Seq(X) \X (1..n - 1) : p[1] \o seqs[p[2] + 1] \in Seq(X)
        <4> TAKE p \in Seq(X) \X (1..n - 1)
        <4>1. p[1] \in Seq(X) /\ p[2] + 1 \in 1..n
          BY <2>2
        <4>2. seqs[p[2] + 1] \in Seq(X)
          BY <4>1
        <4> QED
          BY <4>1, <4>2
      <3> QED
        BY <3>1 DEF Steps
    <2> HIDE DEF flatten, step
    <2>4. PICK f : Iterates(f, Seq(X), base, step, n - 1)
      BY <2>2, <2>3, IterationExists
    <2>5. /\ f \in [0..n - 1 -> Seq(X)] /\ f[0] = base
          /\ \A i \in 1..n - 1 : f[i] = step[<<f[i - 1], i>>]
      BY <2>4 DEF Iterates
    <2>6. \A i \in 1..n - 1 : f[i] = f[i - 1] \o seqs[i + 1]
      <3> SUFFICES ASSUME NEW i \in 1..n - 1 PROVE f[i] = f[i - 1] \o seqs[i + 1]
        OBVIOUS
      <3>1. f[i - 1] \in Seq(X)
        BY <2>2, <2>5
      <3> QED
        BY <2>5, <3>1 DEF step
    <2> DEFINE g == [i \in 1..n |-> f[i - 1]]
    <2>7. g = [i \in 1..n |-> IF i = 1 THEN seqs[i] ELSE g[i - 1] \o seqs[i]]
      <3>1. ASSUME NEW i \in 1..n
            PROVE  g[i] = IF i = 1 THEN seqs[i] ELSE g[i - 1] \o seqs[i]
        <4>1. CASE i = 1
          BY <2>5, <4>1
        <4>2. CASE i # 1
          <5>1. i - 1 \in 1..n - 1 /\ (i - 1) + 1 = i /\ i - 1 \in 1..n
            BY <4>2
          <5>2. f[i - 1] = f[(i - 1) - 1] \o seqs[i]
            BY <2>6, <5>1
          <5>3. g[i] = f[i - 1] /\ g[i - 1] = f[(i - 1) - 1]
            BY <5>1
          <5> QED
            BY <4>2, <5>2, <5>3
        <4> QED
          BY <4>1, <4>2
      <3> QED
        BY <3>1
    <2> HIDE DEF g
    <2>8. flatten = [i \in 1..n |-> IF i = 1 THEN seqs[i] ELSE flatten[i - 1] \o seqs[i]]
      BY <2>7 DEF flatten
    <2>9. /\ flatten[1] = base
          /\ \A k \in 1..n : k + 1 \in 1..n => flatten[k + 1] = flatten[k] \o seqs[k + 1]
      <3>1. \A i \in 1..n : flatten[i] = IF i = 1 THEN seqs[i] ELSE flatten[i - 1] \o seqs[i]
        BY <2>8
      <3>2. 1 \in 1..n
        BY <1>2
      <3>3. \A k \in 1..n : k + 1 # 1 /\ (k + 1) - 1 = k
        OBVIOUS
      <3> QED
        BY <3>1, <3>2, <3>3
    <2> DEFINE T == {k \in 0..n - 1 :
                       /\ flatten[k + 1] \in Seq(X)
                       /\ FlatUpTo(flatten[k + 1], seqs, k + 1)}
    <2>10. 0 \in T
      <3>1. FlatUpTo(base, seqs, 1)
        <4>1. 1..1 = {1}
          OBVIOUS
        <4> QED
          BY <4>1 DEF FlatUpTo
      <3>2. 0 + 1 = 1 /\ 0 \in 0..n - 1
        BY <2>2
      <3> QED
        BY <2>2, <2>9, <3>1, <3>2
    <2>11. ASSUME NEW k \in 0..(n - 1) - 1, k \in T PROVE k + 1 \in T
      <3>1. k + 1 \in 1..n /\ (k + 1) + 1 \in 1..n /\ k + 1 \in 0..n - 1
        BY <2>2
      <3>2. /\ flatten[(k + 1) + 1] = flatten[k + 1] \o seqs[(k + 1) + 1]
            /\ flatten[k + 1] \in Seq(X) /\ FlatUpTo(flatten[k + 1], seqs, k + 1)
        BY <2>9, <2>11, <3>1
      <3>3. /\ flatten[(k + 1) + 1] \in Seq(X)
            /\ FlatUpTo(flatten[(k + 1) + 1], seqs, (k + 1) + 1)
        BY <3>1, <3>2, FlatStep
      <3> QED
        BY <3>1, <3>3
    <2> HIDE DEF T
    <2>12. \A k \in 0..n - 1 : k \in T
      BY <2>2, <2>10, <2>11, BoundedInduction
    <2>13. n - 1 \in T /\ (n - 1) + 1 = n
      BY <2>2, <2>12
    <2> QED
      BY <2>1, <2>13 DEF T
  <1> QED
    BY <1>1, <1>2

-----------------------------------------------------------------------------
(* The queries *)

LEMMA PointIsQuery ==
  ASSUME NEW name \in Names \cup Topics, NEW tags \in Tags, NEW at \in Nat, NEW count \in Nat
  PROVE  Point(name, tags, at, count) \in Query
  <1>1. <<name, tags, at>> \in Series
    BY DEF Series
  <1> QED
    BY <1>1 DEF Point, Query

LEMMA FamilyFacts ==
  ASSUME NEW n \in Nat, NEW order \in [1..n -> Topics], NEW counts \in [Topics -> Nat]
  PROVE  /\ DOMAIN Family(counts, order) = 1..n /\ Len(Family(counts, order)) = n
         /\ \A i \in 1..n :
              /\ order[i] \in Topics
              /\ Family(counts, order)[i].labels = Hash(order[i])
              /\ Family(counts, order)[i].value = counts[order[i]]
  <1>1. Family(counts, order) =
          [i \in 1..n |-> [labels |-> Hash(order[i]), value |-> counts[order[i]]]]
    BY DEF Family, Hash
  <1> QED
    BY <1>1

LEMMA CounterQueries ==
  ASSUME NEW n \in Nat, NEW order \in [1..n -> Topics], NEW counts \in [Topics -> Nat],
         NEW name \in Names, NEW at \in Nat
  PROVE  LET queries == queries_for_counter(name, Family(counts, order), at) IN
         /\ queries \in Seq(Query) /\ DOMAIN queries = 1..n
         /\ \A i \in 1..n : queries[i] = Point(name, Hash(order[i]), at, counts[order[i]])
  <1> DEFINE family == Family(counts, order)
             queries == queries_for_counter(name, family, at)
  <1>1. DOMAIN family = 1..n /\ \A i \in 1..n :
          family[i].labels = Hash(order[i]) /\ family[i].value = counts[order[i]]
    BY FamilyFacts
  <1> HIDE DEF family
  <1>2. queries = [i \in 1..n |-> Point(name, family[i].labels, at, family[i].value)]
    BY <1>1 DEF queries_for_counter
  <1>3. \A i \in 1..n : queries[i] = Point(name, Hash(order[i]), at, counts[order[i]])
    BY <1>1, <1>2
  <1>4. ASSUME NEW i \in 1..n PROVE queries[i] \in Query
    <2>1. order[i] \in Topics /\ counts[order[i]] \in Nat
      OBVIOUS
    <2>2. Hash(order[i]) \in Tags
      BY <2>1 DEF Tags
    <2> QED
      BY <1>3, <2>1, <2>2, PointIsQuery
  <1>5. queries \in [1..n -> Query]
    BY <1>2, <1>4
  <1> QED
    BY <1>3, <1>5 DEF family

FoundIn(family, metric) == SelectInSeq(family, LAMBDA other : Matches(metric, other))

\* The metric that is found is that of the same topic.
LEMMA FoundTopic ==
  ASSUME NEW n \in Nat, NEW order \in [1..n -> Topics], NEW counts \in [Topics -> Nat],
         NEW t \in Topics, NEW metric, metric.labels = Hash(t),
         FoundIn(Family(counts, order), metric) # 0
  PROVE  Family(counts, order)[FoundIn(Family(counts, order), metric)].value = counts[t]
  <1> DEFINE family == Family(counts, order)
             found == FoundIn(family, metric)
             I == {i \in 1..Len(family) : Matches(metric, family[i])}
  <1>1. Len(family) = n /\ \A i \in 1..n :
          family[i].labels = Hash(order[i]) /\ family[i].value = counts[order[i]]
    BY FamilyFacts
  <1>2. I # {} /\ found = Min(I)
    BY DEF FoundIn, SelectInSeq
  <1> HIDE DEF family, found
  <1>3. I \subseteq Nat
    OBVIOUS
  <1> HIDE DEF I
  <1>4. \E x \in I : \A y \in I : x <= y
    <2> DEFINE T == {k \in Nat : (\E y \in I : y <= k) => \E x \in I : \A y \in I : x <= y}
    <2>1. 0 \in T
      BY <1>3
    <2>2. \A k \in Nat : k \in T => k + 1 \in T
      <3> SUFFICES ASSUME NEW k \in Nat, k \in T, NEW z \in I, z <= k + 1
                   PROVE  \E x \in I : \A y \in I : x <= y
        OBVIOUS
      <3>1. CASE \E y \in I : y <= k
        BY <3>1
      <3>2. CASE ~\E y \in I : y <= k
        <4>1. \A y \in I : z <= y
          BY <1>3, <3>2
        <4> QED
          BY <4>1
      <3> QED
        BY <3>1, <3>2
    <2> HIDE DEF T
    <2>3. \A k \in Nat : k \in T
      BY <2>1, <2>2, SetInduction
    <2>4. PICK y \in I : y \in Nat /\ y <= y
      <3>1. \A y \in I : y \in Nat /\ y <= y
        BY <1>3
      <3> QED
        BY <1>2, <3>1
    <2>5. y \in T
      BY <2>3, <2>4
    <2> QED
      BY <2>4, <2>5 DEF T
  <1>5. found \in I
    BY <1>2, <1>4 DEF Min
  <1>6. found \in 1..n /\ Matches(metric, family[found])
    BY <1>1, <1>5 DEF I
  <1>7. Hash(t) \subseteq Hash(order[found])
    BY <1>1, <1>6 DEF Matches
  <1>8. <<"hash", t>> = <<"hash", order[found]>>
    BY <1>7 DEF Hash
  <1>9. t = order[found]
    BY <1>8
  <1> QED
    BY <1>1, <1>6, <1>9 DEF family, found

LEMMA CountsAreFunctions ==
  ASSUME NEW n \in Nat
  PROVE  RecvCountsUnfiltered(n) \in [Topics -> Nat] /\ RecvCounts(n) \in [Topics -> Nat]
  <1>1. \A t \in Topics : RecvCountsUnfiltered(n)[t] \in Nat /\ RecvCounts(n)[t] \in Nat
    BY CounterFacts
  <1>2. /\ RecvCountsUnfiltered(n) = [t \in Topics |-> RecvCountsUnfiltered(n)[t]]
        /\ RecvCounts(n) = [t \in Topics |-> RecvCounts(n)[t]]
    BY DEF RecvCountsUnfiltered, RecvCounts
  <1> QED
    BY <1>1, <1>2

LEMMA JoinedQueryTrue ==
  ASSUME NEW n \in Nat, NEW order \in [1..n -> Topics], NEW at \in Nat, NEW t \in Topics,
         NEW metric, metric.labels = Hash(t), metric.value = RecvCountsUnfiltered(at)[t]
  PROVE  LET query == JoinedQuery(DuplicatesName, metric, Family(RecvCounts(at), order), at) IN
         \/ query = <<>>
         \/ query = <<Point(DuplicatesName, Hash(t), at, Duplicates(at)[t])>>
  <1> DEFINE family == Family(RecvCounts(at), order)
             found == FoundIn(family, metric)
  <1>1. JoinedQuery(DuplicatesName, metric, family, at) =
          IF found = 0 THEN <<>>
          ELSE <<Point(DuplicatesName, metric.labels, at,
                       saturating_sub(metric.value, family[found].value))>>
    BY DEF JoinedQuery, FoundIn
  <1>2. ASSUME found # 0 PROVE family[found].value = RecvCounts(at)[t]
    <2>1. RecvCounts(at) \in [Topics -> Nat]
      BY CountsAreFunctions
    <2> QED
      BY <1>2, <2>1, FoundTopic
  <1>3. saturating_sub(RecvCountsUnfiltered(at)[t], RecvCounts(at)[t]) = Duplicates(at)[t]
    BY CounterFacts DEF saturating_sub
  <1> HIDE DEF family, found
  <1>4. CASE found = 0
    BY <1>1, <1>4 DEF family
  <1>5. CASE found # 0
    BY <1>1, <1>2, <1>3, <1>5 DEF family
  <1> QED
    BY <1>4, <1>5

\* The join is the duplicates of the topics it has found in both families.
LEMMA JoinedTrue ==
  ASSUME NEW n \in Nat, NEW order1 \in [1..n -> Topics],
         NEW m \in Nat, NEW order2 \in [1..m -> Topics], NEW at \in 0..Len(log), Len(log) \in Nat
  PROVE  LET family1 == Family(RecvCountsUnfiltered(at), order1)
             family2 == Family(RecvCounts(at), order2)
             queries == queries_for_counter_join(DuplicatesName, family1, family2, at)
         IN  /\ queries \in Seq(Query)
             /\ \A i \in DOMAIN queries : SnapshotPoint(queries[i])
  <1> DEFINE family1 == Family(RecvCountsUnfiltered(at), order1)
             family2 == Family(RecvCounts(at), order2)
             each == [i \in 1..n |-> JoinedQuery(DuplicatesName, family1[i], family2, at)]
             queries == queries_for_counter_join(DuplicatesName, family1, family2, at)
  <1>0. at \in Nat
    OBVIOUS
  <1>1. /\ DOMAIN family1 = 1..n
        /\ \A i \in 1..n : /\ order1[i] \in Topics
                           /\ family1[i].labels = Hash(order1[i])
                           /\ family1[i].value = RecvCountsUnfiltered(at)[order1[i]]
    BY <1>0, CountsAreFunctions, FamilyFacts
  <1>2. queries = FlattenSeq(each)
    BY <1>1 DEF queries_for_counter_join
  <1>3. ASSUME NEW i \in 1..n
        PROVE  \/ each[i] = <<>>
               \/ each[i] = <<Point(DuplicatesName, Hash(order1[i]), at, Duplicates(at)[order1[i]])>>
    <2>1. JoinedQuery(DuplicatesName, family1[i], family2, at) = each[i]
      OBVIOUS
    <2>2. /\ order1[i] \in Topics /\ family1[i].labels = Hash(order1[i])
          /\ family1[i].value = RecvCountsUnfiltered(at)[order1[i]]
      BY <1>1
    <2> HIDE DEF each, family1
    <2> QED
      BY <1>0, <2>1, <2>2, JoinedQueryTrue
  <1> HIDE DEF family1, family2, each
  <1>4. ASSUME NEW i \in 1..n
        PROVE  /\ each[i] \in Seq(Query)
               /\ \A j \in DOMAIN each[i] : SnapshotPoint(each[i][j])
    <2> DEFINE point == Point(DuplicatesName, Hash(order1[i]), at, Duplicates(at)[order1[i]])
    <2>1. CASE each[i] = <<>>
      BY <2>1
    <2>2. CASE each[i] = <<point>>
      <3>1. order1[i] \in Topics /\ Duplicates(at)[order1[i]] \in Nat
        BY <1>0, CounterFacts
      <3>2. Hash(order1[i]) \in Tags
        BY <3>1 DEF Tags
      <3>3. point \in Query
        BY <1>0, <3>1, <3>2, NamesDiffer, PointIsQuery
      <3>4. SnapshotPoint(point)
        BY <3>1 DEF SnapshotPoint
      <3> HIDE DEF point
      <3>5. DOMAIN <<point>> = {1} /\ <<point>>[1] = point /\ <<point>> \in Seq(Query)
        BY <3>3
      <3> QED
        BY <2>2, <3>4, <3>5
    <2> QED
      BY <1>3, <2>1, <2>2
  <1>5. each \in [1..n -> Seq(Query)]
    BY <1>4 DEF each
  <1>6. FlattenSeq(each) \in Seq(Query) /\ FlatUpTo(FlattenSeq(each), each, n)
    BY <1>5, Flattened
  <1>7. ASSUME NEW i \in DOMAIN queries PROVE SnapshotPoint(queries[i])
    <2>1. PICK l \in 1..n : \E j \in DOMAIN each[l] : queries[i] = each[l][j]
      BY <1>2, <1>6, <1>7 DEF FlatUpTo
    <2> QED
      BY <1>4, <2>1
  <1> QED
    BY <1>2, <1>6, <1>7 DEF family1, family2

LEMMA ConcatTrue ==
  ASSUME NEW p \in Seq(Query), NEW q \in Seq(Query),
         \A i \in DOMAIN p : SnapshotPoint(p[i]), \A i \in DOMAIN q : SnapshotPoint(q[i])
  PROVE  p \o q \in Seq(Query) /\ \A i \in DOMAIN (p \o q) : SnapshotPoint((p \o q)[i])
  <1>1. /\ p \o q \in Seq(Query) /\ DOMAIN (p \o q) = 1..Len(p) + Len(q)
        /\ DOMAIN p = 1..Len(p) /\ DOMAIN q = 1..Len(q) /\ Len(p) \in Nat /\ Len(q) \in Nat
    OBVIOUS
  <1>2. ASSUME NEW i \in 1..Len(p) + Len(q)
        PROVE  \/ i \in DOMAIN p /\ (p \o q)[i] = p[i]
               \/ i - Len(p) \in DOMAIN q /\ (p \o q)[i] = q[i - Len(p)]
    OBVIOUS
  <1> QED
    BY <1>1, <1>2

LEMMA UnfilteredTrue ==
  ASSUME NEW n \in Nat, NEW order \in [1..n -> Topics], NEW at \in 0..Len(log), Len(log) \in Nat
  PROVE  LET queries == queries_for_counter(UnfilteredName,
                                            Family(RecvCountsUnfiltered(at), order), at)
         IN  queries \in Seq(Query) /\ \A i \in DOMAIN queries : SnapshotPoint(queries[i])
  <1> DEFINE queries == queries_for_counter(UnfilteredName,
                                            Family(RecvCountsUnfiltered(at), order), at)
  <1>1. /\ at \in Nat /\ UnfilteredName \in Names
        /\ RecvCountsUnfiltered(at) \in [Topics -> Nat]
    BY CountsAreFunctions DEF Names
  <1>2. /\ queries \in Seq(Query) /\ DOMAIN queries = 1..n
        /\ \A i \in 1..n : queries[i] = Point(UnfilteredName, Hash(order[i]), at,
                                            RecvCountsUnfiltered(at)[order[i]])
    BY <1>1, CounterQueries
  <1> HIDE DEF queries
  <1>3. \A i \in 1..n : order[i] \in Topics
    OBVIOUS
  <1>4. \A i \in 1..n : SnapshotPoint(queries[i])
    BY <1>2, <1>3 DEF SnapshotPoint
  <1> QED
    BY <1>2, <1>4 DEF queries

LEMMA CountsTrue ==
  ASSUME NEW n \in Nat, NEW order \in [1..n -> Topics], NEW at \in 0..Len(log), Len(log) \in Nat
  PROVE  LET queries == queries_for_counter(CountsName, Family(RecvCounts(at), order), at)
         IN  queries \in Seq(Query) /\ \A i \in DOMAIN queries : SnapshotPoint(queries[i])
  <1> DEFINE queries == queries_for_counter(CountsName, Family(RecvCounts(at), order), at)
  <1>1. at \in Nat /\ CountsName \in Names /\ RecvCounts(at) \in [Topics -> Nat]
    BY CountsAreFunctions DEF Names
  <1>2. /\ queries \in Seq(Query) /\ DOMAIN queries = 1..n
        /\ \A i \in 1..n : queries[i] = Point(CountsName, Hash(order[i]), at,
                                            RecvCounts(at)[order[i]])
    BY <1>1, CounterQueries
  <1> HIDE DEF queries
  <1>3. \A i \in 1..n : order[i] \in Topics
    OBVIOUS
  <1>4. \A i \in 1..n : SnapshotPoint(queries[i])
    BY <1>2, <1>3 DEF SnapshotPoint
  <1> QED
    BY <1>2, <1>4 DEF queries

\* A recording task holds the counters of its snapshot.
LEMMA RecordedTrue ==
  ASSUME NEW n \in Nat, NEW order1 \in [1..n -> Topics],
         NEW m \in Nat, NEW order2 \in [1..m -> Topics], NEW at \in 0..Len(log), Len(log) \in Nat
  PROVE  LET queries == RecordQueries(Family(RecvCountsUnfiltered(at), order1),
                                      Family(RecvCounts(at), order2), at)
         IN  queries \in Seq(Query) /\ \A i \in DOMAIN queries : SnapshotPoint(queries[i])
  <1> DEFINE family1 == Family(RecvCountsUnfiltered(at), order1)
             family2 == Family(RecvCounts(at), order2)
             first == queries_for_counter(UnfilteredName, family1, at)
             second == queries_for_counter(CountsName, family2, at)
             third == queries_for_counter_join(DuplicatesName, family1, family2, at)
  <1>1. first \in Seq(Query) /\ \A i \in DOMAIN first : SnapshotPoint(first[i])
    BY UnfilteredTrue
  <1>2. second \in Seq(Query) /\ \A i \in DOMAIN second : SnapshotPoint(second[i])
    BY CountsTrue
  <1>3. third \in Seq(Query) /\ \A i \in DOMAIN third : SnapshotPoint(third[i])
    BY JoinedTrue
  <1>4. RecordQueries(family1, family2, at) = (first \o second) \o third
    BY DEF RecordQueries, UnfilteredName, CountsName
  <1> HIDE DEF first, second, third, family1, family2
  <1>5. /\ first \o second \in Seq(Query)
        /\ \A i \in DOMAIN (first \o second) : SnapshotPoint((first \o second)[i])
    BY <1>1, <1>2, ConcatTrue
  <1>6. /\ (first \o second) \o third \in Seq(Query)
        /\ \A i \in DOMAIN ((first \o second) \o third) :
              SnapshotPoint(((first \o second) \o third)[i])
    BY <1>3, <1>5, ConcatTrue
  <1> QED
    BY <1>4, <1>6 DEF family1, family2

LEMMA TopicsFinite == IsFiniteSet(Topics)
  <1> DEFINE f == [m \in Message |-> m.topic]
  <1>1. f \in Surjection(Message, Topics)
    BY DEF Surjection, Topics
  <1> QED
    BY <1>1, MessageAssumption, FS_Surjection

LEMMA EpochsFinite == IsFiniteSet(Epochs) /\ Epochs \subseteq Nat
  <1> DEFINE f == [m \in Message |-> Epoch(m.slot)]
  <1>1. f \in Surjection(Message, Epochs)
    BY DEF Surjection, Epochs
  <1>2. \A m \in Message : Epoch(m.slot) \in Nat
    BY MessageAssumption DEF Epoch
  <1>3. Epochs \subseteq Nat
    BY <1>2 DEF Epochs
  <1> QED
    BY <1>1, <1>3, MessageAssumption, FS_Surjection

\* initialise_metrics: a zero for every topic of the three counters, nothing else.
LEMMA InitialFacts ==
  /\ InitialQueries \in Seq(Query)
  /\ \A i \in DOMAIN InitialQueries : \E k \in 1..3, t \in Topics :
        InitialQueries[i] = Point(Initialised[k], Hash(t), 0, 0)
  /\ \A k \in 1..3, t \in Topics : \E i \in DOMAIN InitialQueries :
        InitialQueries[i] = Point(Initialised[k], Hash(t), 0, 0)
  <1> DEFINE n == Cardinality(Topics)
             topics == SetToSeq(Topics)
             Zeros(k) == [i \in 1..n |-> Point(Initialised[k], Hash(topics[i]), 0, 0)]
             seqs == [k \in 1..3 |-> Zeros(k)]
  <1>1. /\ n \in Nat /\ topics \in [1..n -> Topics]
        /\ \A t \in Topics : \E i \in 1..n : topics[i] = t
    BY TopicsFinite, SequenceOfSet
  <1>2. DOMAIN Initialised = 1..3 /\ \A k \in 1..3 : Initialised[k] \in Names
    BY DEF Initialised, Names, UnfilteredName, CountsName
  <1>3. InitialQueries = FlattenSeq(seqs)
    BY <1>1, <1>2 DEF InitialQueries, Hash
  <1> HIDE DEF topics, n
  <1>4. ASSUME NEW k \in 1..3
        PROVE  Zeros(k) \in Seq(Query) /\ DOMAIN Zeros(k) = 1..n
    <2>1. ASSUME NEW i \in 1..n PROVE Point(Initialised[k], Hash(topics[i]), 0, 0) \in Query
      <3>1. Hash(topics[i]) \in Tags
        BY <1>1 DEF Tags
      <3> QED
        BY <1>2, <3>1, PointIsQuery
    <2> QED
      BY <1>1, <2>1
  <1> HIDE DEF Zeros
  <1>5. seqs \in [1..3 -> Seq(Query)] /\ \A k \in 1..3 : seqs[k] = Zeros(k)
    BY <1>4
  <1> HIDE DEF seqs
  <1>6. FlattenSeq(seqs) \in Seq(Query) /\ FlatUpTo(FlattenSeq(seqs), seqs, 3)
    BY <1>5, Flattened
  <1>7. \A k \in 1..3 : \A i \in 1..n :
          /\ topics[i] \in Topics
          /\ seqs[k][i] = Point(Initialised[k], Hash(topics[i]), 0, 0)
    BY <1>1, <1>5 DEF Zeros
  <1>8. ASSUME NEW i \in DOMAIN InitialQueries
        PROVE  \E k \in 1..3, t \in Topics :
                  InitialQueries[i] = Point(Initialised[k], Hash(t), 0, 0)
    <2>1. PICK k \in 1..3 : \E j \in DOMAIN seqs[k] : InitialQueries[i] = seqs[k][j]
      BY <1>3, <1>6, <1>8 DEF FlatUpTo
    <2>2. PICK j \in 1..n : InitialQueries[i] = seqs[k][j]
      BY <1>4, <1>5, <2>1
    <2> QED
      BY <1>7, <2>2
  <1>9. ASSUME NEW k \in 1..3, NEW t \in Topics
        PROVE  \E i \in DOMAIN InitialQueries :
                  InitialQueries[i] = Point(Initialised[k], Hash(t), 0, 0)
    <2>1. PICK j \in 1..n : topics[j] = t
      BY <1>1
    <2>2. j \in DOMAIN seqs[k]
      BY <1>4, <1>5
    <2>3. \E i \in DOMAIN InitialQueries : InitialQueries[i] = seqs[k][j]
      BY <1>3, <1>6, <2>2 DEF FlatUpTo
    <2> QED
      BY <1>7, <2>1, <2>3
  <1> QED
    BY <1>3, <1>6, <1>8, <1>9

-----------------------------------------------------------------------------
(* The invariant *)

\* What a message is counted by, if its topic is counted in sets.
Key(m) == IF m.topic = Blocks THEN m.slot ELSE m.validator
Keys == {Key(m) : m \in Message}

Collection(t) == IF t \in SetTopics THEN SUBSET Keys ELSE Seq(Keys)

RecordingTask == [at : Nat, queries : Seq(Query), next : Nat]

RecordTypes ==
    /\ plan \in {"eth_consensus", "scoring"}
    /\ log \in Seq(Entry)
    /\ events \in Seq(Message)
    /\ over \in BOOLEAN
    /\ over => plan = "scoring"
    /\ received \in [Topics -> [Epochs -> (SUBSET Keys) \cup Seq(Keys)]]
    /\ \A t \in Topics, e \in Epochs : received[t][e] \in Collection(t)
    /\ tasks \in Seq(RecordingTask)
    /\ \A k \in DOMAIN tasks :
        /\ tasks[k].at <= Len(log)
        /\ tasks[k].next <= Len(tasks[k].queries) + 1
    /\ failures \subseteq (DOMAIN tasks) \X Nat

\* A task holds the counts of its snapshot, or those of the end of the run.
TasksTrue == \A k \in DOMAIN tasks : \A i \in DOMAIN tasks[k].queries : TruePoint(tasks[k].queries[i])

\* ... and so does the database.
DbTrue == \A s \in DOMAIN db : TruePoint([series |-> s, count |-> db[s]])

\* What a task is past is in the database, unless the write failed.
WrittenInv ==
    \A k \in DOMAIN tasks : \A i \in 1..tasks[k].next - 1 :
        <<k, i>> \notin failures => tasks[k].queries[i].series \in DOMAIN db

FirstTask ==
    plan = "eth_consensus" => 1 \in DOMAIN tasks /\ tasks[1].queries = InitialQueries

IInv == RecordTypes /\ TasksTrue /\ DbTrue /\ WrittenInv /\ FirstTask

LEMMA KeysFinite == IsFiniteSet(Keys)
  <1> DEFINE f == [m \in Message |-> Key(m)]
  <1>1. f \in Surjection(Message, Keys)
    BY DEF Surjection, Keys
  <1> QED
    BY <1>1, MessageAssumption, FS_Surjection

LEMMA CountedNat ==
  ASSUME RecordTypes, NEW t \in Topics, NEW e \in Epochs
  PROVE  Counted(t, e) \in Nat
  <1>1. received[t][e] \in Collection(t)
    BY DEF RecordTypes
  <1>2. CASE t \in SetTopics
    <2>1. IsFiniteSet(received[t][e])
      BY <1>1, <1>2, KeysFinite, FS_Subset DEF Collection
    <2> QED
      BY <1>2, <2>1, FS_CardinalityType DEF Counted
  <1>3. CASE t \notin SetTopics
    BY <1>1, <1>3 DEF Counted, Collection
  <1> QED
    BY <1>2, <1>3

\* The sets and sequences stay of their kind: only the blocks are sets of slots.
LEMMA AddedTypes ==
  ASSUME RecordTypes, NEW m \in Message
  PROVE  /\ Added(m) \in [Topics -> [Epochs -> (SUBSET Keys) \cup Seq(Keys)]]
         /\ \A t \in Topics, e \in Epochs :
              /\ Added(m)[t][e] \in Collection(t)
              /\ Added(m)[t][e] = IF t # m.topic \/ e # Epoch(m.slot) THEN received[t][e]
                                  ELSE IF t \in SetTopics THEN received[t][e] \cup {Key(m)}
                                  ELSE Append(received[t][e], Key(m))
  <1> DEFINE t == m.topic
             e == Epoch(m.slot)
             old == received[t][e]
             new == IF t = Blocks THEN old \cup {m.slot}
                    ELSE IF t \in SetTopics THEN old \cup {m.validator}
                    ELSE Append(old, m.validator)
  <1>1. t \in Topics /\ e \in Epochs /\ Key(m) \in Keys
    BY DEF Topics, Epochs, Keys
  <1>2. received \in [Topics -> [Epochs -> (SUBSET Keys) \cup Seq(Keys)]] /\ old \in Collection(t)
    BY <1>1 DEF RecordTypes
  <1>3. new = IF t \in SetTopics THEN old \cup {Key(m)} ELSE Append(old, Key(m))
    BY <1>1, NamesAssumption DEF Key
  <1>4. new \in Collection(t)
    <2>1. CASE t \in SetTopics
      BY <1>1, <1>2, <1>3, <2>1 DEF Collection
    <2>2. CASE t \notin SetTopics
      <3>1. old \in Seq(Keys) /\ new = Append(old, Key(m))
        BY <1>2, <1>3, <2>2 DEF Collection
      <3>2. Append(old, Key(m)) \in Seq(Keys)
        BY <1>1, <3>1
      <3> QED
        BY <2>2, <3>1, <3>2 DEF Collection
    <2> QED
      BY <2>1, <2>2
  <1>5. Added(m) = [received EXCEPT ![t][e] = new]
    BY DEF Added
  <1> HIDE DEF new, t, e, old
  <1>6. new \in (SUBSET Keys) \cup Seq(Keys)
    <2>1. CASE t \in SetTopics
      <3>1. new \in SUBSET Keys
        BY <1>4, <2>1 DEF Collection
      <3> QED
        BY <3>1
    <2>2. CASE t \notin SetTopics
      <3>1. new \in Seq(Keys)
        BY <1>4, <2>2 DEF Collection
      <3> QED
        BY <3>1
    <2> QED
      BY <2>1, <2>2
  <1>7. Added(m) \in [Topics -> [Epochs -> (SUBSET Keys) \cup Seq(Keys)]]
    BY <1>1, <1>2, <1>4, <1>5, <1>6
  <1>8. ASSUME NEW u \in Topics, NEW f \in Epochs
        PROVE  Added(m)[u][f] = IF u = t /\ f = e THEN new ELSE received[u][f]
    BY <1>1, <1>2, <1>5
  <1>9. ASSUME NEW u \in Topics, NEW f \in Epochs
        PROVE  /\ Added(m)[u][f] \in Collection(u)
               /\ Added(m)[u][f] = IF u # t \/ f # e THEN received[u][f]
                                   ELSE IF u \in SetTopics THEN received[u][f] \cup {Key(m)}
                                   ELSE Append(received[u][f], Key(m))
    <2>1. CASE u = t /\ f = e
      BY <1>3, <1>4, <1>8, <2>1 DEF old
    <2>2. CASE ~(u = t /\ f = e)
      <3>1. received[u][f] \in Collection(u)
        BY DEF RecordTypes
      <3> QED
        BY <1>8, <2>2, <3>1
    <2> QED
      BY <2>1, <2>2
  <1> QED
    BY <1>7, <1>9 DEF t, e

\* The point of an epoch is a query.
LEMMA EpochPointIsQuery ==
  ASSUME RecordTypes, NEW t \in Topics, NEW e \in Epochs
  PROVE  EpochPoint(t, e) \in Query
  <1>1. EpochTag(e) \in Tags
    BY DEF Tags
  <1>2. e * SLOTS_PER_EPOCH \in Nat
    BY EpochsFinite, MessageAssumption
  <1>3. Counted(t, e) \in Nat
    BY CountedNat
  <1>4. Point(t, EpochTag(e), e * SLOTS_PER_EPOCH, Counted(t, e)) \in Query
    BY <1>1, <1>2, <1>3, PointIsQuery
  <1> QED
    BY <1>4 DEF EpochPoint, EpochTag

\* The log only grows, and what is counted stays as it is once the loop is over.
LEMMA StepFacts ==
  ASSUME RecordTypes, [Next]_vars
  PROVE  /\ log' = log \/ \E entry \in Entry : log' = Append(log, entry)
         /\ log' \in Seq(Entry) /\ Len(log) <= Len(log') /\ Len(log) \in Nat /\ Len(log') \in Nat
         /\ plan' = plan
         /\ over => over' /\ received' = received
  <1>1. /\ plan' = plan
        /\ over => over' /\ received' = received
    <2>1. CASE HandleEvent
      BY <2>1 DEF HandleEvent
    <2>2. CASE Deadline
      BY <2>2 DEF Deadline
    <2>3. CASE ~HandleEvent /\ ~Deadline
      <3>1. plan' = plan /\ over' = over /\ received' = received
        BY <2>3 DEF Next, vars, Publish, Receive, Tick, Write, FailToWrite
      <3> QED
        BY <3>1
    <2> QED
      BY <2>1, <2>2, <2>3
  <1>2. log' = log \/ \E entry \in Entry : log' = Append(log, entry)
    <2>1. ASSUME Publish PROVE \E entry \in Entry : log' = Append(log, entry)
      <3>1. PICK m \in Own : log' = Append(log, [message |-> m, received |-> FALSE])
        BY <2>1 DEF Publish
      <3>2. [message |-> m, received |-> FALSE] \in Entry
        BY <3>1, MessageAssumption DEF Entry
      <3> QED
        BY <3>1, <3>2
    <2>2. ASSUME Receive PROVE \E entry \in Entry : log' = Append(log, entry)
      <3>1. PICK m \in Message : log' = Append(log, [message |-> m, received |-> TRUE])
        BY <2>2 DEF Receive
      <3>2. [message |-> m, received |-> TRUE] \in Entry
        BY DEF Entry
      <3> QED
        BY <3>1, <3>2
    <2>3. ASSUME ~Publish, ~Receive PROVE log' = log
      BY <2>3 DEF Next, vars, HandleEvent, Tick, Deadline, Write, FailToWrite
    <2> QED
      BY <2>1, <2>2, <2>3
  <1>3. /\ log \in Seq(Entry) /\ log' \in Seq(Entry)
        /\ Len(log) <= Len(log') /\ Len(log) \in Nat /\ Len(log') \in Nat
    <2>1. log \in Seq(Entry) /\ Len(log) \in Nat
      BY DEF RecordTypes
    <2>2. CASE log' = log
      BY <2>1, <2>2
    <2>3. ASSUME NEW entry \in Entry, log' = Append(log, entry)
          PROVE  log' \in Seq(Entry) /\ Len(log') = Len(log) + 1
      BY <2>1, <2>3
    <2> QED
      BY <1>2, <2>1, <2>2, <2>3
  <1> QED
    BY <1>1, <1>2, <1>3

\* What is true of a point stays true.
LEMMA TrueStays ==
  ASSUME RecordTypes, [Next]_vars
  PROVE  \A q : TruePoint(q) => TruePoint(q)'
  <1>1. /\ Len(log) <= Len(log') /\ Len(log) \in Nat /\ Len(log') \in Nat
        /\ plan' = plan /\ over => over' /\ received' = received
    BY StepFacts
  <1>2. \A n \in 0..Len(log) :
          /\ RecvCountsUnfiltered(n)' = RecvCountsUnfiltered(n)
          /\ RecvCounts(n)' = RecvCounts(n)
          /\ Duplicates(n)' = Duplicates(n)
    BY StepFacts, CountersKept DEF RecordTypes
  <1>3. DuplicatesName' = DuplicatesName
    BY StepFacts DEF DuplicatesName
  <1>4. ASSUME NEW q, SnapshotPoint(q) PROVE SnapshotPoint(q)'
    <2>1. PICK t \in Topics, at \in 0..Len(log) :
             \/ q = Point(UnfilteredName, Hash(t), at, RecvCountsUnfiltered(at)[t])
             \/ q = Point(CountsName, Hash(t), at, RecvCounts(at)[t])
             \/ q = Point(DuplicatesName, Hash(t), at, Duplicates(at)[t])
      BY <1>4, Zenon DEF SnapshotPoint
    <2>2. at \in 0..Len(log')
      BY <1>1
    <2>3. \/ q = Point(UnfilteredName, Hash(t), at, RecvCountsUnfiltered(at)'[t])
          \/ q = Point(CountsName, Hash(t), at, RecvCounts(at)'[t])
          \/ q = Point(DuplicatesName', Hash(t), at, Duplicates(at)'[t])
      BY <1>2, <1>3, <2>1
    <2> QED
      BY <2>2, <2>3, Zenon DEF SnapshotPoint
  <1>5. ASSUME NEW q, FinalCount(q) PROVE FinalCount(q)'
    <2>1. over /\ over' /\ received' = received
      BY <1>5, StepFacts DEF FinalCount
    <2>2. \A t \in Topics, e \in Epochs :
            EpochPoint(t, e)' = EpochPoint(t, e) /\ Counted(t, e)' = Counted(t, e)
      BY <2>1 DEF EpochPoint, Counted
    <2> QED
      BY <1>5, <2>1, <2>2 DEF FinalCount
  <1> QED
    BY <1>4, <1>5 DEF TruePoint

\* A task that is spawned: it has not written, and what it is to write is true.
Spawned(task) ==
    /\ task \in RecordingTask /\ task.at = Len(log) /\ task.next \in {0, 1}
    /\ \A i \in DOMAIN task.queries : TruePoint(task.queries[i])

LEMMA TickSpawns ==
  ASSUME RecordTypes, Tick
  PROVE  \E task : Spawned(task) /\ tasks' = Append(tasks, task)
  <1> DEFINE at == Len(log)
             all == RecvCountsUnfiltered(at)
             new == RecvCounts(at)
  <1>1. at \in Nat /\ at \in 0..Len(log)
    BY DEF RecordTypes
  <1>2. PICK order \in SetToSeqs(Counting(new)) :
          tasks' = Append(tasks,
            IF Recordable(Arms)
            THEN Task(at, RecordQueries(Family(all, SetToSeq(Counting(all))), Family(new, order), at))
            ELSE [at |-> at, queries |-> <<>>, next |-> 0])
    BY DEF Tick
  <1> DEFINE queries == RecordQueries(Family(all, SetToSeq(Counting(all))), Family(new, order), at)
  <1>3. \A counts : Counting(counts) \subseteq Topics /\ IsFiniteSet(Counting(counts))
    BY TopicsFinite, FS_Subset DEF Counting
  <1>4. /\ Cardinality(Counting(all)) \in Nat
        /\ SetToSeq(Counting(all)) \in [1..Cardinality(Counting(all)) -> Topics]
    BY <1>3, SequenceOfSet
  <1>5. /\ Cardinality(Counting(new)) \in Nat
        /\ order \in [1..Cardinality(Counting(new)) -> Topics]
    BY <1>2, <1>3, FS_CardinalityType DEF SetToSeqs
  <1>6. queries \in Seq(Query) /\ \A i \in DOMAIN queries : SnapshotPoint(queries[i])
    <2>1. PICK order1 : order1 = SetToSeq(Counting(all))
      OBVIOUS
    <2>2. PICK n \in Nat : order1 \in [1..n -> Topics]
      BY <1>4, <2>1
    <2>3. PICK m \in Nat : order \in [1..m -> Topics]
      BY <1>5
    <2>4. LET recorded == RecordQueries(Family(all, order1), Family(new, order), at)
          IN  recorded \in Seq(Query) /\ \A i \in DOMAIN recorded : SnapshotPoint(recorded[i])
      BY <1>1, <2>2, <2>3, RecordedTrue
    <2> QED
      BY <2>1, <2>4
  <1> HIDE DEF queries
  <1>7. Spawned(Task(at, queries))
    BY <1>1, <1>6 DEF Spawned, Task, RecordingTask, TruePoint
  <1>8. Spawned([at |-> at, queries |-> <<>>, next |-> 0])
    BY <1>1 DEF Spawned, RecordingTask
  <1>9. tasks' = Append(tasks, IF Recordable(Arms) THEN Task(at, queries)
                               ELSE [at |-> at, queries |-> <<>>, next |-> 0])
    BY <1>2 DEF queries
  <1> QED
    BY <1>7, <1>8, <1>9

LEMMA DeadlineSpawns ==
  ASSUME RecordTypes, Deadline
  PROVE  \E task :
           /\ Spawned(task)' /\ tasks' = Append(tasks, task)
           /\ \A t \in Topics, e \in Epochs : Counted(t, e) > 0 =>
                \E i \in DOMAIN task.queries : task.queries[i] = EpochPoint(t, e)
  <1> DEFINE seen == {te \in Topics \X Epochs : Counted(te[1], te[2]) > 0}
             order == SetToSeq(seen)
             n == Cardinality(seen)
             queries == [i \in 1..n |-> EpochPoint(order[i][1], order[i][2])]
  <1>1. over' = TRUE /\ received' = received /\ log' = log
    BY DEF Deadline
  <1>2. IsFiniteSet(seen)
    BY TopicsFinite, EpochsFinite, FS_Product, FS_Subset
  <1>3. n \in Nat /\ order \in [1..n -> seen]
    BY <1>2, SequenceOfSet
  <1>4. PICK written : written = queries
    OBVIOUS
  <1>5. tasks' = Append(tasks, Task(Len(log), written))
    BY <1>3, <1>4 DEF Deadline
  <1>6. ASSUME NEW i \in 1..n
        PROVE  \E t \in Topics, e \in Epochs :
                  Counted(t, e) > 0 /\ written[i] = EpochPoint(t, e)
    <2>1. order[i] \in Topics \X Epochs /\ Counted(order[i][1], order[i][2]) > 0
      BY <1>3
    <2> QED
      BY <1>4, <2>1
  <1>7. written \in [1..n -> Query]
    BY <1>4, <1>6, EpochPointIsQuery
  <1>a. ASSUME NEW t \in Topics, NEW e \in Epochs, Counted(t, e) > 0
        PROVE  \E i \in DOMAIN written : written[i] = EpochPoint(t, e)
    <2>1. <<t, e>> \in seen
      BY <1>a
    <2>2. PICK i \in 1..n : order[i] = <<t, e>>
      BY <1>2, <2>1, SequenceOfSet
    <2>3. written[i] = EpochPoint(t, e)
      BY <1>4, <2>2
    <2> QED
      BY <1>7, <2>2, <2>3
  <1> HIDE DEF queries, n
  <1>8. ASSUME NEW i \in DOMAIN written PROVE TruePoint(written[i])'
    <2>1. \A t \in Topics, e \in Epochs :
            EpochPoint(t, e)' = EpochPoint(t, e) /\ Counted(t, e)' = Counted(t, e)
      BY <1>1 DEF EpochPoint, Counted
    <2>2. \E t \in Topics, e \in Epochs :
            Counted(t, e)' > 0 /\ written[i] = EpochPoint(t, e)'
      BY <1>6, <1>7, <1>8, <2>1
    <2> QED
      BY <1>1, <2>2 DEF TruePoint, FinalCount
  <1>9. PICK task : task = Task(Len(log), written)
    OBVIOUS
  <1>10. /\ task \in RecordingTask /\ task.at = Len(log') /\ task.next = 1
         /\ task.queries = written
    <2>1. Len(log) \in Nat
      BY DEF RecordTypes
    <2>2. written \in Seq(Query)
      BY <1>3, <1>7
    <2> QED
      BY <1>1, <1>9, <2>1, <2>2 DEF Task, RecordingTask
  <1>11. Spawned(task)'
    BY <1>8, <1>10 DEF Spawned
  <1>12. \A t \in Topics, e \in Epochs : Counted(t, e) > 0 =>
           \E i \in DOMAIN task.queries : task.queries[i] = EpochPoint(t, e)
    BY <1>10, <1>a
  <1> QED
    BY <1>5, <1>9, <1>11, <1>12

\* How the tasks and the database change.
LEMMA TasksChange ==
  ASSUME RecordTypes, [Next]_vars
  PROVE  \/ tasks' = tasks /\ failures' = failures /\ db' = db
         \/ /\ failures' = failures /\ db' = db
            /\ \E task : Spawned(task)' /\ tasks' = Append(tasks, task)
         \/ \E k \in DOMAIN tasks : Write(k) \/ FailToWrite(k)
  <1>1. CASE Tick
    <2>1. PICK task : Spawned(task) /\ tasks' = Append(tasks, task)
      BY <1>1, TickSpawns
    <2>2. log' = log /\ failures' = failures /\ db' = db
      BY <1>1 DEF Tick
    <2>3. \A i \in DOMAIN task.queries : TruePoint(task.queries[i])'
      BY <2>1, TrueStays DEF Spawned
    <2>4. Spawned(task)'
      BY <2>1, <2>2, <2>3 DEF Spawned
    <2> QED
      BY <2>1, <2>2, <2>4
  <1>2. CASE Deadline
    <2>1. failures' = failures /\ db' = db
      BY <1>2 DEF Deadline
    <2> QED
      BY <1>2, <2>1, DeadlineSpawns
  <1>3. CASE Publish \/ Receive \/ HandleEvent \/ UNCHANGED vars
    BY <1>3 DEF Publish, Receive, HandleEvent, vars
  <1> QED
    BY <1>1, <1>2, <1>3 DEF Next

LEMMA AppendedTask ==
  ASSUME RecordTypes, NEW task, tasks' = Append(tasks, task)
  PROVE  /\ DOMAIN tasks = 1..Len(tasks) /\ Len(tasks) \in Nat /\ Len(tasks') = Len(tasks) + 1
         /\ DOMAIN tasks' = DOMAIN tasks \cup {Len(tasks) + 1}
         /\ \A k \in DOMAIN tasks : tasks'[k] = tasks[k]
         /\ tasks'[Len(tasks) + 1] = task
  <1>1. tasks \in Seq(RecordingTask)
    BY DEF RecordTypes
  <1> HIDE DEF RecordingTask
  <1> QED
    BY <1>1

LEMMA AdvancedTask ==
  ASSUME RecordTypes, NEW k \in DOMAIN tasks, Advance(k), tasks[k].next \in DOMAIN tasks[k].queries
  PROVE  /\ DOMAIN tasks' = DOMAIN tasks /\ Len(tasks') = Len(tasks)
         /\ tasks' \in Seq(RecordingTask)
         /\ \A l \in DOMAIN tasks :
              /\ tasks'[l].at = tasks[l].at /\ tasks'[l].queries = tasks[l].queries
              /\ tasks'[l].next = IF l = k THEN tasks[k].next + 1 ELSE tasks[l].next
         /\ tasks'[k].next <= Len(tasks[k].queries) + 1
         /\ tasks[k].next \in Nat \ {0} /\ k \in Nat
  <1>1. tasks \in Seq(RecordingTask) /\ tasks[k] \in RecordingTask
    BY DEF RecordTypes
  <1>2. tasks' = [tasks EXCEPT ![k] = [tasks[k] EXCEPT !.next = tasks[k].next + 1]]
    BY DEF Advance
  <1>3. /\ tasks[k].at \in Nat /\ tasks[k].queries \in Seq(Query) /\ tasks[k].next \in Nat
        /\ tasks[k] = [at |-> tasks[k].at, queries |-> tasks[k].queries, next |-> tasks[k].next]
    BY <1>1 DEF RecordingTask
  <1> DEFINE new == [tasks[k] EXCEPT !.next = tasks[k].next + 1]
  <1>4. /\ new.at = tasks[k].at /\ new.queries = tasks[k].queries /\ new.next = tasks[k].next + 1
        /\ new \in RecordingTask
    BY <1>3 DEF RecordingTask
  <1>5. tasks[k].next \in 1..Len(tasks[k].queries) /\ Len(tasks[k].queries) \in Nat
    BY <1>3
  <1>6. tasks' = [tasks EXCEPT ![k] = new]
    BY <1>2
  <1> HIDE DEF new
  <1>7. /\ DOMAIN tasks' = DOMAIN tasks /\ Len(tasks') = Len(tasks)
        /\ tasks' \in Seq(RecordingTask) /\ k \in Nat
        /\ \A l \in DOMAIN tasks : tasks'[l] = IF l = k THEN new ELSE tasks[l]
    <2> HIDE DEF RecordingTask
    <2> QED
      BY <1>1, <1>4, <1>6
  <1>8. \A l \in DOMAIN tasks :
              /\ tasks'[l].at = tasks[l].at /\ tasks'[l].queries = tasks[l].queries
              /\ tasks'[l].next = IF l = k THEN tasks[k].next + 1 ELSE tasks[l].next
    BY <1>4, <1>7
  <1> QED
    BY <1>3, <1>5, <1>7, <1>8

LEMMA TasksTypes ==
  ASSUME RecordTypes, [Next]_vars
  PROVE  /\ tasks' \in Seq(RecordingTask)
         /\ \A k \in DOMAIN tasks' :
              /\ tasks'[k].at <= Len(log')
              /\ tasks'[k].next <= Len(tasks'[k].queries) + 1
         /\ failures' \subseteq (DOMAIN tasks') \X Nat
  <1>0. /\ tasks \in Seq(RecordingTask) /\ failures \subseteq (DOMAIN tasks) \X Nat
        /\ \A k \in DOMAIN tasks :
              /\ tasks[k] \in RecordingTask
              /\ tasks[k].at <= Len(log) /\ tasks[k].next <= Len(tasks[k].queries) + 1
    <2> HIDE DEF RecordingTask
    <2> QED
      BY DEF RecordTypes
  <1>n. Len(log) \in Nat /\ Len(log') \in Nat /\ Len(log) <= Len(log')
    BY StepFacts
  <1>a. \A k \in DOMAIN tasks : tasks[k].at \in Nat /\ tasks[k].at <= Len(log')
    BY <1>0, <1>n DEF RecordingTask
  <1>1. CASE tasks' = tasks /\ failures' = failures
    BY <1>0, <1>1, <1>a
  <1>2. ASSUME NEW task, Spawned(task)', tasks' = Append(tasks, task), failures' = failures
        PROVE  /\ tasks' \in Seq(RecordingTask)
               /\ \A k \in DOMAIN tasks' :
                    /\ tasks'[k].at <= Len(log')
                    /\ tasks'[k].next <= Len(tasks'[k].queries) + 1
               /\ failures' \subseteq (DOMAIN tasks') \X Nat
    <2>1. task \in RecordingTask /\ task.at = Len(log') /\ task.next \in {0, 1}
      BY <1>2 DEF Spawned
    <2>2. tasks' \in Seq(RecordingTask)
      <3> HIDE DEF RecordingTask
      <3> QED
        BY <1>0, <1>2, <2>1
    <2>3. Len(task.queries) \in Nat
      BY <2>1 DEF RecordingTask
    <2>4. \A k \in DOMAIN tasks' : tasks'[k] = task \/ (k \in DOMAIN tasks /\ tasks'[k] = tasks[k])
      BY <1>2, AppendedTask
    <2>5. DOMAIN tasks \subseteq DOMAIN tasks'
      BY <1>2, AppendedTask
    <2>6. task.at <= Len(log') /\ task.next <= Len(task.queries) + 1
      BY <1>n, <2>1, <2>3
    <2>7. \A k \in DOMAIN tasks' :
                    /\ tasks'[k].at <= Len(log')
                    /\ tasks'[k].next <= Len(tasks'[k].queries) + 1
      BY <1>0, <1>a, <2>4, <2>6
    <2> QED
      BY <1>0, <1>2, <2>2, <2>5, <2>7
  <1>3. ASSUME NEW k \in DOMAIN tasks, Write(k) \/ FailToWrite(k)
        PROVE  /\ tasks' \in Seq(RecordingTask)
               /\ \A l \in DOMAIN tasks' :
                    /\ tasks'[l].at <= Len(log')
                    /\ tasks'[l].next <= Len(tasks'[l].queries) + 1
               /\ failures' \subseteq (DOMAIN tasks') \X Nat
    <2>1. /\ Advance(k) /\ tasks[k].next \in DOMAIN tasks[k].queries
          /\ failures' \subseteq failures \cup {<<k, tasks[k].next>>}
      BY <1>3 DEF Write, FailToWrite
    <2>2. /\ DOMAIN tasks' = DOMAIN tasks /\ tasks' \in Seq(RecordingTask)
          /\ \A l \in DOMAIN tasks :
              /\ tasks'[l].at = tasks[l].at /\ tasks'[l].queries = tasks[l].queries
              /\ tasks'[l].next = IF l = k THEN tasks[k].next + 1 ELSE tasks[l].next
          /\ tasks'[k].next <= Len(tasks[k].queries) + 1
          /\ tasks[k].next \in Nat
      BY <2>1, AdvancedTask
    <2>3. <<k, tasks[k].next>> \in (DOMAIN tasks) \X Nat
      BY <2>2
    <2>4. \A l \in DOMAIN tasks' :
                    /\ tasks'[l].at <= Len(log')
                    /\ tasks'[l].next <= Len(tasks'[l].queries) + 1
      BY <1>0, <1>a, <2>2
    <2> QED
      BY <1>0, <2>1, <2>2, <2>3, <2>4
  <1> QED
    BY <1>1, <1>2, <1>3, TasksChange

LEMMA TypesStep == RecordTypes /\ [Next]_vars => RecordTypes'
  <1> SUFFICES ASSUME RecordTypes, [Next]_vars PROVE RecordTypes'
    OBVIOUS
  <1>1. plan' = plan /\ log' \in Seq(Entry)
    BY StepFacts
  <1>2. events' \in Seq(Message)
    <2>0. events \in Seq(Message)
      BY DEF RecordTypes
    <2>1. CASE Receive
      <3>1. PICK m \in Message : events' = events \/ events' = Append(events, m)
        BY <2>1 DEF Receive
      <3> QED
        BY <2>0, <3>1
    <2>2. CASE HandleEvent
      <3>1. events # <<>> /\ events' = Tail(events)
        BY <2>2 DEF HandleEvent
      <3> QED
        BY <2>0, <3>1
    <2>3. CASE ~Receive /\ ~HandleEvent
      <3>1. events' = events
        BY <2>3 DEF Next, vars, Publish, Tick, Deadline, Write, FailToWrite
      <3> QED
        BY <2>0, <3>1
    <2> QED
      BY <2>1, <2>2, <2>3
  <1>3. over' \in BOOLEAN /\ (over' => plan' = "scoring")
    <2>1. CASE Deadline
      BY <2>1 DEF Deadline
    <2>2. CASE ~Deadline
      <3>1. over' = over
        BY <2>2 DEF Next, vars, Publish, Receive, HandleEvent, Tick, Write, FailToWrite
      <3> QED
        BY <1>1, <3>1 DEF RecordTypes
    <2> QED
      BY <2>1, <2>2
  <1>4. /\ received' \in [Topics -> [Epochs -> (SUBSET Keys) \cup Seq(Keys)]]
        /\ \A t \in Topics, e \in Epochs : received'[t][e] \in Collection(t)
    <2>1. CASE HandleEvent
      <3>1. Head(events) \in Message
        BY <2>1 DEF HandleEvent, RecordTypes
      <3>2. received' = Added(Head(events))
        BY <2>1 DEF HandleEvent
      <3> QED
        BY <3>1, <3>2, AddedTypes
    <2>2. CASE ~HandleEvent
      <3>1. received' = received
        BY <2>2 DEF Next, vars, Publish, Receive, Tick, Deadline, Write, FailToWrite
      <3> QED
        BY <3>1 DEF RecordTypes
    <2> QED
      BY <2>1, <2>2
  <1>5. plan' \in {"eth_consensus", "scoring"}
    BY <1>1 DEF RecordTypes
  <1> QED
    BY <1>1, <1>2, <1>3, <1>4, <1>5, TasksTypes DEF RecordTypes, Collection

LEMMA TasksTruePrime ==
  ASSUME \A k \in DOMAIN tasks' : \A i \in DOMAIN tasks'[k].queries :
            \A q : q = tasks'[k].queries[i] => TruePoint(q)'
  PROVE  TasksTrue'
  <1> SUFFICES ASSUME NEW k \in DOMAIN tasks', NEW i \in DOMAIN tasks'[k].queries
               PROVE  TruePoint(tasks[k].queries[i])'
    BY DEF TasksTrue
  <1>1. PICK q : q = tasks'[k].queries[i]
    OBVIOUS
  <1>2. TruePoint(q)'
    BY <1>1
  <1> QED
    BY <1>1, <1>2 DEF TruePoint, SnapshotPoint, FinalCount

LEMMA DbTruePrime ==
  ASSUME \A s \in DOMAIN db' : \A q : q = [series |-> s, count |-> db'[s]] => TruePoint(q)'
  PROVE  DbTrue'
  <1> SUFFICES ASSUME NEW s \in DOMAIN db' PROVE TruePoint([series |-> s, count |-> db[s]])'
    BY DEF DbTrue
  <1>1. PICK q : q = [series |-> s, count |-> db'[s]]
    OBVIOUS
  <1>2. TruePoint(q)'
    BY <1>1
  <1> QED
    BY <1>1, <1>2, Zenon DEF TruePoint, SnapshotPoint, FinalCount

LEMMA TasksTrueStep == RecordTypes /\ TasksTrue /\ [Next]_vars => TasksTrue'
  <1> SUFFICES ASSUME RecordTypes, TasksTrue, [Next]_vars,
                      NEW k \in DOMAIN tasks', NEW i \in DOMAIN tasks'[k].queries,
                      NEW q, q = tasks'[k].queries[i]
               PROVE  TruePoint(q)'
    BY TasksTruePrime
  <1>1. TruePoint(q) => TruePoint(q)'
    BY TrueStays
  <1>2. CASE tasks' = tasks
    BY <1>1, <1>2 DEF TasksTrue
  <1>3. ASSUME NEW task, Spawned(task)', tasks' = Append(tasks, task) PROVE TruePoint(q)'
    <2>1. (k \in DOMAIN tasks /\ tasks'[k] = tasks[k]) \/ tasks'[k] = task
      BY <1>3, AppendedTask
    <2>2. CASE k \in DOMAIN tasks /\ tasks'[k] = tasks[k]
      BY <1>1, <2>2 DEF TasksTrue
    <2>3. CASE tasks'[k] = task
      <3>1. \A j \in DOMAIN task.queries : TruePoint(task.queries[j])'
        BY <1>3 DEF Spawned
      <3>2. TruePoint(task.queries[i])' /\ q = task.queries[i]
        BY <2>3, <3>1
      <3> QED
        BY <3>2
    <2> QED
      BY <2>1, <2>2, <2>3
  <1>4. ASSUME NEW l \in DOMAIN tasks, Write(l) \/ FailToWrite(l) PROVE TruePoint(q)'
    <2>1. Advance(l) /\ tasks[l].next \in DOMAIN tasks[l].queries
      BY <1>4 DEF Write, FailToWrite
    <2>2. k \in DOMAIN tasks /\ tasks'[k].queries = tasks[k].queries
      BY <2>1, AdvancedTask
    <2> QED
      BY <1>1, <2>2 DEF TasksTrue
  <1> QED
    BY <1>2, <1>3, <1>4, TasksChange

\* A write: what is in the database afterwards.
LEMMA Written ==
  ASSUME NEW k \in DOMAIN tasks, Write(k)
  PROVE  LET point == tasks[k].queries[tasks[k].next] IN
         /\ DOMAIN db' = DOMAIN db \cup {point.series}
         /\ \A s \in DOMAIN db' : db'[s] = IF s = point.series THEN point.count ELSE db[s]
  BY DEF Write

LEMMA DbTrueStep == RecordTypes /\ TasksTrue /\ DbTrue /\ [Next]_vars => DbTrue'
  <1> SUFFICES ASSUME RecordTypes, TasksTrue, DbTrue, [Next]_vars,
                      NEW s \in DOMAIN db', NEW q, q = [series |-> s, count |-> db'[s]]
               PROVE  TruePoint(q)'
    BY DbTruePrime
  <1>1. TruePoint(q) => TruePoint(q)'
    BY TrueStays
  <1>2. CASE db' = db
    BY <1>1, <1>2 DEF DbTrue
  <1>3. ASSUME NEW k \in DOMAIN tasks, Write(k) PROVE TruePoint(q)
    <2> DEFINE point == tasks[k].queries[tasks[k].next]
    <2>1. /\ DOMAIN db' = DOMAIN db \cup {point.series}
          /\ \A u \in DOMAIN db' : db'[u] = IF u = point.series THEN point.count ELSE db[u]
      BY <1>3, Written
    <2>2. tasks[k].next \in DOMAIN tasks[k].queries
      BY <1>3 DEF Write
    <2>3. TruePoint(point)
      BY <2>2 DEF TasksTrue
    <2>4. point \in Query
      <3>1. tasks[k] \in RecordingTask
        BY DEF RecordTypes
      <3>2. tasks[k].queries \in Seq(Query)
        BY <3>1 DEF RecordingTask
      <3> HIDE DEF Query
      <3> QED
        BY <2>2, <3>2
    <2> HIDE DEF point
    <2>5. CASE s = point.series
      <3>1. q = point
        BY <2>1, <2>4, <2>5 DEF Query
      <3> QED
        BY <2>3, <3>1
    <2>6. CASE s # point.series
      <3>1. s \in DOMAIN db /\ db'[s] = db[s]
        BY <2>1, <2>6
      <3> QED
        BY <3>1 DEF DbTrue
    <2> QED
      BY <2>5, <2>6
  <1>4. ASSUME NEW k \in DOMAIN tasks, FailToWrite(k) PROVE db' = db
    BY <1>4 DEF FailToWrite
  <1> QED
    BY <1>1, <1>2, <1>3, <1>4, TasksChange

LEMMA WrittenStep == RecordTypes /\ WrittenInv /\ [Next]_vars => WrittenInv'
  <1> SUFFICES ASSUME RecordTypes, WrittenInv, [Next]_vars,
                      NEW k \in DOMAIN tasks', NEW i \in 1..tasks'[k].next - 1,
                      <<k, i>> \notin failures'
               PROVE  tasks'[k].queries[i].series \in DOMAIN db'
    BY DEF WrittenInv
  <1>1. CASE tasks' = tasks /\ failures' = failures /\ db' = db
    BY <1>1 DEF WrittenInv
  <1>2. ASSUME NEW task, Spawned(task)', tasks' = Append(tasks, task),
               failures' = failures, db' = db
        PROVE  tasks'[k].queries[i].series \in DOMAIN db'
    <2>1. (k \in DOMAIN tasks /\ tasks'[k] = tasks[k]) \/ tasks'[k] = task
      BY <1>2, AppendedTask
    <2>2. CASE k \in DOMAIN tasks /\ tasks'[k] = tasks[k]
      BY <1>2, <2>2 DEF WrittenInv
    <2>3. CASE tasks'[k] = task
      <3>1. tasks'[k].next \in {0, 1}
        BY <1>2, <2>3 DEF Spawned
      <3> QED
        BY <3>1
    <2> QED
      BY <2>1, <2>2, <2>3
  <1>3. ASSUME NEW l \in DOMAIN tasks, Write(l) \/ FailToWrite(l)
        PROVE  tasks'[k].queries[i].series \in DOMAIN db'
    <2>1. Advance(l) /\ tasks[l].next \in DOMAIN tasks[l].queries
      BY <1>3 DEF Write, FailToWrite
    <2>2. /\ k \in DOMAIN tasks /\ tasks'[k].queries = tasks[k].queries
          /\ tasks'[k].next = IF k = l THEN tasks[l].next + 1 ELSE tasks[k].next
          /\ tasks[l].next \in Nat \ {0}
      BY <2>1, AdvancedTask
    <2>3. DOMAIN db \subseteq DOMAIN db' /\ failures \subseteq failures'
      BY <1>3 DEF Write, FailToWrite
    <2>4. CASE i \in 1..tasks[k].next - 1
      BY <2>2, <2>3, <2>4 DEF WrittenInv
    <2>5. CASE i \notin 1..tasks[k].next - 1
      <3>1. k = l /\ i = tasks[l].next
        BY <2>2, <2>5
      <3>2. CASE Write(l)
        BY <3>1, <3>2, <2>2, Written
      <3>3. CASE FailToWrite(l)
        <4>1. <<k, i>> \in failures'
          BY <3>1, <3>3 DEF FailToWrite
        <4> QED
          BY <4>1
      <3> QED
        BY <1>3, <3>2, <3>3
    <2> QED
      BY <2>4, <2>5
  <1> QED
    BY <1>1, <1>2, <1>3, TasksChange

LEMMA FirstTaskStep == RecordTypes /\ FirstTask /\ [Next]_vars => FirstTask'
  <1> SUFFICES ASSUME RecordTypes, FirstTask, [Next]_vars, plan = "eth_consensus"
               PROVE  1 \in DOMAIN tasks' /\ tasks'[1].queries = InitialQueries
    BY StepFacts DEF FirstTask
  <1>1. 1 \in DOMAIN tasks /\ tasks[1].queries = InitialQueries
    BY DEF FirstTask
  <1>2. CASE tasks' = tasks
    BY <1>1, <1>2
  <1>3. ASSUME NEW task, tasks' = Append(tasks, task)
        PROVE  1 \in DOMAIN tasks' /\ tasks'[1].queries = InitialQueries
    BY <1>1, <1>3, AppendedTask
  <1>4. ASSUME NEW k \in DOMAIN tasks, Write(k) \/ FailToWrite(k)
        PROVE  1 \in DOMAIN tasks' /\ tasks'[1].queries = InitialQueries
    <2>1. Advance(k) /\ tasks[k].next \in DOMAIN tasks[k].queries
      BY <1>4 DEF Write, FailToWrite
    <2> QED
      BY <1>1, <2>1, AdvancedTask
  <1> QED
    BY <1>2, <1>3, <1>4, TasksChange

\* The zeros of initialise_metrics are the counters before any message.
LEMMA ZerosTrue ==
  ASSUME plan = "eth_consensus", Len(log) \in Nat, NEW k \in 1..3, NEW t \in Topics
  PROVE  TruePoint(Point(Initialised[k], Hash(t), 0, 0))
  <1>1. 0 \in Nat /\ 0 \in 0..Len(log) /\ \A x \in 0..0 : x = 0
    OBVIOUS
  <1>2. /\ RecvCountsUnfiltered(0)[t] = 0 /\ RecvCounts(0)[t] = 0 /\ Duplicates(0)[t] = 0
    BY <1>1, CounterFacts
  <1>3. Initialised[k] \in {UnfilteredName, CountsName, DuplicatesName}
    BY DEF Initialised, UnfilteredName, CountsName, DuplicatesName
  <1> DEFINE q == Point(Initialised[k], Hash(t), 0, 0)
  <1>4. \/ q = Point(UnfilteredName, Hash(t), 0, RecvCountsUnfiltered(0)[t])
        \/ q = Point(CountsName, Hash(t), 0, RecvCounts(0)[t])
        \/ q = Point(DuplicatesName, Hash(t), 0, Duplicates(0)[t])
    BY <1>2, <1>3
  <1> HIDE DEF q
  <1>5. SnapshotPoint(q)
    BY <1>1, <1>4, Zenon DEF SnapshotPoint
  <1> QED
    BY <1>5 DEF TruePoint, q

LEMMA InitTypes == Init => RecordTypes
  <1> SUFFICES ASSUME Init PROVE RecordTypes
    OBVIOUS
  <1>1. /\ plan \in {"eth_consensus", "scoring"} /\ log \in Seq(Entry) /\ events \in Seq(Message)
        /\ over = FALSE /\ log = <<>> /\ failures = {}
    BY DEF Init
  <1>2. /\ received \in [Topics -> [Epochs -> (SUBSET Keys) \cup Seq(Keys)]]
        /\ \A t \in Topics, e \in Epochs : received[t][e] \in Collection(t)
    <2> DEFINE first(t) == IF t \in SetTopics THEN {} ELSE <<>>
    <2>1. received = [t \in Topics |-> [e \in Epochs |-> first(t)]]
      BY DEF Init
    <2>2. \A t : first(t) \in Collection(t) /\ first(t) \in (SUBSET Keys) \cup Seq(Keys)
      <3>1. <<>> \in Seq(Keys) /\ {} \in SUBSET Keys
        OBVIOUS
      <3> QED
        BY <3>1, Zenon DEF Collection
    <2> HIDE DEF first
    <2> QED
      BY <2>1, <2>2
  <1>3. /\ tasks \in Seq(RecordingTask)
        /\ \A k \in DOMAIN tasks :
             tasks[k].at <= Len(log) /\ tasks[k].next <= Len(tasks[k].queries) + 1
    <2>1. CASE plan = "scoring"
      <3>1. tasks = <<>>
        BY <2>1 DEF Init
      <3> QED
        BY <3>1
    <2>2. CASE plan # "scoring"
      <3> DEFINE task == Task(0, InitialQueries)
      <3>1. tasks = <<task>>
        BY <2>2 DEF Init
      <3>2. InitialQueries \in Seq(Query) /\ Len(InitialQueries) \in Nat
        BY InitialFacts
      <3>3. task \in RecordingTask /\ task.at = 0 /\ task.next = 1 /\ task.queries = InitialQueries
        BY <3>2 DEF Task, RecordingTask
      <3> HIDE DEF task, RecordingTask
      <3>4. tasks \in Seq(RecordingTask) /\ DOMAIN tasks = {1} /\ tasks[1] = task
        BY <3>1, <3>3
      <3>5. task.at <= Len(log) /\ task.next <= Len(task.queries) + 1
        BY <1>1, <3>2, <3>3
      <3> QED
        BY <3>4, <3>5
    <2> QED
      BY <2>1, <2>2
  <1> QED
    BY <1>1, <1>2, <1>3 DEF RecordTypes

LEMMA InitIInv == Init => IInv
  <1> SUFFICES ASSUME Init PROVE IInv
    OBVIOUS
  <1>1. RecordTypes
    BY InitTypes
  <1>2. DOMAIN db = {} /\ Len(log) \in Nat
    BY DEF Init
  <1>3. CASE plan = "scoring"
    <2>1. DOMAIN tasks = {}
      BY <1>3 DEF Init
    <2> QED
      BY <1>1, <1>2, <1>3, <2>1 DEF IInv, TasksTrue, DbTrue, WrittenInv, FirstTask
  <1>4. CASE plan # "scoring"
    <2>1. plan = "eth_consensus"
      BY <1>4 DEF Init
    <2>2. /\ DOMAIN tasks = {1} /\ tasks[1].queries = InitialQueries /\ tasks[1].next = 1
      <3>1. tasks = <<[at |-> 0, queries |-> InitialQueries, next |-> 1]>>
        BY <1>4 DEF Init, Task
      <3> QED
        BY <3>1
    <2>3. ASSUME NEW i \in DOMAIN InitialQueries PROVE TruePoint(InitialQueries[i])
      BY <1>2, <2>1, InitialFacts, ZerosTrue
    <2>4. TasksTrue
      BY <2>2, <2>3 DEF TasksTrue
    <2>5. WrittenInv
      <3>1. 1..1 - 1 = {}
        OBVIOUS
      <3> QED
        BY <2>2, <3>1 DEF WrittenInv
    <2> QED
      BY <1>1, <1>2, <2>2, <2>4, <2>5 DEF IInv, DbTrue, FirstTask
  <1> QED
    BY <1>3, <1>4

LEMMA StepIInv == IInv /\ [Next]_vars => IInv'
  BY TypesStep, TasksTrueStep, DbTrueStep, WrittenStep, FirstTaskStep DEF IInv

\* The inductive invariant: a task holds the counts of its snapshot, the database
\* what tasks have written.
THEOREM Invariance == Spec => []IInv
  BY InitIInv, StepIInv, PTL DEF Spec

-----------------------------------------------------------------------------
(* What the database holds *)

\* A point of the database is that of a counter in a snapshot, or of an epoch.
LEMMA DbPoint ==
  ASSUME IInv, NEW s \in DOMAIN db
  PROVE  \/ \E t \in Topics, at \in 0..Len(log) :
              /\ s[2] = Hash(t) /\ s[3] = at /\ s = <<s[1], Hash(t), at>>
              /\ \/ s[1] = UnfilteredName /\ db[s] = RecvCountsUnfiltered(at)[t]
                 \/ s[1] = CountsName /\ db[s] = RecvCounts(at)[t]
                 \/ s[1] = DuplicatesName /\ db[s] = Duplicates(at)[t]
         \/ over /\ \E t \in Topics, e \in Epochs :
              /\ s = <<t, EpochTag(e), e * SLOTS_PER_EPOCH>> /\ s[1] = t /\ s[2] = EpochTag(e)
              /\ db[s] = Counted(t, e) /\ Counted(t, e) > 0
  <1> DEFINE q == [series |-> s, count |-> db[s]]
  <1>1. TruePoint(q)
    BY DEF IInv, DbTrue
  <1>2. q.series = s /\ q.count = db[s]
    OBVIOUS
  <1> HIDE DEF q
  <1>3. CASE SnapshotPoint(q)
    <2>1. PICK t \in Topics, at \in 0..Len(log) :
             \/ q = Point(UnfilteredName, Hash(t), at, RecvCountsUnfiltered(at)[t])
             \/ q = Point(CountsName, Hash(t), at, RecvCounts(at)[t])
             \/ q = Point(DuplicatesName, Hash(t), at, Duplicates(at)[t])
      BY <1>3, Zenon DEF SnapshotPoint
    <2>2. CASE q = Point(UnfilteredName, Hash(t), at, RecvCountsUnfiltered(at)[t])
      <3>1. s = <<UnfilteredName, Hash(t), at>> /\ db[s] = RecvCountsUnfiltered(at)[t]
        BY <1>2, <2>2 DEF Point
      <3> QED
        BY <3>1
    <2>3. CASE q = Point(CountsName, Hash(t), at, RecvCounts(at)[t])
      <3>1. s = <<CountsName, Hash(t), at>> /\ db[s] = RecvCounts(at)[t]
        BY <1>2, <2>3 DEF Point
      <3> QED
        BY <3>1
    <2>4. CASE q = Point(DuplicatesName, Hash(t), at, Duplicates(at)[t])
      <3>1. s = <<DuplicatesName, Hash(t), at>> /\ db[s] = Duplicates(at)[t]
        BY <1>2, <2>4 DEF Point
      <3> QED
        BY <3>1
    <2> QED
      BY <2>1, <2>2, <2>3, <2>4
  <1>4. CASE FinalCount(q)
    <2>1. PICK t \in Topics, e \in Epochs : Counted(t, e) > 0 /\ q = EpochPoint(t, e)
      BY <1>4 DEF FinalCount
    <2>2. q = Point(t, EpochTag(e), e * SLOTS_PER_EPOCH, Counted(t, e))
      BY <2>1 DEF EpochPoint, EpochTag
    <2>3. s = <<t, EpochTag(e), e * SLOTS_PER_EPOCH>> /\ db[s] = Counted(t, e)
      BY <1>2, <2>2 DEF Point
    <2> QED
      BY <1>4, <2>1, <2>3 DEF FinalCount
  <1> QED
    BY <1>1, <1>3, <1>4 DEF TruePoint

LEMMA SeriesInNames == /\ {UnfilteredName, CountsName, DuplicatesName} \subseteq Names
                       /\ Topics \cap Names = {}
  BY NamesDiffer DEF Names

LEMMA IInvTypeOK == IInv => TypeOK
  <1> SUFFICES ASSUME IInv PROVE TypeOK
    OBVIOUS
  <1>0. RecordTypes
    BY DEF IInv
  <1>1. /\ plan \in {"eth_consensus", "scoring"} /\ log \in Seq(Entry) /\ events \in Seq(Message)
        /\ over \in BOOLEAN /\ failures \subseteq (DOMAIN tasks) \X Nat
    BY <1>0 DEF RecordTypes
  <1>2. \A k \in DOMAIN tasks : tasks[k].at \in 0..Len(log)
    <2> TAKE k \in DOMAIN tasks
    <2>1. tasks[k] \in RecordingTask /\ tasks[k].at <= Len(log)
      <3> HIDE DEF RecordingTask
      <3> QED
        BY <1>0 DEF RecordTypes
    <2>2. tasks[k].at \in Nat /\ Len(log) \in Nat
      BY <1>1, <2>1 DEF RecordingTask
    <2> QED
      BY <2>1, <2>2
  <1>3. ASSUME NEW s \in DOMAIN db, s[1] \notin Topics
        PROVE  s[3] \in 0..Len(log) /\ db[s] \in 0..s[3]
    <2>1. PICK t \in Topics, at \in 0..Len(log) :
              /\ s[3] = at
              /\ \/ db[s] = RecvCountsUnfiltered(at)[t]
                 \/ db[s] = RecvCounts(at)[t]
                 \/ db[s] = Duplicates(at)[t]
      BY <1>3, DbPoint
    <2>2. at \in Nat
      BY <1>1
    <2> QED
      BY <2>1, <2>2, CounterFacts
  <1> QED
    BY <1>1, <1>2, <1>3 DEF TypeOK, Entry

\* The type invariant: every count of a counter in the database is that of a time
\* that has been, and no more than the messages until then.
THEOREM TypeCorrect == Spec => []TypeOK
  BY Invariance, IInvTypeOK, PTL

LEMMA IInvMonotone == IInv => SeriesMonotone
  <1> SUFFICES ASSUME IInv, NEW s \in DOMAIN db, NEW u \in DOMAIN db,
                      s[1] = u[1], s[2] = u[2], s[3] <= u[3]
               PROVE  db[s] <= db[u]
    BY DEF SeriesMonotone
  <1>0. RecordTypes /\ log \in Seq(Entry)
    BY DEF IInv, RecordTypes
  <1>1. ASSUME NEW v \in DOMAIN db, v[1] \notin Topics
        PROVE  \E t \in Topics, at \in 0..Len(log) :
              /\ v[2] = Hash(t) /\ v[3] = at
              /\ \/ v[1] = UnfilteredName /\ db[v] = RecvCountsUnfiltered(at)[t]
                 \/ v[1] = CountsName /\ db[v] = RecvCounts(at)[t]
                 \/ v[1] = DuplicatesName /\ db[v] = Duplicates(at)[t]
    BY <1>1, DbPoint
  <1>2. ASSUME NEW v \in DOMAIN db, v[1] \in Topics
        PROVE  \E t \in Topics, e \in Epochs :
              /\ v = <<t, EpochTag(e), e * SLOTS_PER_EPOCH>> /\ v[1] = t /\ v[2] = EpochTag(e)
              /\ db[v] = Counted(t, e)
    <2>1. v[1] \notin {UnfilteredName, CountsName, DuplicatesName}
      BY <1>2, SeriesInNames
    <2> QED
      BY <2>1, DbPoint
  <1>3. CASE s[1] \notin Topics
    <2>1. PICK t \in Topics, at \in 0..Len(log) :
              /\ s[2] = Hash(t) /\ s[3] = at
              /\ \/ s[1] = UnfilteredName /\ db[s] = RecvCountsUnfiltered(at)[t]
                 \/ s[1] = CountsName /\ db[s] = RecvCounts(at)[t]
                 \/ s[1] = DuplicatesName /\ db[s] = Duplicates(at)[t]
      BY <1>1, <1>3
    <2>2. PICK w \in Topics, until \in 0..Len(log) :
              /\ u[2] = Hash(w) /\ u[3] = until
              /\ \/ u[1] = UnfilteredName /\ db[u] = RecvCountsUnfiltered(until)[w]
                 \/ u[1] = CountsName /\ db[u] = RecvCounts(until)[w]
                 \/ u[1] = DuplicatesName /\ db[u] = Duplicates(until)[w]
      BY <1>1, <1>3
    <2>3. t = w
      <3>1. <<"hash", t>> \in Hash(w)
        BY <2>1, <2>2 DEF Hash
      <3>2. <<"hash", t>> = <<"hash", w>>
        BY <3>1 DEF Hash
      <3> QED
        BY <3>2
    <2>4. at \in Nat /\ until \in Nat /\ at <= until
      BY <1>0, <2>1, <2>2
    <2>5. /\ RecvCountsUnfiltered(at)[t] <= RecvCountsUnfiltered(until)[t]
          /\ RecvCounts(at)[t] <= RecvCounts(until)[t]
          /\ Duplicates(at)[t] <= Duplicates(until)[t]
      BY <2>4, CountersGrow
    <2> QED
      BY <2>1, <2>2, <2>3, <2>5, NamesDiffer
  <1>4. CASE s[1] \in Topics
    <2>1. PICK t \in Topics, e \in Epochs : s[1] = t /\ s[2] = EpochTag(e) /\ db[s] = Counted(t, e)
      BY <1>2, <1>4
    <2>2. PICK w \in Topics, f \in Epochs : u[1] = w /\ u[2] = EpochTag(f) /\ db[u] = Counted(w, f)
      BY <1>2, <1>4
    <2>3. e = f
      <3>1. <<"epoch", e>> \in EpochTag(f)
        BY <2>1, <2>2 DEF EpochTag
      <3>2. <<"epoch", e>> = <<"epoch", f>>
        BY <3>1 DEF EpochTag
      <3> QED
        BY <3>2
    <2>4. db[s] = Counted(t, e) /\ db[u] = Counted(t, e)
      BY <2>1, <2>2, <2>3
    <2>5. Counted(t, e) \in Nat
      BY <1>0, CountedNat
    <2> QED
      BY <2>4, <2>5
  <1> QED
    BY <1>3, <1>4

\* A counter never goes back in the database, however the tasks overtake each other.
THEOREM NeverBack == Spec => []SeriesMonotone
  BY Invariance, IInvMonotone, PTL

LEMMA IInvKept == IInv => NothingOverwritten
  <1> SUFFICES ASSUME IInv, NEW k \in DOMAIN tasks, NEW i \in 1..tasks[k].next - 1,
                      <<k, i>> \notin failures
               PROVE  db[tasks[k].queries[i].series] = tasks[k].queries[i].count
    BY DEF NothingOverwritten
  <1> DEFINE point == tasks[k].queries[i]
  <1>1. i \in DOMAIN tasks[k].queries
    <2>1. tasks[k] \in RecordingTask /\ tasks[k].next <= Len(tasks[k].queries) + 1
      <3> HIDE DEF RecordingTask
      <3> QED
        BY DEF IInv, RecordTypes
    <2>2. tasks[k].queries \in Seq(Query) /\ tasks[k].next \in Nat
      BY <2>1 DEF RecordingTask
    <2> HIDE DEF Query
    <2> QED
      BY <2>1, <2>2
  <1>2. TruePoint(point)
    BY <1>1 DEF IInv, TasksTrue
  <1>3. point.series \in DOMAIN db
    BY DEF IInv, WrittenInv
  <1> DEFINE stored == [series |-> point.series, count |-> db[point.series]]
  <1>4. TruePoint(stored)
    BY <1>3 DEF IInv, DbTrue
  <1>5. stored.series = point.series /\ stored.count = db[point.series]
    OBVIOUS
  <1> HIDE DEF point, stored
  <1>6. stored.count = point.count
    BY <1>2, <1>4, <1>5, OneCount
  <1> QED
    BY <1>5, <1>6 DEF point

\* A point that was written stays as it was written.
THEOREM PointsKept == Spec => []NothingOverwritten
  BY Invariance, IInvKept, PTL

LEMMA IInvDuplicates == IInv => DuplicatesExact
  <1> SUFFICES ASSUME IInv, NEW s \in DOMAIN db, s[1] = DuplicatesName
               PROVE  db[s] = Cardinality({i \in 1..s[3] :
                        log[i].received /\ ~New(i) /\ <<"hash", log[i].message.topic>> \in s[2]})
    BY DEF DuplicatesExact
  <1>1. s[1] \notin Topics
    BY NamesDiffer
  <1>2. PICK t \in Topics, at \in 0..Len(log) :
              /\ s[2] = Hash(t) /\ s[3] = at
              /\ \/ s[1] = UnfilteredName /\ db[s] = RecvCountsUnfiltered(at)[t]
                 \/ s[1] = CountsName /\ db[s] = RecvCounts(at)[t]
                 \/ s[1] = DuplicatesName /\ db[s] = Duplicates(at)[t]
    BY <1>1, DbPoint
  <1>3. db[s] = Duplicates(at)[t]
    BY <1>2, NamesDiffer
  <1>4. \A topic : <<"hash", topic>> \in Hash(t) <=> topic = t
    BY DEF Hash
  <1>5. CopiesAt(at, t) = {i \in 1..s[3] :
          log[i].received /\ ~New(i) /\ <<"hash", log[i].message.topic>> \in s[2]}
    BY <1>2, <1>4 DEF CopiesAt
  <1> QED
    BY <1>3, <1>5 DEF Duplicates

\* The duplicates in the database are the copies received before the snapshot.
THEOREM DuplicatesCounted == Spec => []DuplicatesExact
  BY Invariance, IInvDuplicates, PTL

LEMMA IInvInitialised == IInv => SeriesInitialised
  <1> SUFFICES ASSUME IInv, plan = "eth_consensus", tasks[1].next > Len(tasks[1].queries),
                      failures = {}, NEW s \in DOMAIN db
               PROVE  <<s[1], s[2], 0>> \in DOMAIN db /\ db[<<s[1], s[2], 0>>] = 0
    BY DEF SeriesInitialised
  <1>1. ~over
    BY DEF IInv, RecordTypes
  <1>2. PICK t \in Topics : s[2] = Hash(t) /\ s[1] \in {UnfilteredName, CountsName, DuplicatesName}
    BY <1>1, DbPoint
  <1>3. PICK k \in 1..3 : Initialised[k] = s[1]
    <2>1. DuplicatesName = "topic_msg_recv_duplicates"
      BY DEF DuplicatesName
    <2>2. \A name \in {UnfilteredName, CountsName, DuplicatesName} : \E k \in 1..3 : Initialised[k] = name
      <3>1. /\ Initialised[1] = CountsName /\ Initialised[2] = UnfilteredName
            /\ Initialised[3] = DuplicatesName
        BY <2>1 DEF Initialised, UnfilteredName, CountsName
      <3> QED
        BY <3>1
    <2> QED
      BY <1>2, <2>2
  <1>4. PICK i \in DOMAIN InitialQueries : InitialQueries[i] = Point(Initialised[k], Hash(t), 0, 0)
    BY InitialFacts
  <1>5. 1 \in DOMAIN tasks /\ tasks[1].queries = InitialQueries
    BY DEF IInv, FirstTask
  <1>6. i \in 1..tasks[1].next - 1
    <2>1. InitialQueries \in Seq(Query)
      BY InitialFacts
    <2>2. i \in 1..Len(InitialQueries) /\ Len(InitialQueries) \in Nat
      BY <2>1
    <2>3. tasks[1].next \in Nat
      <3>1. tasks[1] \in RecordingTask
        <4> HIDE DEF RecordingTask
        <4> QED
          BY <1>5 DEF IInv, RecordTypes
      <3> QED
        BY <3>1 DEF RecordingTask
    <2> QED
      BY <1>5, <2>2, <2>3
  <1> DEFINE zero == InitialQueries[i]
  <1>7. zero.series = <<s[1], s[2], 0>> /\ zero.count = 0
    BY <1>2, <1>3, <1>4 DEF Point
  <1>8. zero.series \in DOMAIN db
    BY <1>5, <1>6 DEF IInv, WrittenInv
  <1>9. db[zero.series] = zero.count
    <2>1. NothingOverwritten
      BY IInvKept
    <2>2. <<1, i>> \notin failures
      OBVIOUS
    <2> QED
      BY <1>5, <1>6, <2>1, <2>2 DEF NothingOverwritten
  <1> QED
    BY <1>7, <1>8, <1>9

\* eth_consensus: every series of the counters begins with a zero.
THEOREM ZerosFirst == Spec => []SeriesInitialised
  BY Invariance, IInvInitialised, PTL

-----------------------------------------------------------------------------
(* The counts of the epochs *)

\* An epoch's slots are those from its first one to the next one's first.
LEMMA EpochOfSlot ==
  ASSUME NEW slot \in Nat, NEW e \in Nat
  PROVE  slot \in e * SLOTS_PER_EPOCH .. (e + 1) * SLOTS_PER_EPOCH - 1 <=> Epoch(slot) = e
  <1> DEFINE d == SLOTS_PER_EPOCH
             k == slot \div d
  <1>1. d \in Nat \ {0}
    BY MessageAssumption
  <1>2. k \in Nat /\ k * d <= slot /\ slot < (k + 1) * d
    BY <1>1
  <1> HIDE DEF k, d
  <1>3. (k + 1) * d = k * d + d /\ (e + 1) * d = e * d + d /\ k * d \in Nat /\ e * d \in Nat
    BY <1>1, <1>2
  <1>4. ASSUME k < e PROVE (k + 1) * d <= e * d
    BY <1>1, <1>2, <1>4
  <1>5. ASSUME e < k PROVE (e + 1) * d <= k * d
    BY <1>1, <1>2, <1>5
  <1>6. k = e \/ k < e \/ e < k
    BY <1>2
  <1>7. (e * d <= slot /\ slot <= (e + 1) * d - 1) <=> k = e
    BY <1>1, <1>2, <1>3, <1>4, <1>5, <1>6
  <1> QED
    BY <1>1, <1>3, <1>7 DEF k, d, Epoch

FirstMessages == {log[i].message : i \in {j \in DOMAIN log : New(j)}}
Waiting == {events[j] : j \in DOMAIN events}
Handled == FirstMessages \ Waiting
HandledIn(t, e) == {m \in Handled : m.topic = t /\ Epoch(m.slot) = e}

\* An event is there once, for a message that came first as a received one.
EventsInv ==
    plan = "scoring" =>
        /\ Waiting \subseteq FirstMessages
        /\ \A i, j \in DOMAIN events : events[i] = events[j] => i = j

\* What is kept of a topic and an epoch is that of the messages handled so far.
ReceivedInv ==
    plan = "scoring" =>
        \A t \in Topics, e \in Epochs :
            IF t \in SetTopics THEN received[t][e] = {Key(m) : m \in HandledIn(t, e)}
            ELSE Len(received[t][e]) = Cardinality(HandledIn(t, e))

\* Once the loop is over the last task is the one with the counts.
LastTask ==
    over => /\ Len(tasks) \in DOMAIN tasks
            /\ \A t \in Topics, e \in Epochs : Counted(t, e) > 0 =>
                \E i \in DOMAIN tasks[Len(tasks)].queries :
                    tasks[Len(tasks)].queries[i] = EpochPoint(t, e)

CountInv == EventsInv /\ ReceivedInv /\ LastTask

\* The first time that a message is received is also the first time that it is known.
LEMMA FirstsAppended ==
  ASSUME log \in Seq(Entry), NEW entry \in Entry, log' = Append(log, entry)
  PROVE  FirstMessages' = IF entry.received /\ ~\E i \in DOMAIN log : log[i].message = entry.message
                          THEN FirstMessages \cup {entry.message} ELSE FirstMessages
  <1>0. PICK n \in Nat : n = Len(log)
    OBVIOUS
  <1>1. /\ n \in Nat /\ DOMAIN log = 1..n /\ DOMAIN log' = 1..n + 1
        /\ \A i \in 1..n : log'[i] = log[i]
        /\ log'[n + 1] = entry
    BY <1>0
  <1>2. \A i \in 1..n : New(i)' <=> New(i)
    BY <1>1 DEF New
  <1>3. New(n + 1)' <=> entry.received /\ ~\E i \in DOMAIN log : log[i].message = entry.message
    <2>1. 1..(n + 1) - 1 = 1..n
      BY <1>1
    <2>2. New(n + 1)' <=> /\ log'[n + 1].received
                          /\ \A j \in 1..n : log'[j].message # log'[n + 1].message
      BY <2>1 DEF New
    <2> QED
      BY <1>1, <2>2
  <1>4. \A m : m \in FirstMessages' <=> \E i \in 1..n + 1 : New(i)' /\ m = log'[i].message
    BY <1>1 DEF FirstMessages
  <1>5. \A m : m \in FirstMessages <=> \E i \in 1..n : New(i) /\ m = log[i].message
    BY <1>1 DEF FirstMessages
  <1>6. \A i : i \in 1..n + 1 <=> i \in 1..n \/ i = n + 1
    BY <1>1
  <1> HIDE DEF New
  <1>7. \A m : m \in FirstMessages' <=>
           m \in FirstMessages \/ (New(n + 1)' /\ m = entry.message)
    <2>1. ASSUME NEW m \in FirstMessages'
          PROVE  m \in FirstMessages \/ (New(n + 1)' /\ m = entry.message)
      <3>1. PICK i \in 1..n + 1 : New(i)' /\ m = log'[i].message
        BY <1>4
      <3>2. CASE i \in 1..n
        BY <1>1, <1>2, <1>5, <3>1, <3>2
      <3>3. CASE i = n + 1
        BY <1>1, <3>1, <3>3
      <3> QED
        BY <1>6, <3>1, <3>2, <3>3
    <2>2. ASSUME NEW m \in FirstMessages PROVE m \in FirstMessages'
      <3>1. PICK i \in 1..n : New(i) /\ m = log[i].message
        BY <1>5
      <3>2. i \in 1..n + 1 /\ New(i)' /\ m = log'[i].message
        BY <1>1, <1>2, <1>6, <3>1
      <3> QED
        BY <1>4, <3>2
    <2>3. ASSUME New(n + 1)' PROVE entry.message \in FirstMessages'
      <3>1. n + 1 \in 1..n + 1 /\ entry.message = log'[n + 1].message
        BY <1>1, <1>6
      <3> QED
        BY <1>4, <2>3, <3>1
    <2> QED
      BY <2>1, <2>2, <2>3
  <1> HIDE DEF FirstMessages
  <1>8. CASE New(n + 1)'
    <2>1. FirstMessages' = FirstMessages \cup {entry.message}
      BY <1>7, <1>8
    <2> QED
      BY <1>3, <1>8, <2>1
  <1>9. CASE ~New(n + 1)'
    <2>1. FirstMessages' = FirstMessages
      BY <1>7, <1>9
    <2> QED
      BY <1>3, <1>9, <2>1
  <1> QED
    BY <1>8, <1>9

LEMMA FirstsAreMessages ==
  ASSUME RecordTypes
  PROVE  /\ FirstMessages \subseteq {log[i].message : i \in DOMAIN log}
         /\ FirstMessages \subseteq Message /\ Waiting \subseteq Message
         /\ \A t, e : HandledIn(t, e) \subseteq Message /\ IsFiniteSet(HandledIn(t, e))
  <1>1. log \in Seq(Entry) /\ events \in Seq(Message)
    BY DEF RecordTypes
  <1>2. \A i \in DOMAIN log : log[i].message \in Message
    <2>1. \A i \in DOMAIN log : log[i] \in Entry
      BY <1>1
    <2> QED
      BY <2>1 DEF Entry
  <1>3. FirstMessages \subseteq Message /\ Waiting \subseteq Message
    BY <1>1, <1>2 DEF FirstMessages, Waiting
  <1>4. \A t, e : HandledIn(t, e) \subseteq Message
    BY <1>3 DEF HandledIn, Handled
  <1>5. \A t, e : IsFiniteSet(HandledIn(t, e))
    BY <1>4, MessageAssumption, FS_Subset
  <1> QED
    BY <1>3, <1>4, <1>5 DEF FirstMessages

\* How the events change with the log, and which messages are handled.
LEMMA EventsChange ==
  ASSUME RecordTypes, EventsInv, [Next]_vars, plan = "scoring"
  PROVE  /\ EventsInv'
         /\ \/ Handled' = Handled /\ received' = received
            \/ /\ HandleEvent
               /\ Head(events) \in Message \ Handled
               /\ Handled' = Handled \cup {Head(events)}
  <1>0. /\ plan' = plan /\ log \in Seq(Entry) /\ events \in Seq(Message)
        /\ Waiting \subseteq FirstMessages
        /\ \A i, j \in DOMAIN events : events[i] = events[j] => i = j
    BY StepFacts DEF RecordTypes, EventsInv
  <1>1. CASE Publish
    <2>1. PICK m \in Own : log' = Append(log, [message |-> m, received |-> FALSE])
      BY <1>1 DEF Publish
    <2>2. [message |-> m, received |-> FALSE] \in Entry
      BY <2>1, MessageAssumption DEF Entry
    <2>3. FirstMessages' = FirstMessages
      BY <1>0, <2>1, <2>2, FirstsAppended
    <2>4. events' = events /\ received' = received
      BY <1>1 DEF Publish
    <2>5. Waiting' = Waiting
      BY <2>4 DEF Waiting
    <2> QED
      BY <1>0, <2>3, <2>4, <2>5 DEF EventsInv, Handled
  <1>2. CASE Receive
    <2>1. PICK m \in Message :
            /\ log' = Append(log, [message |-> m, received |-> TRUE])
            /\ events' = IF \E i \in DOMAIN log : log[i].message = m
                         THEN events ELSE Append(events, m)
      BY <1>2 DEF Receive
    <2>2. [message |-> m, received |-> TRUE] \in Entry
      BY DEF Entry
    <2>3. FirstMessages' = IF \E i \in DOMAIN log : log[i].message = m
                           THEN FirstMessages ELSE FirstMessages \cup {m}
      BY <1>0, <2>1, <2>2, FirstsAppended
    <2>4. received' = received
      BY <1>2 DEF Receive
    <2>5. CASE \E i \in DOMAIN log : log[i].message = m
      <3>1. events' = events /\ FirstMessages' = FirstMessages
        BY <2>1, <2>3, <2>5
      <3>2. Waiting' = Waiting
        BY <3>1 DEF Waiting
      <3> QED
        BY <1>0, <2>4, <3>1, <3>2 DEF EventsInv, Handled
    <2>6. CASE ~\E i \in DOMAIN log : log[i].message = m
      <3>1. events' = Append(events, m) /\ FirstMessages' = FirstMessages \cup {m}
        BY <2>1, <2>3, <2>6
      <3>2. m \notin FirstMessages
        BY <2>6, FirstsAreMessages
      <3>3. m \notin Waiting
        BY <1>0, <3>2
      <3>4. /\ Len(events) \in Nat /\ DOMAIN events = 1..Len(events)
            /\ DOMAIN events' = 1..Len(events) + 1
            /\ \A i \in 1..Len(events) : events'[i] = events[i]
            /\ events'[Len(events) + 1] = m
        BY <1>0, <3>1
      <3>5. Waiting' = Waiting \cup {m}
        BY <3>4 DEF Waiting
      <3>6. \A i, j \in DOMAIN events' : events'[i] = events'[j] => i = j
        <4>1. \A i \in 1..Len(events) : events[i] # m
          BY <3>3, <3>4 DEF Waiting
        <4> QED
          BY <1>0, <3>4, <4>1
      <3>7. Handled' = Handled
        BY <3>1, <3>2, <3>5 DEF Handled
      <3> QED
        BY <1>0, <2>4, <3>1, <3>5, <3>6, <3>7 DEF EventsInv
    <2> QED
      BY <2>5, <2>6
  <1>3. CASE HandleEvent
    <2>1. events # <<>> /\ events' = Tail(events) /\ log' = log
      BY <1>3 DEF HandleEvent
    <2>2. /\ Len(events) \in Nat /\ Len(events) > 0 /\ DOMAIN events = 1..Len(events)
          /\ DOMAIN events' = 1..Len(events) - 1
          /\ \A i \in 1..Len(events) - 1 : events'[i] = events[i + 1]
          /\ Head(events) = events[1] /\ events[1] \in Message
      BY <1>0, <2>1
    <2>3. \A i, j \in DOMAIN events' : events'[i] = events'[j] => i = j
      <3>1. \A i \in DOMAIN events' : i \in Int /\ i + 1 \in DOMAIN events
        BY <2>2
      <3>2. \A i, j \in DOMAIN events' : events[i + 1] = events[j + 1] => i + 1 = j + 1
        BY <1>0, <3>1
      <3> QED
        BY <2>2, <3>1, <3>2
    <2>4. Waiting' = Waiting \ {Head(events)}
      <3>1. \A i \in 1..Len(events) : i = 1 \/ (i - 1 \in 1..Len(events) - 1 /\ (i - 1) + 1 = i)
        BY <2>2
      <3>2. \A i \in 1..Len(events) - 1 : i + 1 \in 1..Len(events) /\ i + 1 # 1
        BY <2>2
      <3>3. 1 \in 1..Len(events)
        BY <2>2
      <3>4. Waiting' \subseteq Waiting \ {Head(events)}
        <4>1. ASSUME NEW m \in Waiting' PROVE m \in Waiting /\ m # Head(events)
          <5>1. PICK i \in 1..Len(events) - 1 : m = events'[i]
            BY <2>2 DEF Waiting
          <5>2. m = events[i + 1] /\ i + 1 \in DOMAIN events /\ i + 1 # 1 /\ 1 \in DOMAIN events
            BY <2>2, <3>2, <3>3, <5>1
          <5> QED
            BY <1>0, <2>2, <5>2 DEF Waiting
        <4> QED
          BY <4>1
      <3>5. ASSUME NEW m \in Waiting, m # Head(events) PROVE m \in Waiting'
        <4>1. PICK i \in 1..Len(events) : m = events[i]
          BY <2>2 DEF Waiting
        <4>2. i - 1 \in DOMAIN events' /\ (i - 1) + 1 = i
          BY <2>2, <3>1, <3>5, <4>1
        <4>3. m = events'[i - 1]
          BY <2>2, <4>1, <4>2
        <4> QED
          BY <4>2, <4>3 DEF Waiting
      <3> QED
        BY <3>4, <3>5
    <2>5. FirstMessages' = FirstMessages
      BY <2>1 DEF FirstMessages, New
    <2>6. Head(events) \in Waiting
      BY <2>2 DEF Waiting
    <2>7. Handled' = Handled \cup {Head(events)} /\ Head(events) \notin Handled
      BY <1>0, <2>4, <2>5, <2>6 DEF Handled
    <2> QED
      BY <1>0, <1>3, <2>2, <2>3, <2>4, <2>5, <2>7 DEF EventsInv
  <1>4. CASE ~Publish /\ ~Receive /\ ~HandleEvent
    <2>1. log' = log /\ events' = events /\ received' = received
      BY <1>4 DEF Next, vars, Tick, Deadline, Write, FailToWrite
    <2>2. FirstMessages' = FirstMessages /\ Waiting' = Waiting
      BY <2>1 DEF FirstMessages, New, Waiting
    <2> QED
      BY <1>0, <2>1, <2>2 DEF EventsInv, Handled
  <1> QED
    BY <1>1, <1>2, <1>3, <1>4

\* Handling a message adds it to those of its topic and its epoch.
LEMMA HandledInGrows ==
  ASSUME RecordTypes, NEW h \in Message, Handled' = Handled \cup {h}, NEW t, NEW e
  PROVE  HandledIn(t, e)' = IF t = h.topic /\ e = Epoch(h.slot)
                            THEN HandledIn(t, e) \cup {h} ELSE HandledIn(t, e)
  <1>1. \A m : m \in HandledIn(t, e)' <=>
           (m \in Handled \/ m = h) /\ m.topic = t /\ Epoch(m.slot) = e
    BY DEF HandledIn
  <1>2. \A m : m \in HandledIn(t, e) <=> m \in Handled /\ m.topic = t /\ Epoch(m.slot) = e
    BY DEF HandledIn
  <1> HIDE DEF HandledIn
  <1>3. CASE t = h.topic /\ e = Epoch(h.slot)
    <2>1. HandledIn(t, e)' = HandledIn(t, e) \cup {h}
      BY <1>1, <1>2, <1>3
    <2> QED
      BY <1>3, <2>1
  <1>4. CASE ~(t = h.topic /\ e = Epoch(h.slot))
    <2>1. HandledIn(t, e)' = HandledIn(t, e)
      BY <1>1, <1>2, <1>4
    <2> QED
      BY <1>4, <2>1
  <1> QED
    BY <1>3, <1>4

LEMMA ReceivedStep ==
  ASSUME RecordTypes, EventsInv, ReceivedInv, [Next]_vars
  PROVE  ReceivedInv'
  <1> SUFFICES ASSUME plan = "scoring", NEW t \in Topics, NEW e \in Epochs
               PROVE  IF t \in SetTopics
                      THEN received'[t][e] = {Key(m) : m \in HandledIn(t, e)'}
                      ELSE Len(received'[t][e]) = Cardinality(HandledIn(t, e)')
    BY StepFacts DEF ReceivedInv
  <1>0. IF t \in SetTopics THEN received[t][e] = {Key(m) : m \in HandledIn(t, e)}
        ELSE Len(received[t][e]) = Cardinality(HandledIn(t, e))
    BY DEF ReceivedInv
  <1>1. CASE Handled' = Handled /\ received' = received
    <2>1. HandledIn(t, e)' = HandledIn(t, e)
      BY <1>1 DEF HandledIn
    <2> QED
      BY <1>0, <1>1, <2>1
  <1>2. CASE HandleEvent /\ Head(events) \in Message \ Handled
             /\ Handled' = Handled \cup {Head(events)}
    <2>1. PICK h \in Message : h = Head(events) /\ h \notin Handled
      BY <1>2
    <2>2. received' = Added(h)
      BY <1>2, <2>1 DEF HandleEvent
    <2>3. received'[t][e] = IF t # h.topic \/ e # Epoch(h.slot) THEN received[t][e]
                            ELSE IF t \in SetTopics THEN received[t][e] \cup {Key(h)}
                            ELSE Append(received[t][e], Key(h))
      BY <2>2, AddedTypes
    <2>4. HandledIn(t, e)' = IF t = h.topic /\ e = Epoch(h.slot)
                             THEN HandledIn(t, e) \cup {h} ELSE HandledIn(t, e)
      BY <1>2, <2>1, HandledInGrows
    <2>5. CASE ~(t = h.topic /\ e = Epoch(h.slot))
      BY <1>0, <2>3, <2>4, <2>5
    <2>6. CASE t = h.topic /\ e = Epoch(h.slot)
      <3>1. HandledIn(t, e)' = HandledIn(t, e) \cup {h}
        BY <2>4, <2>6
      <3>2. CASE t \in SetTopics
        <4>1. received'[t][e] = received[t][e] \cup {Key(h)}
          BY <2>3, <2>6, <3>2
        <4>2. received[t][e] = {Key(m) : m \in HandledIn(t, e)}
          BY <1>0, <3>2
        <4> QED
          BY <3>1, <3>2, <4>1, <4>2
      <3>3. CASE t \notin SetTopics
        <4>1. received'[t][e] = Append(received[t][e], Key(h))
          BY <2>3, <2>6, <3>3
        <4>2. received[t][e] \in Seq(Keys) /\ Key(h) \in Keys
          <5>1. received[t][e] \in Collection(t)
            BY DEF RecordTypes
          <5> QED
            BY <3>3, <5>1 DEF Collection, Keys
        <4>3. Len(received'[t][e]) = Len(received[t][e]) + 1
          BY <4>1, <4>2
        <4>4. h \notin HandledIn(t, e)
          BY <2>1 DEF HandledIn
        <4>5. IsFiniteSet(HandledIn(t, e))
          BY FirstsAreMessages
        <4>6. Cardinality(HandledIn(t, e)') = Cardinality(HandledIn(t, e)) + 1
          BY <3>1, <4>4, <4>5, FS_AddElement
        <4> QED
          BY <1>0, <3>3, <4>3, <4>6
      <3> QED
        BY <3>2, <3>3
    <2> QED
      BY <2>5, <2>6
  <1> QED
    BY <1>1, <1>2, EventsChange

LEMMA LastTaskStep ==
  ASSUME RecordTypes, LastTask, [Next]_vars
  PROVE  LastTask'
  <1> SUFFICES ASSUME over'
               PROVE  /\ Len(tasks') \in DOMAIN tasks'
                      /\ \A t \in Topics, e \in Epochs : Counted(t, e)' > 0 =>
                          \E i \in DOMAIN tasks'[Len(tasks')].queries :
                              tasks'[Len(tasks')].queries[i] = EpochPoint(t, e)'
    BY DEF LastTask
  <1>1. CASE Deadline
    <2>1. PICK task :
            /\ tasks' = Append(tasks, task)
            /\ \A t \in Topics, e \in Epochs : Counted(t, e) > 0 =>
                 \E i \in DOMAIN task.queries : task.queries[i] = EpochPoint(t, e)
      BY <1>1, DeadlineSpawns
    <2>2. received' = received
      BY <1>1 DEF Deadline
    <2>3. \A t, e : Counted(t, e)' = Counted(t, e) /\ EpochPoint(t, e)' = EpochPoint(t, e)
      BY <2>2 DEF Counted, EpochPoint
    <2>4. /\ Len(tasks') \in DOMAIN tasks' /\ tasks'[Len(tasks')] = task
      BY <2>1, AppendedTask
    <2> QED
      BY <2>1, <2>3, <2>4
  <1>2. CASE ~Deadline
    <2>1. over
      BY <1>2 DEF Next, vars, Publish, Receive, HandleEvent, Tick, Write, FailToWrite
    <2>2. received' = received
      BY <2>1, StepFacts
    <2>3. \A t, e : Counted(t, e)' = Counted(t, e) /\ EpochPoint(t, e)' = EpochPoint(t, e)
      BY <2>2 DEF Counted, EpochPoint
    <2>4. /\ Len(tasks) \in DOMAIN tasks
          /\ \A t \in Topics, e \in Epochs : Counted(t, e) > 0 =>
              \E i \in DOMAIN tasks[Len(tasks)].queries :
                  tasks[Len(tasks)].queries[i] = EpochPoint(t, e)
      BY <2>1 DEF LastTask
    <2>5. /\ DOMAIN tasks' = DOMAIN tasks /\ Len(tasks') = Len(tasks)
          /\ tasks'[Len(tasks)].queries = tasks[Len(tasks)].queries
      <3>1. CASE \E k \in DOMAIN tasks : Write(k) \/ FailToWrite(k)
        <4>1. PICK k \in DOMAIN tasks :
                 Advance(k) /\ tasks[k].next \in DOMAIN tasks[k].queries
          BY <3>1 DEF Write, FailToWrite
        <4> QED
          BY <2>4, <4>1, AdvancedTask
      <3>2. CASE ~\E k \in DOMAIN tasks : Write(k) \/ FailToWrite(k)
        <4>1. tasks' = tasks
          BY <1>2, <2>1, <3>2 DEF Next, vars, Publish, Receive, HandleEvent, Tick
        <4> QED
          BY <4>1
      <3> QED
        BY <3>1, <3>2
    <2> QED
      BY <2>3, <2>4, <2>5
  <1> QED
    BY <1>1, <1>2

LEMMA InitCountInv == Init => CountInv
  <1> SUFFICES ASSUME Init PROVE CountInv
    OBVIOUS
  <1>1. DOMAIN events = {} /\ DOMAIN log = {} /\ ~over
    BY DEF Init
  <1>2. FirstMessages = {} /\ Waiting = {}
    BY <1>1 DEF FirstMessages, Waiting
  <1>3. \A t, e : HandledIn(t, e) = {}
    BY <1>2 DEF HandledIn, Handled
  <1>4. ASSUME NEW t \in Topics, NEW e \in Epochs
        PROVE  received[t][e] = IF t \in SetTopics THEN {} ELSE <<>>
    BY DEF Init
  <1>5. ReceivedInv
    <2>1. Cardinality({}) = 0
      BY FS_EmptySet
    <2>2. Len(<<>>) = 0
      OBVIOUS
    <2> QED
      BY <1>3, <1>4, <2>1, <2>2 DEF ReceivedInv
  <1> QED
    BY <1>1, <1>2, <1>5 DEF CountInv, EventsInv, LastTask

LEMMA StepCountInv == RecordTypes /\ CountInv /\ [Next]_vars => CountInv'
  <1> SUFFICES ASSUME RecordTypes, CountInv, [Next]_vars PROVE CountInv'
    OBVIOUS
  <1>1. EventsInv'
    <2>1. CASE plan = "scoring"
      BY <2>1, EventsChange DEF CountInv
    <2>2. CASE plan # "scoring"
      BY <2>2, StepFacts DEF EventsInv
    <2> QED
      BY <2>1, <2>2
  <1> QED
    BY <1>1, ReceivedStep, LastTaskStep DEF CountInv

\* The messages counted are those that have been handled, and at the end they are
\* in the last task.
THEOREM CountsInvariance == Spec => [](IInv /\ CountInv)
  <1>1. IInv => RecordTypes
    BY DEF IInv
  <1> QED
    BY <1>1, InitIInv, StepIInv, InitCountInv, StepCountInv, PTL DEF Spec

\* The block's slot, or else the validator, tells the messages of an epoch apart.
LEMMA CountedHandled ==
  ASSUME RecordTypes, CountInv, plan = "scoring", NEW t \in Topics, NEW e \in Epochs
  PROVE  Counted(t, e) = Cardinality(HandledIn(t, e))
  <1>1. IF t \in SetTopics THEN received[t][e] = {Key(m) : m \in HandledIn(t, e)}
        ELSE Len(received[t][e]) = Cardinality(HandledIn(t, e))
    BY DEF CountInv, ReceivedInv
  <1>2. CASE t \in SetTopics
    <2>1. PICK S : S = HandledIn(t, e)
      OBVIOUS
    <2>2. PICK f : f = [m \in S |-> Key(m)]
      OBVIOUS
    <2>3. S \subseteq Message /\ IsFiniteSet(S)
      BY <2>1, FirstsAreMessages
    <2>4. ASSUME NEW m \in S, NEW o \in S, f[m] = f[o] PROVE m = o
      <3>1. m \in Message /\ o \in Message /\ m.topic = t /\ o.topic = t
            /\ Epoch(m.slot) = e /\ Epoch(o.slot) = e
        BY <2>1, <2>3 DEF HandledIn
      <3>2. Key(m) = Key(o)
        BY <2>2, <2>4
      <3> QED
        BY <1>2, <3>1, <3>2, GeneratorAssumption DEF Key, Epoch
    <2>5. received[t][e] = {Key(m) : m \in S}
      BY <1>1, <1>2, <2>1
    <2>6. f \in Bijection(S, received[t][e])
      <3>1. f \in [S -> received[t][e]]
        BY <2>2, <2>5
      <3>2. \A k \in received[t][e] : \E m \in S : f[m] = k
        BY <2>2, <2>5
      <3> QED
        BY <2>4, <3>1, <3>2 DEF Bijection, Injection, IsInjective, Surjection
    <2>7. Cardinality(received[t][e]) = Cardinality(S)
      BY <2>3, <2>6, FS_Bijection DEF ExistsBijection
    <2> QED
      BY <1>2, <2>1, <2>7 DEF Counted
  <1>3. CASE t \notin SetTopics
    BY <1>1, <1>3 DEF Counted
  <1> QED
    BY <1>2, <1>3

\* Counting the entries of the log and the events is counting messages.
LEMMA CountedOnce ==
  ASSUME RecordTypes, CountInv, plan = "scoring", NEW t \in Topics, NEW e \in Epochs
  PROVE  Cardinality({i \in DOMAIN log : New(i) /\ log[i].message.topic = t
                                         /\ Epoch(log[i].message.slot) = e})
         - Cardinality({i \in DOMAIN events : events[i].topic = t /\ Epoch(events[i].slot) = e})
         = Cardinality(HandledIn(t, e))
  <1>1. PICK I : I = {i \in DOMAIN log : New(i) /\ log[i].message.topic = t
                                         /\ Epoch(log[i].message.slot) = e}
    OBVIOUS
  <1>2. PICK J : J = {i \in DOMAIN events : events[i].topic = t /\ Epoch(events[i].slot) = e}
    OBVIOUS
  <1>3. PICK F : F = {m \in FirstMessages : m.topic = t /\ Epoch(m.slot) = e}
    OBVIOUS
  <1>4. PICK W : W = {m \in Waiting : m.topic = t /\ Epoch(m.slot) = e}
    OBVIOUS
  <1>5. /\ IsFiniteSet(I) /\ IsFiniteSet(J)
    <2>1. /\ DOMAIN log = 1..Len(log) /\ Len(log) \in Nat
          /\ DOMAIN events = 1..Len(events) /\ Len(events) \in Nat
      BY DEF RecordTypes
    <2>2. IsFiniteSet(DOMAIN log) /\ IsFiniteSet(DOMAIN events)
      BY <2>1, FS_Interval
    <2> QED
      BY <1>1, <1>2, <2>2, FS_Subset
  <1>6. Cardinality(F) = Cardinality(I) /\ IsFiniteSet(F)
    <2>1. PICK f : f = [i \in I |-> log[i].message]
      OBVIOUS
    <2>2. f \in [I -> F]
      BY <1>1, <1>3, <2>1 DEF FirstMessages
    <2>3. ASSUME NEW m \in F PROVE \E i \in I : f[i] = m
      <3>1. PICK i \in DOMAIN log : New(i) /\ m = log[i].message
        BY <1>3 DEF FirstMessages
      <3>2. i \in I
        BY <1>1, <1>3, <3>1
      <3> QED
        BY <2>1, <3>1, <3>2
    <2>4. ASSUME NEW i \in I, NEW j \in I, f[i] = f[j] PROVE i = j
      <3>1. i \in 1..Len(log) /\ j \in 1..Len(log) /\ New(i) /\ New(j)
            /\ log[i].message = log[j].message /\ Len(log) \in Nat
        BY <1>1, <2>1, <2>4 DEF RecordTypes
      <3>2. i < j \/ j < i \/ i = j
        BY <3>1
      <3>3. CASE i < j
        <4>1. i \in 1..j - 1
          BY <3>1, <3>3
        <4> QED
          BY <3>1, <4>1 DEF New
      <3>4. CASE j < i
        <4>1. j \in 1..i - 1
          BY <3>1, <3>4
        <4> QED
          BY <3>1, <4>1 DEF New
      <3> QED
        BY <3>2, <3>3, <3>4
    <2>5. f \in Bijection(I, F)
      BY <2>2, <2>3, <2>4 DEF Bijection, Injection, IsInjective, Surjection
    <2> QED
      BY <1>5, <2>5, FS_Bijection DEF ExistsBijection
  <1>7. Cardinality(W) = Cardinality(J) /\ IsFiniteSet(W)
    <2>1. PICK f : f = [i \in J |-> events[i]]
      OBVIOUS
    <2>2. f \in [J -> W]
      BY <1>2, <1>4, <2>1 DEF Waiting
    <2>3. ASSUME NEW m \in W PROVE \E i \in J : f[i] = m
      <3>1. PICK i \in DOMAIN events : m = events[i]
        BY <1>4 DEF Waiting
      <3>2. i \in J
        BY <1>2, <1>4, <3>1
      <3> QED
        BY <2>1, <3>1, <3>2
    <2>4. \A i, j \in J : f[i] = f[j] => i = j
      BY <1>2, <2>1 DEF CountInv, EventsInv
    <2>5. f \in Bijection(J, W)
      BY <2>2, <2>3, <2>4 DEF Bijection, Injection, IsInjective, Surjection
    <2> QED
      BY <1>5, <2>5, FS_Bijection DEF ExistsBijection
  <1>8. W \subseteq F /\ HandledIn(t, e) = F \ W
    BY <1>3, <1>4 DEF CountInv, EventsInv, HandledIn, Handled
  <1>9. F \cap W = W
    BY <1>8
  <1>10. Cardinality(HandledIn(t, e)) = Cardinality(F) - Cardinality(W)
    <2>1. Cardinality(F \ W) = Cardinality(F) - Cardinality(F \cap W)
      BY <1>6, FS_Difference
    <2> QED
      BY <1>8, <1>9, <2>1
  <1> QED
    BY <1>1, <1>2, <1>6, <1>7, <1>10

LEMMA IInvEpochCounts == IInv /\ CountInv => EpochCounts
  <1> SUFFICES ASSUME IInv, CountInv, over, NEW t \in Topics, NEW e \in Epochs
               PROVE  LET InEpoch(m) ==
                              /\ m.topic = t
                              /\ m.slot \in e * SLOTS_PER_EPOCH .. (e + 1) * SLOTS_PER_EPOCH - 1
                          handled == Cardinality({i \in DOMAIN log : New(i) /\ InEpoch(log[i].message)})
                                     - Cardinality({i \in DOMAIN events : InEpoch(events[i])})
                          point == <<t, {<<"epoch", e>>}, e * SLOTS_PER_EPOCH>>
                          last == tasks[Len(tasks)]
                      IN  /\ point \in DOMAIN db => db[point] = handled
                          /\ failures = {} /\ last.next > Len(last.queries) =>
                                 (point \in DOMAIN db <=> handled > 0)
    BY DEF EpochCounts
  <1> DEFINE InEpoch(m) == /\ m.topic = t
                           /\ m.slot \in e * SLOTS_PER_EPOCH .. (e + 1) * SLOTS_PER_EPOCH - 1
             handled == Cardinality({i \in DOMAIN log : New(i) /\ InEpoch(log[i].message)})
                        - Cardinality({i \in DOMAIN events : InEpoch(events[i])})
             point == <<t, {<<"epoch", e>>}, e * SLOTS_PER_EPOCH>>
             last == tasks[Len(tasks)]
  <1>0. RecordTypes /\ plan = "scoring" /\ e \in Nat
    BY EpochsFinite DEF IInv, RecordTypes
  <1>1. \A m \in Message : InEpoch(m) <=> m.topic = t /\ Epoch(m.slot) = e
    BY <1>0, EpochOfSlot, MessageAssumption
  <1>2. (\A i \in DOMAIN log : log[i].message \in Message) /\ (\A i \in DOMAIN events : events[i] \in Message)
    <2>1. (\A i \in DOMAIN log : log[i] \in Entry) /\ events \in Seq(Message)
      BY <1>0 DEF RecordTypes
    <2> QED
      BY <2>1 DEF Entry
  <1> HIDE DEF InEpoch
  <1>3. {i \in DOMAIN log : New(i) /\ InEpoch(log[i].message)} =
          {i \in DOMAIN log : New(i) /\ log[i].message.topic = t /\ Epoch(log[i].message.slot) = e}
    BY <1>1, <1>2
  <1>4. {i \in DOMAIN events : InEpoch(events[i])} =
          {i \in DOMAIN events : events[i].topic = t /\ Epoch(events[i].slot) = e}
    BY <1>1, <1>2
  <1>5. handled = Counted(t, e)
    BY <1>0, <1>3, <1>4, CountedHandled, CountedOnce
  <1> HIDE DEF handled
  <1>6. point \in DOMAIN db => db[point] = Counted(t, e) /\ Counted(t, e) > 0
    <2> SUFFICES ASSUME point \in DOMAIN db PROVE db[point] = Counted(t, e) /\ Counted(t, e) > 0
      OBVIOUS
    <2>1. point[1] = t /\ t \notin Names
      BY SeriesInNames
    <2>2. PICK u \in Topics, f \in Epochs :
            /\ point = <<u, EpochTag(f), f * SLOTS_PER_EPOCH>>
            /\ point[1] = u /\ point[2] = EpochTag(f)
            /\ db[point] = Counted(u, f) /\ Counted(u, f) > 0
      BY <2>1, DbPoint, SeriesInNames
    <2>3. u = t
      BY <2>1, <2>2
    <2>4. {<<"epoch", e>>} = {<<"epoch", f>>}
      BY <2>2 DEF EpochTag
    <2>5. f = e
      <3>1. <<"epoch", e>> \in {<<"epoch", f>>}
        BY <2>4
      <3>2. <<"epoch", e>> = <<"epoch", f>>
        BY <3>1
      <3> QED
        BY <3>2
    <2> QED
      BY <2>2, <2>3, <2>5
  <1>7. ASSUME failures = {}, last.next > Len(last.queries), Counted(t, e) > 0
        PROVE  point \in DOMAIN db
    <2>1. Len(tasks) \in DOMAIN tasks
      BY DEF CountInv, LastTask
    <2>2. PICK i \in DOMAIN last.queries : last.queries[i] = EpochPoint(t, e)
      BY <1>7 DEF CountInv, LastTask
    <2>3. last \in RecordingTask
      <3> HIDE DEF RecordingTask
      <3> QED
        BY <1>0, <2>1 DEF RecordTypes
    <2>4. last.queries \in Seq(Query) /\ last.next \in Nat
      BY <2>3 DEF RecordingTask
    <2>5. i \in 1..last.next - 1
      <3> HIDE DEF Query, last
      <3> QED
        BY <1>7, <2>2, <2>4
    <2>6. last.queries[i].series \in DOMAIN db
      BY <1>7, <2>1, <2>5 DEF IInv, WrittenInv
    <2>7. EpochPoint(t, e).series = point
      BY DEF EpochPoint, Point
    <2> QED
      BY <2>2, <2>6, <2>7
  <1>8. Counted(t, e) \in Nat
    BY <1>0, CountedNat
  <1>9. /\ point \in DOMAIN db => db[point] = handled
        /\ failures = {} /\ last.next > Len(last.queries) => (point \in DOMAIN db <=> handled > 0)
    BY <1>5, <1>6, <1>7, <1>8
  <1> QED
    BY <1>9 DEF InEpoch, handled

\* The counts of the epochs in the database are exact.
THEOREM EpochsCounted == Spec => []EpochCounts
  BY CountsInvariance, IInvEpochCounts, PTL

=============================================================================
