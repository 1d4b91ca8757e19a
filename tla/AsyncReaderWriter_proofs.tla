----------------------- MODULE AsyncReaderWriter_proofs -----------------------
(***************************************************************************)
(* What the write loops guarantee for any number of chunks, in ticks of    *)
(* any size, whatever the reader does on the same worker.                  *)
(***************************************************************************)
EXTENDS AsyncReaderWriter, SequenceTheorems, FiniteSetTheorems, TLAPS

-----------------------------------------------------------------------------
(* What the queues of the loop hold.                                        *)

Kinds == 0..NumChunks
Outcomes == (1..Mtu) \union {Success, Failed, Undefined, Rejected}

CallSet == {c \in [op : {"read", "write"}, socket : {Success}, k : Kinds] :
              (c.op = "write") <=> (c.k \in Chunks)}
ResumptionSet == [k : Kinds, socket : {Success}, result : Outcomes]

LoopTypeOK ==
    /\ asyncSrt \in {"live", "disposing", "disposed"}
    /\ calls \in Seq(CallSet)
    /\ answers \in Seq(ResumptionSet)
    /\ resumed \in Seq(ResumptionSet)

\* The chunks whose writes are in a queue, and those of them that failed.
ChunksOf(q) == {c \in Chunks : \E i \in 1..Len(q) : q[i].k = c}
FailedIn(q) == {c \in Chunks : \E i \in 1..Len(q) :
                  q[i].k = c /\ q[i].result \in {Failed, Rejected}}
Waiting == ChunksOf(resumed) \union ChunksOf(answers) \union ChunksOf(calls)
Failures == lost \union FailedIn(resumed) \union FailedIn(answers)

\* Reads may be between the writes.
Rising(q) ==
    \A i, j \in 1..Len(q) : i < j /\ q[i].k \in Chunks /\ q[j].k \in Chunks => q[i].k < q[j].k

Values(s) == {s[i] : i \in 1..Len(s)}
Precede(S, T) == \A s \in S, t \in T : s < t

\* Chunk i is at position i unless one before it failed.
InPlace(s, failed) == \A i \in 1..Len(s) : s[i] # i => \E c \in failed : c < s[i]

\* Calls are made in the order of the chunks, and the socket gets them so.
OrderInv ==
    /\ Rising(calls)
    /\ Ordered(sent)
    /\ Precede(Values(sent), ChunksOf(calls))
    /\ \A c \in Waiting \union Values(sent) \union Values(written) : c <= chunkIndex
    /\ writer = "idle" => chunkIndex = 0
    /\ writeTimer => Explicit /\ writer # "idle"

\* They are answered in that order.
WrittenInv == ~Explicit \/ asyncSrt = "live" =>
    /\ Rising(resumed) /\ Rising(answers) /\ Ordered(written)
    /\ Precede(Values(written), Waiting)
    /\ Precede(ChunksOf(resumed), ChunksOf(answers))
    /\ Precede(ChunksOf(resumed), ChunksOf(calls))
    /\ Precede(ChunksOf(answers), ChunksOf(calls))
    /\ \A c \in 1..chunkIndex : c \in Values(written) \union lost \union Waiting
    /\ InPlace(written, lost)

\* None is left out but those that failed.
SentInv == asyncSrt = "live" =>
    /\ \A c \in 1..chunkIndex : c \in Values(sent) \union ChunksOf(calls) \union Failures
    /\ InPlace(sent, Failures)

\* The yielding loop waits for all writes of a tick, or gives up.
YieldInv == ~Explicit =>
    /\ \A c \in Waiting : chunkIndex < c + WritesPerTick
    /\ writer = "writing" => Waiting \subseteq awaited
    /\ writer = "resolved" => Waiting = {} /\ chunkIndex = NumChunks
    /\ writer # "rejected" => lost = {}

WriteInv == TypeOK /\ LoopTypeOK /\ OrderInv /\ WrittenInv /\ SentInv /\ YieldInv

-----------------------------------------------------------------------------
(* Lemmas about the queues.                                                 *)

\* Appending to a queue.
LEMMA AppendQueue ==
  ASSUME NEW S, NEW q \in Seq(S), NEW x \in S
  PROVE  /\ Append(q, x) \in Seq(S)
         /\ \A c : c \in ChunksOf(Append(q, x)) <=> c \in ChunksOf(q) \/ (c = x.k /\ c \in Chunks)
         /\ \A c : c \in FailedIn(Append(q, x)) <=>
              c \in FailedIn(q) \/ (c = x.k /\ c \in Chunks /\ x.result \in {Failed, Rejected})
         /\ Rising(q) /\ (x.k \in Chunks => Precede(ChunksOf(q), {x.k})) => Rising(Append(q, x))
<1> DEFINE a == Append(q, x)
<1>1. /\ Len(q) \in Nat /\ Len(a) = Len(q) + 1 /\ a[Len(q) + 1] = x
      /\ \A i \in 1..Len(q) : a[i] = q[i]
      /\ a \in Seq(S)
  BY AppendProperties, LenProperties
<1>2. \A i \in 1..Len(a) : i \in 1..Len(q) \/ i = Len(q) + 1
  BY <1>1
<1>3. \A i \in 1..Len(q) : i \in 1..Len(a)
  BY <1>1
<1> HIDE DEF a
<1>4. ASSUME NEW c
      PROVE  c \in ChunksOf(a) <=> c \in ChunksOf(q) \/ (c = x.k /\ c \in Chunks)
  <2>1. c \in ChunksOf(a) => c \in ChunksOf(q) \/ (c = x.k /\ c \in Chunks)
    BY <1>1, <1>2 DEF ChunksOf
  <2>2. c \in ChunksOf(q) => c \in ChunksOf(a)
    BY <1>1, <1>3 DEF ChunksOf
  <2>3. c = x.k /\ c \in Chunks => c \in ChunksOf(a)
    BY <1>1 DEF ChunksOf
  <2> QED  BY <2>1, <2>2, <2>3
<1>5. ASSUME NEW c
      PROVE  c \in FailedIn(a) <=>
               c \in FailedIn(q) \/ (c = x.k /\ c \in Chunks /\ x.result \in {Failed, Rejected})
  <2>1. c \in FailedIn(a) =>
          c \in FailedIn(q) \/ (c = x.k /\ c \in Chunks /\ x.result \in {Failed, Rejected})
    BY <1>1, <1>2 DEF FailedIn
  <2>2. c \in FailedIn(q) => c \in FailedIn(a)
    BY <1>1, <1>3 DEF FailedIn
  <2>3. c = x.k /\ c \in Chunks /\ x.result \in {Failed, Rejected} => c \in FailedIn(a)
    BY <1>1 DEF FailedIn
  <2> QED  BY <2>1, <2>2, <2>3
<1>6. Rising(q) /\ (x.k \in Chunks => Precede(ChunksOf(q), {x.k})) => Rising(a)
  BY <1>1, <1>2 DEF Rising, Precede, ChunksOf
<1> QED  BY <1>1, <1>4, <1>5, <1>6 DEF a

\* Taking from a queue.
LEMMA TakeQueue ==
  ASSUME NEW S, NEW q \in Seq(S), q # <<>>
  PROVE  /\ Head(q) \in S /\ Tail(q) \in Seq(S)
         /\ \A c : c \in ChunksOf(q) <=> c \in ChunksOf(Tail(q)) \/ (c = Head(q).k /\ c \in Chunks)
         /\ \A c : c \in FailedIn(q) <=>
              \/ c \in FailedIn(Tail(q))
              \/ c = Head(q).k /\ c \in Chunks /\ Head(q).result \in {Failed, Rejected}
         /\ Rising(q) => /\ Rising(Tail(q))
                         /\ Head(q).k \in Chunks => Precede({Head(q).k}, ChunksOf(Tail(q)))
<1> DEFINE t == Tail(q)
<1>1. /\ Len(q) \in Nat \ {0} /\ Len(t) = Len(q) - 1 /\ Head(q) = q[1]
      /\ \A i \in 1..Len(t) : t[i] = q[i + 1]
      /\ Head(q) \in S /\ t \in Seq(S)
  BY HeadTailProperties, LenProperties, EmptySeq
<1> HIDE DEF t
<1>2. \A i \in 1..Len(q) : i = 1 \/ (i - 1 \in 1..Len(t) /\ q[i] = t[i - 1])
  BY <1>1
<1>3. \A i \in 1..Len(t) : i + 1 \in 1..Len(q) /\ i + 1 > 1 /\ 1 \in 1..Len(q)
  BY <1>1
<1>4. ASSUME NEW c
      PROVE  c \in ChunksOf(q) <=> c \in ChunksOf(t) \/ (c = q[1].k /\ c \in Chunks)
  <2>1. c \in ChunksOf(q) => c \in ChunksOf(t) \/ (c = q[1].k /\ c \in Chunks)
    BY <1>2 DEF ChunksOf
  <2>2. c \in ChunksOf(t) => c \in ChunksOf(q)
    BY <1>1, <1>3 DEF ChunksOf
  <2>3. c = q[1].k /\ c \in Chunks => c \in ChunksOf(q)
    BY <1>1 DEF ChunksOf
  <2> QED  BY <2>1, <2>2, <2>3
<1>5. ASSUME NEW c
      PROVE  c \in FailedIn(q) <=>
               \/ c \in FailedIn(t)
               \/ c = q[1].k /\ c \in Chunks /\ q[1].result \in {Failed, Rejected}
  <2>1. c \in FailedIn(q) =>
          c \in FailedIn(t) \/ (c = q[1].k /\ c \in Chunks /\ q[1].result \in {Failed, Rejected})
    BY <1>2 DEF FailedIn
  <2>2. c \in FailedIn(t) => c \in FailedIn(q)
    BY <1>1, <1>3 DEF FailedIn
  <2>3. c = q[1].k /\ c \in Chunks /\ q[1].result \in {Failed, Rejected} => c \in FailedIn(q)
    BY <1>1 DEF FailedIn
  <2> QED  BY <2>1, <2>2, <2>3
<1>6. ASSUME Rising(q)  PROVE Rising(t)
  <2> SUFFICES ASSUME NEW i \in 1..Len(t), NEW j \in 1..Len(t), i < j,
                      t[i].k \in Chunks, t[j].k \in Chunks
               PROVE  t[i].k < t[j].k
    BY DEF Rising
  <2>1. /\ i + 1 \in 1..Len(q) /\ j + 1 \in 1..Len(q) /\ i + 1 < j + 1
        /\ t[i] = q[i + 1] /\ t[j] = q[j + 1]
    BY <1>1, <1>3
  <2> QED  BY <1>6, <2>1 DEF Rising
<1>7. Rising(q) /\ q[1].k \in Chunks => Precede({q[1].k}, ChunksOf(t))
  BY <1>1, <1>3 DEF Rising, Precede, ChunksOf
<1> QED  BY <1>1, <1>4, <1>5, <1>6, <1>7 DEF t

\* Adding the chunks of a tick, n + 1 and on.
LEMMA TickQueue ==
  ASSUME NEW S, NEW q \in Seq(S), NEW f \in Seq(S), NEW n \in Nat, n + Len(f) <= NumChunks,
         \A i \in 1..Len(f) : f[i].k = n + i
  PROVE  /\ q \o f \in Seq(S)
         /\ \A c : c \in ChunksOf(q \o f) <=> c \in ChunksOf(q) \/ c \in (n + 1)..(n + Len(f))
         /\ Rising(q) /\ (\A c \in ChunksOf(q) : c <= n) => Rising(q \o f)
<1> DEFINE a == q \o f
<1>1. /\ Len(q) \in Nat /\ Len(f) \in Nat /\ Len(a) = Len(q) + Len(f) /\ a \in Seq(S)
      /\ \A i \in 1..Len(a) : i <= Len(q) => a[i] = q[i]
      /\ \A i \in 1..Len(a) : i > Len(q) => a[i] = f[i - Len(q)]
  BY ConcatProperties, LenProperties
<1> HIDE DEF a
<1>2. NumChunks \in Nat
  BY TransferAssumption
<1>3. /\ \A i \in 1..Len(q) : i \in 1..Len(a) /\ a[i] = q[i]
      /\ \A i \in 1..Len(f) : /\ Len(q) + i \in 1..Len(a) /\ a[Len(q) + i] = f[i]
                              /\ f[i].k = n + i /\ n + i \in Chunks
      /\ \A i \in 1..Len(a) :
           i \in 1..Len(q) \/ (i - Len(q) \in 1..Len(f) /\ a[i] = f[i - Len(q)])
  <2>1. \A i \in 1..Len(q) : i \in 1..Len(a) /\ a[i] = q[i]
    BY <1>1
  <2>2. ASSUME NEW i \in 1..Len(f)
        PROVE  Len(q) + i \in 1..Len(a) /\ a[Len(q) + i] = f[i]
    <3>1. Len(q) + i \in 1..Len(a) /\ Len(q) + i > Len(q) /\ (Len(q) + i) - Len(q) = i
      BY <1>1
    <3>2. a[Len(q) + i] = f[(Len(q) + i) - Len(q)]
      BY <1>1, <3>1
    <3> QED  BY <3>1, <3>2
  <2>3. \A i \in 1..Len(f) : f[i].k = n + i /\ n + i \in Chunks
    BY <1>1, <1>2 DEF Chunks
  <2>4. \A i \in 1..Len(a) :
           i \in 1..Len(q) \/ (i - Len(q) \in 1..Len(f) /\ a[i] = f[i - Len(q)])
    BY <1>1
  <2> QED  BY <2>1, <2>2, <2>3, <2>4
<1>4. ASSUME NEW c
      PROVE  c \in ChunksOf(a) <=> c \in ChunksOf(q) \/ c \in (n + 1)..(n + Len(f))
  <2>1. ASSUME c \in ChunksOf(a)
        PROVE  c \in ChunksOf(q) \/ c \in (n + 1)..(n + Len(f))
    <3>1. PICK i \in 1..Len(a) : a[i].k = c /\ c \in Chunks
      BY <2>1 DEF ChunksOf
    <3>2. CASE i \in 1..Len(q)
      BY <1>3, <3>1, <3>2 DEF ChunksOf
    <3>3. CASE i - Len(q) \in 1..Len(f) /\ a[i] = f[i - Len(q)]
      <4>1. c = n + (i - Len(q))
        BY <3>1, <3>3
      <4> QED  BY <1>1, <3>3, <4>1
    <3> QED  BY <1>3, <3>2, <3>3
  <2>2. c \in ChunksOf(q) => c \in ChunksOf(a)
    BY <1>3 DEF ChunksOf
  <2>3. ASSUME c \in (n + 1)..(n + Len(f))  PROVE c \in ChunksOf(a)
    <3>1. c - n \in 1..Len(f) /\ n + (c - n) = c
      BY <1>1, <2>3
    <3>2. f[c - n].k = c /\ c \in Chunks
      BY <1>3, <3>1
    <3> QED  BY <1>3, <3>1, <3>2 DEF ChunksOf
  <2> QED  BY <2>1, <2>2, <2>3
<1>5. ASSUME Rising(q), \A c \in ChunksOf(q) : c <= n  PROVE Rising(a)
  <2> SUFFICES ASSUME NEW i \in 1..Len(a), NEW j \in 1..Len(a), i < j,
                      a[i].k \in Chunks, a[j].k \in Chunks
               PROVE  a[i].k < a[j].k
    BY DEF Rising
  <2>1. CASE i \in 1..Len(q) /\ j \in 1..Len(q)
    BY <1>3, <1>5, <2>1 DEF Rising
  <2>2. CASE i \in 1..Len(q) /\ j - Len(q) \in 1..Len(f) /\ a[j] = f[j - Len(q)]
    <3>1. a[i].k \in ChunksOf(q)
      BY <1>3, <2>2 DEF ChunksOf
    <3>2. a[i].k <= n /\ a[j].k = n + (j - Len(q)) /\ a[i].k \in Nat
      BY <1>5, <2>2, <3>1 DEF Chunks
    <3> QED  BY <1>1, <2>2, <3>2
  <2>3. CASE /\ i - Len(q) \in 1..Len(f) /\ a[i] = f[i - Len(q)]
             /\ j - Len(q) \in 1..Len(f) /\ a[j] = f[j - Len(q)]
    <3>1. a[i].k = n + (i - Len(q)) /\ a[j].k = n + (j - Len(q))
      BY <2>3
    <3> QED  BY <1>1, <3>1
  <2>4. ~(i - Len(q) \in 1..Len(f) /\ j \in 1..Len(q))
    BY <1>1
  <2> QED  BY <1>3, <2>1, <2>2, <2>3, <2>4
<1> QED  BY <1>1, <1>4, <1>5 DEF a

\* The empty queue.
LEMMA EmptyQueue ==
  /\ ChunksOf(<<>>) = {} /\ FailedIn(<<>>) = {} /\ Rising(<<>>)
  /\ Values(<<>>) = {} /\ Ordered(<<>>) /\ \A S : <<>> \in Seq(S)
BY EmptySeq DEF ChunksOf, FailedIn, Rising, Values, Ordered

\* The values of a sequence of chunks are chunks.
LEMMA ValuesAreChunks ==
  ASSUME NEW s \in Seq(Chunks)
  PROVE  \A c \in Values(s) : c \in Chunks
<1>1. \A i \in 1..Len(s) : s[i] \in Chunks
  BY ElementOfSeq
<1> QED  BY <1>1 DEF Values

\* Appending a chunk, and one that follows those before it.
LEMMA AppendChunk ==
  ASSUME NEW s \in Seq(Chunks), NEW n \in Chunks
  PROVE  /\ Append(s, n) \in Seq(Chunks)
         /\ \A c : c \in Values(Append(s, n)) <=> c \in Values(s) \/ c = n
         /\ Precede(Values(s), {n}) /\ Ordered(s) => Ordered(Append(s, n))
<1> DEFINE a == Append(s, n)
<1>1. /\ Len(s) \in Nat /\ Len(a) = Len(s) + 1 /\ a[Len(s) + 1] = n
      /\ \A i \in 1..Len(s) : a[i] = s[i]
      /\ a \in Seq(Chunks)
  BY AppendProperties, LenProperties
<1> HIDE DEF a
<1>2. \A i \in 1..Len(a) : i \in 1..Len(s) \/ i = Len(s) + 1
  BY <1>1
<1>3. Precede(Values(s), {n}) /\ Ordered(s) => Ordered(a)
  BY <1>1, <1>2 DEF Ordered, Precede, Values
<1>4. ASSUME NEW c  PROVE c \in Values(a) <=> c \in Values(s) \/ c = n
  <2>1. c \in Values(a) => c \in Values(s) \/ c = n
    BY <1>1, <1>2 DEF Values
  <2>2. c \in Values(s) => c \in Values(a)
    BY <1>1 DEF Values
  <2>3. n \in Values(a)
    BY <1>1 DEF Values
  <2> QED  BY <2>1, <2>2, <2>3
<1> QED  BY <1>1, <1>3, <1>4 DEF a

\* It is in its place if all before it are there or have failed.
LEMMA NextInPlace ==
  ASSUME NEW s \in Seq(Chunks), NEW n \in Chunks, NEW failed \in SUBSET Chunks,
         Precede(Values(s), {n}),
         InPlace(s, failed),
         \A c \in 1..(n - 1) : c \in Values(s) \union failed
  PROVE  InPlace(Append(s, n), failed)
<1> DEFINE a == Append(s, n)
<1>1. /\ Len(s) \in Nat /\ Len(a) = Len(s) + 1 /\ a[Len(s) + 1] = n
      /\ \A i \in 1..Len(s) : a[i] = s[i] /\ s[i] \in Nat
      /\ n \in Nat
  BY AppendProperties, LenProperties, ElementOfSeq, TransferAssumption DEF Chunks
<1> HIDE DEF a
<1>2. ASSUME \A c \in failed : ~(c < n)  PROVE n = Len(s) + 1
  <2>1. \A i \in 1..Len(s) : s[i] < n
    BY DEF Precede, Values
  <2>2. ASSUME NEW i \in 1..Len(s)  PROVE s[i] = i
    <3>1. SUFFICES ASSUME s[i] # i  PROVE FALSE
      OBVIOUS
    <3>2. PICK c \in failed : c < s[i]
      BY <3>1 DEF InPlace
    <3>3. c \in Nat /\ c < n
      BY <1>1, <2>1, <3>2 DEF Chunks
    <3> QED  BY <1>2, <2>1, <3>2, <3>3
  <2>3. Len(s) < n
    <3>1. CASE Len(s) = 0
      BY <1>1, <3>1 DEF Chunks
    <3>2. CASE Len(s) # 0
      <4>1. Len(s) \in 1..Len(s)
        BY <1>1, <3>2
      <4> QED  BY <2>1, <2>2, <4>1
    <3> QED  BY <3>1, <3>2
  <2>4. ASSUME Len(s) + 1 < n  PROVE FALSE
    <3>1. Len(s) + 1 \in 1..(n - 1) /\ Len(s) + 1 < n
      BY <1>1, <2>4
    <3>2. Len(s) + 1 \in Values(s)
      BY <1>2, <3>1
    <3>3. PICK j \in 1..Len(s) : s[j] = Len(s) + 1
      BY <3>2 DEF Values
    <3> QED  BY <1>1, <2>2, <3>3
  <2> QED  BY <1>1, <2>3, <2>4
<1>3. ASSUME NEW i \in 1..Len(a), a[i] # i  PROVE \E c \in failed : c < a[i]
  <2>1. CASE i \in 1..Len(s)
    BY <1>1, <1>3, <2>1 DEF InPlace
  <2>2. CASE i = Len(s) + 1
    BY <1>1, <1>2, <1>3, <2>2
  <2> QED  BY <1>1, <2>1, <2>2
<1>4. InPlace(a, failed)
  BY <1>3 DEF InPlace
<1> QED  BY <1>4 DEF a

-----------------------------------------------------------------------------
(* What the loops do to the queues.                                         *)

Grown(q, r) ==
    /\ \A c : c \in ChunksOf(r) <=> c \in ChunksOf(q) \/ c \in (chunkIndex + 1)..chunkIndex'
    /\ Rising(q) /\ (\A c \in ChunksOf(q) : c <= chunkIndex) => Rising(r)

\* A tick makes the calls of the next chunks, of which there are writesPerTick at most.
LEMMA TickPosts ==
  ASSUME LoopTypeOK, chunkIndex \in 0..NumChunks, NEW rest \in Seq(ResumptionSet), Tick(rest)
  PROVE  /\ chunkIndex' \in 0..NumChunks /\ chunkIndex <= chunkIndex'
         /\ chunkIndex' <= chunkIndex + WritesPerTick
         /\ NextChunks = (chunkIndex + 1)..chunkIndex' /\ NextChunks \subseteq Chunks
         /\ IF asyncSrt = "live"
              THEN resumed' = rest /\ calls' \in Seq(CallSet) /\ Grown(calls, calls')
              ELSE calls' = calls /\ resumed' \in Seq(ResumptionSet) /\ Grown(rest, resumed')
<1> DEFINE last == IF chunkIndex + WritesPerTick <= NumChunks
                     THEN chunkIndex + WritesPerTick ELSE NumChunks
           n == TickSize
           f == [i \in 1..n |-> Call("write", Success, chunkIndex + i)]
<1>1. chunkIndex \in Nat /\ WritesPerTick \in Nat /\ NumChunks \in Nat /\ chunkIndex <= NumChunks
  BY TransferAssumption
<1>2. last \in Nat /\ chunkIndex <= last /\ last <= NumChunks /\ last <= chunkIndex + WritesPerTick
  BY <1>1
<1>3. NextChunks = (chunkIndex + 1)..last
  BY <1>1 DEF NextChunks, Chunks
<1>4. n = last - chunkIndex
  <2>1. Cardinality((chunkIndex + 1)..last) = last - chunkIndex
    <3>1. chunkIndex + 1 \in Int /\ last \in Int
      BY <1>1, <1>2
    <3> HIDE DEF last
    <3>2. Cardinality((chunkIndex + 1)..last) =
            IF chunkIndex + 1 > last THEN 0 ELSE last - (chunkIndex + 1) + 1
      BY <3>1, FS_Interval
    <3> QED  BY <1>1, <1>2, <3>2
  <2> QED  BY <1>3, <2>1 DEF TickSize
<1>5. chunkIndex' = chunkIndex + n /\ Posts(f, rest)
  BY DEF Tick
<1> HIDE DEF last, n
<1>6. chunkIndex' = last /\ n \in Nat /\ chunkIndex + n = last
  BY <1>1, <1>2, <1>4, <1>5
<1>7. \A i \in 1..n : /\ chunkIndex + i \in Chunks
                      /\ Call("write", Success, chunkIndex + i) \in CallSet
                      /\ Call("write", Success, chunkIndex + i).k = chunkIndex + i
  <2>1. \A i \in 1..n : chunkIndex + i \in Chunks /\ chunkIndex + i \in Kinds
    BY <1>1, <1>2, <1>6 DEF Chunks, Kinds
  <2> QED  BY <2>1 DEF Call, CallSet
<1>8. f \in [1..n -> CallSet] /\ \A i \in 1..n : f[i] = Call("write", Success, chunkIndex + i)
  BY <1>7
<1> HIDE DEF f
<1>9. f \in Seq(CallSet) /\ Len(f) = n
  BY <1>6, <1>8, SeqDef, LenProperties
<1>10. \A i \in 1..Len(f) : f[i].k = chunkIndex + i
  BY <1>7, <1>8, <1>9
<1>11. CASE asyncSrt = "live"
  <2>1. calls' = calls \o f /\ resumed' = rest /\ calls \in Seq(CallSet)
    BY <1>5, <1>11 DEF Posts, LoopTypeOK
  <2>2. /\ calls' \in Seq(CallSet)
        /\ \A c : c \in ChunksOf(calls') <=> c \in ChunksOf(calls) \/ c \in (chunkIndex + 1)..last
        /\ Rising(calls) /\ (\A c \in ChunksOf(calls) : c <= chunkIndex) => Rising(calls')
    <3>1. chunkIndex + Len(f) = last /\ chunkIndex + Len(f) <= NumChunks
      BY <1>2, <1>6, <1>9
    <3> QED  BY <1>1, <1>9, <1>10, <2>1, <3>1, TickQueue
  <2>3. Grown(calls, calls')
    BY <1>6, <2>2 DEF Grown
  <2> QED  BY <1>1, <1>2, <1>3, <1>6, <1>11, <2>1, <2>2, <2>3 DEF NextChunks
<1>12. CASE asyncSrt # "live"
  <2> DEFINE r == IF asyncSrt = "disposing" THEN Undefined ELSE Rejected
             g == [i \in 1..Len(f) |-> Resumption(f[i].k, f[i].socket, r)]
  <2>1. calls' = calls /\ resumed' = rest \o g
    BY <1>5, <1>12 DEF Posts
  <2>2. r \in Outcomes
    BY DEF Outcomes
  <2> HIDE DEF r
  <2>3. ASSUME NEW i \in 1..n
        PROVE  /\ Resumption(f[i].k, f[i].socket, r) \in ResumptionSet
               /\ Resumption(f[i].k, f[i].socket, r).k = chunkIndex + i
    <3>1. f[i] \in CallSet /\ f[i].k = chunkIndex + i
      BY <1>7, <1>8
    <3> QED  BY <2>2, <3>1 DEF Resumption, ResumptionSet, CallSet
  <2>4. g \in [1..n -> ResumptionSet] /\ \A i \in 1..n : g[i].k = chunkIndex + i
    BY <1>9, <2>3
  <2> HIDE DEF g
  <2>5. g \in Seq(ResumptionSet) /\ Len(g) = n
    BY <1>6, <2>4, SeqDef, LenProperties
  <2>6. /\ resumed' \in Seq(ResumptionSet)
        /\ \A c : c \in ChunksOf(resumed') <=> c \in ChunksOf(rest) \/ c \in (chunkIndex + 1)..last
        /\ Rising(rest) /\ (\A c \in ChunksOf(rest) : c <= chunkIndex) => Rising(resumed')
    <3>1. chunkIndex + Len(g) = last /\ chunkIndex + Len(g) <= NumChunks
      BY <1>2, <1>6, <2>5
    <3>2. \A i \in 1..Len(g) : g[i].k = chunkIndex + i
      BY <2>4, <2>5
    <3> QED  BY <1>1, <2>1, <2>5, <3>1, <3>2, TickQueue
  <2>7. Grown(rest, resumed')
    BY <1>6, <2>6 DEF Grown
  <2> QED  BY <1>1, <1>2, <1>3, <1>6, <1>12, <2>1, <2>6, <2>7 DEF NextChunks
<1> QED  BY <1>11, <1>12

\* The read loop makes a call that is about no chunk.
LEMMA ReadPosts ==
  ASSUME LoopTypeOK, NEW rest \in Seq(ResumptionSet),
         Posts(<<NextRead>>, rest) \/ PostsNothing(rest)
  PROVE  /\ calls' \in Seq(CallSet) /\ resumed' \in Seq(ResumptionSet)
         /\ \A c : c \in ChunksOf(calls') <=> c \in ChunksOf(calls)
         /\ \A c : c \in ChunksOf(resumed') <=> c \in ChunksOf(rest)
         /\ \A c : c \in FailedIn(rest) => c \in FailedIn(resumed')
         /\ Rising(calls) => Rising(calls')
         /\ Rising(rest) => Rising(resumed')
<1>1. calls \in Seq(CallSet) /\ NextRead \in CallSet /\ NextRead.k = 0 /\ 0 \notin Chunks
  BY TransferAssumption DEF LoopTypeOK, NextRead, Call, CallSet, Kinds, ReadLoop, Chunks
<1>2. CASE PostsNothing(rest)
  BY <1>1, <1>2 DEF PostsNothing
<1>3. CASE Posts(<<NextRead>>, rest) /\ asyncSrt = "live"
  <2>1. calls' = Append(calls, NextRead) /\ resumed' = rest
    BY <1>1, <1>3, AppendIsConcat DEF Posts
  <2>2. /\ calls' \in Seq(CallSet)
        /\ \A c : c \in ChunksOf(calls') <=>
             c \in ChunksOf(calls) \/ (c = NextRead.k /\ c \in Chunks)
    BY <1>1, <2>1, AppendQueue
  <2>3. Rising(calls) => Rising(calls')
    BY <1>1, <2>1, AppendQueue
  <2> QED  BY <1>1, <2>1, <2>2, <2>3
<1>4. CASE Posts(<<NextRead>>, rest) /\ asyncSrt # "live"
  <2> DEFINE u == IF asyncSrt = "disposing" THEN Undefined ELSE Rejected
             r == Resumption(NextRead.k, NextRead.socket, u)
             g == [i \in 1..Len(<<NextRead>>) |->
                     Resumption(<<NextRead>>[i].k, <<NextRead>>[i].socket, u)]
  <2>1. g = <<r>>
    OBVIOUS
  <2>2. calls' = calls /\ resumed' = rest \o g
    BY <1>4 DEF Posts
  <2>3. r \in ResumptionSet /\ r.k = 0
    BY <1>1 DEF Resumption, ResumptionSet, CallSet, Outcomes
  <2> HIDE DEF r, g
  <2>4. resumed' = Append(rest, r)
    BY <2>1, <2>2, <2>3, AppendIsConcat
  <2>5. /\ resumed' \in Seq(ResumptionSet)
        /\ \A c : c \in ChunksOf(resumed') <=> c \in ChunksOf(rest) \/ (c = r.k /\ c \in Chunks)
        /\ \A c : c \in FailedIn(rest) => c \in FailedIn(resumed')
    BY <2>3, <2>4, AppendQueue
  <2>6. Rising(rest) => Rising(resumed')
    BY <1>1, <2>3, <2>4, AppendQueue
  <2> QED  BY <1>1, <2>2, <2>3, <2>5, <2>6
<1> QED  BY <1>2, <1>3, <1>4

-----------------------------------------------------------------------------
(* The worker performs a call.                                              *)

\* The call leaves its queue and its answer joins the other; a write is sent or has failed.
LEMMA WorkEffect ==
  ASSUME TypeOK, LoopTypeOK, WorkerPerforms, NEW h, h = Head(calls).k
  PROVE  /\ LoopTypeOK' /\ TypeOK'
         /\ \/ h \notin Chunks /\ sent' = sent
            \/ h \in Chunks /\ sent' = Append(sent, h)
            \/ h \in Chunks /\ sent' = sent /\ h \in FailedIn(answers')
         /\ \A c : c \in ChunksOf(calls) <=> c \in ChunksOf(calls') \/ (c = h /\ c \in Chunks)
         /\ \A c : c \in ChunksOf(answers') <=> c \in ChunksOf(answers) \/ (c = h /\ c \in Chunks)
         /\ \A c : c \in FailedIn(answers) => c \in FailedIn(answers')
         /\ Rising(calls) => /\ Rising(calls')
                             /\ h \in Chunks => Precede({h}, ChunksOf(calls'))
         /\ Rising(answers) /\ (h \in Chunks => Precede(ChunksOf(answers), {h}))
              => Rising(answers')
<1>1. PICK result \in (1..Mtu) \union {Success, Failed} :
        /\ IF Head(calls).op = "read" THEN Read(result) ELSE Write(Head(calls).k, result)
        /\ Performed(result)
  BY DEF WorkerPerforms
<1> DEFINE x == Resumption(Head(calls).k, Head(calls).socket, result)
<1>2. calls # <<>> /\ calls \in Seq(CallSet) /\ answers \in Seq(ResumptionSet)
  BY DEF WorkerPerforms, LoopTypeOK
<1>3. /\ calls' = Tail(calls) /\ answers' = Append(answers, x)
      /\ asyncSrt' = asyncSrt /\ resumed' = resumed
  BY <1>1 DEF Performed
<1>4. /\ Head(calls) \in CallSet /\ calls' \in Seq(CallSet)
      /\ \A c : c \in ChunksOf(calls) <=> c \in ChunksOf(calls') \/ (c = h /\ c \in Chunks)
      /\ Rising(calls) => /\ Rising(calls')
                          /\ h \in Chunks => Precede({h}, ChunksOf(calls'))
  BY <1>2, <1>3, TakeQueue
<1>5. x \in ResumptionSet /\ x.k = h /\ x.result = result
  BY <1>4 DEF Resumption, ResumptionSet, CallSet, Outcomes
<1> HIDE DEF x
<1>6. /\ answers' \in Seq(ResumptionSet)
      /\ \A c : c \in ChunksOf(answers') <=> c \in ChunksOf(answers) \/ (c = h /\ c \in Chunks)
      /\ \A c : c \in FailedIn(answers') <=>
              c \in FailedIn(answers) \/ (c = h /\ c \in Chunks /\ result \in {Failed, Rejected})
  BY <1>2, <1>3, <1>5, AppendQueue
<1>7. Rising(answers) /\ (h \in Chunks => Precede(ChunksOf(answers), {h})) => Rising(answers')
  BY <1>2, <1>3, <1>5, AppendQueue
<1>8. LoopTypeOK'
  BY <1>3, <1>4, <1>6 DEF LoopTypeOK
<1>9. UNCHANGED <<modeVars, writeVars, readVars>>
  BY DEF WorkerPerforms
<1>10. CASE Head(calls).op = "read"
  <2>1. h \notin Chunks
    BY <1>4, <1>10 DEF CallSet
  <2>2. Read(result)
    BY <1>1, <1>10
  <2>3. link' = link /\ arrived' = arrived /\ sent' = sent /\ inbound' \in Seq(1..Mtu)
    BY <2>2, HeadTailProperties DEF Read, netVars, TypeOK
  <2>4. TypeOK'
    BY <1>9, <2>3 DEF TypeOK, modeVars, writeVars, readVars
  <2> QED  BY <1>4, <1>6, <1>7, <1>8, <2>1, <2>3, <2>4
<1>11. CASE Head(calls).op # "read"
  <2>1. h \in Chunks
    BY <1>4, <1>11 DEF CallSet
  <2>2. Write(h, result)
    BY <1>1, <1>11
  <2>3. CASE result = Success /\ sent' = Append(sent, h) /\ UNCHANGED <<link, inbound, arrived>>
    <3>1. sent' \in Seq(Chunks)
      BY <2>1, <2>3, AppendProperties DEF TypeOK
    <3>2. TypeOK'
      BY <1>9, <2>3, <3>1 DEF TypeOK, modeVars, writeVars, readVars
    <3> QED  BY <1>4, <1>6, <1>7, <1>8, <2>1, <2>3, <3>2
  <2>4. CASE result = Failed /\ UNCHANGED netVars
    <3>1. TypeOK' /\ sent' = sent
      BY <1>9, <2>4 DEF TypeOK, modeVars, writeVars, readVars, netVars
    <3>2. h \in FailedIn(answers')
      BY <1>6, <2>1, <2>4
    <3> QED  BY <1>4, <1>6, <1>7, <1>8, <2>1, <3>1, <3>2
  <2> QED  BY <2>2, <2>3, <2>4 DEF Write
<1> QED  BY <1>10, <1>11

\* More failures leave what is in place in its place.
LEMMA InPlaceWeaken ==
  ASSUME NEW s, NEW F, NEW G, F \subseteq G, InPlace(s, F)
  PROVE  InPlace(s, G)
BY DEF InPlace

LEMMA WorkKeeps ==
  ASSUME WriteInv, WorkerPerforms
  PROVE  WriteInv'
<1> DEFINE h == Head(calls).k
<1>1. TypeOK /\ LoopTypeOK /\ OrderInv /\ WrittenInv /\ SentInv /\ YieldInv
  BY DEF WriteInv
<1>2. /\ LoopTypeOK' /\ TypeOK'
      /\ \/ h \notin Chunks /\ sent' = sent
         \/ h \in Chunks /\ sent' = Append(sent, h)
         \/ h \in Chunks /\ sent' = sent /\ h \in FailedIn(answers')
      /\ \A c : c \in ChunksOf(calls) <=> c \in ChunksOf(calls') \/ (c = h /\ c \in Chunks)
      /\ \A c : c \in ChunksOf(answers') <=> c \in ChunksOf(answers) \/ (c = h /\ c \in Chunks)
      /\ \A c : c \in FailedIn(answers) => c \in FailedIn(answers')
  BY <1>1, WorkEffect
<1>3. Rising(calls) => /\ Rising(calls')
                       /\ h \in Chunks => Precede({h}, ChunksOf(calls'))
  BY <1>1, WorkEffect
<1>4. Rising(answers) /\ (h \in Chunks => Precede(ChunksOf(answers), {h})) => Rising(answers')
  BY <1>1, WorkEffect
<1>5. UNCHANGED <<modeVars, asyncSrt, resumed, writeVars>>
  BY DEF WorkerPerforms, Performed
<1> HIDE DEF h
<1>6. \A c : c \in Waiting' <=> c \in Waiting
  BY <1>2, <1>5 DEF Waiting
<1>7. h \in Chunks => /\ h \in ChunksOf(calls) /\ h \in Waiting /\ h <= chunkIndex
                      /\ Precede(Values(sent), {h})
                      /\ Precede({h}, ChunksOf(calls'))
  BY <1>1, <1>2, <1>3 DEF OrderInv, Waiting, Precede
<1>8. \/ sent' = sent
      \/ /\ h \in Chunks /\ sent' = Append(sent, h) /\ sent' \in Seq(Chunks) /\ Ordered(sent')
         /\ \A c : c \in Values(sent') <=> c \in Values(sent) \/ c = h
  <2>1. CASE h \in Chunks /\ sent' = Append(sent, h)
    <3>1. sent \in Seq(Chunks) /\ Ordered(sent)
      BY <1>1 DEF TypeOK, OrderInv
    <3> QED  BY <1>7, <2>1, <3>1, AppendChunk
  <2> QED  BY <1>2, <2>1
<1>9. OrderInv'
  <2>1. Rising(calls') /\ Ordered(sent')
    BY <1>1, <1>3, <1>8 DEF OrderInv
  <2>2. Precede(Values(sent'), ChunksOf(calls'))
    BY <1>1, <1>2, <1>7, <1>8 DEF OrderInv, Precede
  <2>3. \A c \in Waiting' \union Values(sent') \union Values(written') : c <= chunkIndex'
    BY <1>1, <1>5, <1>6, <1>7, <1>8 DEF OrderInv, writeVars
  <2> QED  BY <1>1, <1>5, <2>1, <2>2, <2>3 DEF OrderInv, writeVars, modeVars, Explicit
<1>10. WrittenInv'
  <2>1. SUFFICES ASSUME ~Explicit \/ asyncSrt = "live"
                 PROVE  WrittenInv'
    BY <1>5 DEF WrittenInv, Explicit, modeVars
  <2>2. /\ Rising(resumed) /\ Rising(answers) /\ Ordered(written)
        /\ Precede(Values(written), Waiting)
        /\ Precede(ChunksOf(resumed), ChunksOf(answers))
        /\ Precede(ChunksOf(resumed), ChunksOf(calls))
        /\ Precede(ChunksOf(answers), ChunksOf(calls))
        /\ \A c \in 1..chunkIndex : c \in Values(written) \union lost \union Waiting
        /\ InPlace(written, lost)
    BY <1>1, <2>1 DEF WrittenInv
  <2>3. Rising(answers')
    BY <1>4, <1>7, <2>2 DEF Precede
  <2>4. /\ Precede(ChunksOf(resumed'), ChunksOf(answers'))
        /\ Precede(ChunksOf(resumed'), ChunksOf(calls'))
        /\ Precede(ChunksOf(answers'), ChunksOf(calls'))
    BY <1>2, <1>5, <1>7, <2>2 DEF Precede
  <2>5. /\ Precede(Values(written'), Waiting')
        /\ \A c \in 1..chunkIndex' : c \in Values(written') \union lost' \union Waiting'
    BY <1>5, <1>6, <2>2 DEF Precede, writeVars
  <2> QED  BY <1>5, <2>2, <2>3, <2>4, <2>5 DEF WrittenInv, writeVars
<1>11. SentInv'
  <2>1. SUFFICES ASSUME asyncSrt = "live"
                 PROVE  SentInv'
    BY <1>5 DEF SentInv
  <2>2. /\ \A c \in 1..chunkIndex : c \in Values(sent) \union ChunksOf(calls) \union Failures
        /\ InPlace(sent, Failures)
    BY <1>1, <2>1 DEF SentInv
  <2>3. Failures \subseteq Failures'
    BY <1>2, <1>5 DEF Failures, writeVars
  <2>4. InPlace(sent, Failures')
    BY <2>2, <2>3, InPlaceWeaken
  <2>5. \A c \in 1..chunkIndex' : c \in Values(sent') \union ChunksOf(calls') \union Failures'
    <3>1. h \in Chunks => h \in Values(sent') \/ h \in Failures'
      BY <1>2, <1>8 DEF Failures
    <3> QED  BY <1>2, <1>5, <1>8, <2>2, <2>3, <3>1 DEF writeVars
  <2>6. InPlace(sent', Failures')
    <3>1. CASE h \in Chunks /\ sent' = Append(sent, h)
      <4>1. \A c \in 1..(h - 1) : c \in Values(sent) \union Failures'
        <5> SUFFICES ASSUME NEW c \in 1..(h - 1)  PROVE c \in Values(sent) \union Failures'
          OBVIOUS
        <5>1. c \in 1..chunkIndex /\ ~(h <= c) /\ c # h
          BY <1>1, <1>7, <3>1 DEF Chunks, TypeOK
        <5>2. c \notin ChunksOf(calls)
          <6>1. c \notin ChunksOf(calls')
            BY <1>7, <3>1, <5>1 DEF Precede, Chunks
          <6> QED  BY <1>2, <5>1, <6>1
        <5> QED  BY <2>2, <2>3, <5>1, <5>2
      <4>2. Failures' \in SUBSET Chunks
        BY <1>2 DEF Failures, TypeOK, FailedIn
      <4> QED  BY <1>1, <1>7, <2>4, <3>1, <4>1, <4>2, NextInPlace DEF TypeOK
    <3> QED  BY <1>8, <2>4, <3>1
  <2> QED  BY <2>5, <2>6 DEF SentInv
<1>12. YieldInv'
  BY <1>1, <1>5, <1>6 DEF YieldInv, writeVars, modeVars, Explicit
<1> QED  BY <1>2, <1>9, <1>10, <1>11, <1>12 DEF WriteInv

-----------------------------------------------------------------------------
(* The main thread gets an answer.                                          *)

LEMMA AnswerEffect ==
  ASSUME TypeOK, LoopTypeOK, MainThreadAnswered, NEW h, h = Head(answers).k
  PROVE  /\ LoopTypeOK' /\ TypeOK'
         /\ \A c : c \notin ChunksOf(resumed) /\ c \notin FailedIn(resumed)
         /\ \A c : c \in ChunksOf(answers) <=> c \in ChunksOf(answers') \/ (c = h /\ c \in Chunks)
         /\ \A c : c \in ChunksOf(resumed') <=> c = h /\ c \in Chunks
         /\ \A c : c \in FailedIn(answers) => c \in FailedIn(answers') \/ c \in FailedIn(resumed')
         /\ Rising(resumed')
         /\ Rising(answers) => /\ Rising(answers')
                               /\ h \in Chunks => Precede({h}, ChunksOf(answers'))
<1> DEFINE x == Head(answers)
<1>1. /\ answers # <<>> /\ answers \in Seq(ResumptionSet) /\ resumed = <<>>
      /\ resumed' = <<x>> /\ answers' = Tail(answers)
      /\ UNCHANGED <<asyncSrt, calls, modeVars, netVars, writeVars, readVars>>
  BY DEF MainThreadAnswered, AnswerArrives, Idle, LoopTypeOK
<1>2. /\ x \in ResumptionSet /\ answers' \in Seq(ResumptionSet)
      /\ \A c : c \in ChunksOf(answers) <=> c \in ChunksOf(answers') \/ (c = h /\ c \in Chunks)
      /\ \A c : c \in FailedIn(answers) <=>
           c \in FailedIn(answers') \/ (c = h /\ c \in Chunks /\ x.result \in {Failed, Rejected})
      /\ Rising(answers) => /\ Rising(answers')
                            /\ h \in Chunks => Precede({h}, ChunksOf(answers'))
  BY <1>1, TakeQueue
<1> HIDE DEF x
<1>3. <<>> \in Seq(ResumptionSet) /\ resumed' = Append(<<>>, x)
  BY <1>1
<1>4. /\ \A c : c \notin ChunksOf(resumed) /\ c \notin FailedIn(resumed)
      /\ \A c : c \notin ChunksOf(<<>>) /\ c \notin FailedIn(<<>>)
      /\ Rising(<<>>) /\ ChunksOf(<<>>) = {}
  BY <1>1, EmptyQueue
<1>5. /\ resumed' \in Seq(ResumptionSet)
      /\ \A c : c \in ChunksOf(resumed') <=> c \in ChunksOf(<<>>) \/ (c = x.k /\ c \in Chunks)
      /\ \A c : c \in FailedIn(resumed') <=>
           c \in FailedIn(<<>>) \/ (c = x.k /\ c \in Chunks /\ x.result \in {Failed, Rejected})
  BY <1>2, <1>3, AppendQueue
<1>6. Rising(resumed')
  <2>1. Precede(ChunksOf(<<>>), {x.k})
    BY <1>4 DEF Precede
  <2> QED  BY <1>2, <1>3, <1>4, <2>1, AppendQueue
<1>7. LoopTypeOK' /\ TypeOK'
  BY <1>1, <1>2, <1>5 DEF LoopTypeOK, TypeOK, modeVars, netVars, writeVars, readVars
<1> QED  BY <1>2, <1>4, <1>5, <1>6, <1>7 DEF x

LEMMA AnswerKeeps ==
  ASSUME WriteInv, MainThreadAnswered
  PROVE  WriteInv'
<1> DEFINE h == Head(answers).k
<1>1. TypeOK /\ LoopTypeOK /\ OrderInv /\ WrittenInv /\ SentInv /\ YieldInv
  BY DEF WriteInv
<1>2. /\ LoopTypeOK' /\ TypeOK'
      /\ \A c : c \notin ChunksOf(resumed) /\ c \notin FailedIn(resumed)
      /\ \A c : c \in ChunksOf(answers) <=> c \in ChunksOf(answers') \/ (c = h /\ c \in Chunks)
      /\ \A c : c \in ChunksOf(resumed') <=> c = h /\ c \in Chunks
      /\ \A c : c \in FailedIn(answers) => c \in FailedIn(answers') \/ c \in FailedIn(resumed')
  BY <1>1, AnswerEffect
<1>3. /\ Rising(resumed')
      /\ Rising(answers) => /\ Rising(answers')
                            /\ h \in Chunks => Precede({h}, ChunksOf(answers'))
  BY <1>1, AnswerEffect
<1>4. UNCHANGED <<modeVars, asyncSrt, calls, netVars, writeVars>>
  BY DEF MainThreadAnswered, AnswerArrives
<1> HIDE DEF h
<1>5. \A c : c \in Waiting' <=> c \in Waiting
  BY <1>2, <1>4 DEF Waiting
<1>6. OrderInv'
  BY <1>1, <1>4, <1>5 DEF OrderInv, writeVars, netVars, modeVars, Explicit
<1>7. WrittenInv'
  <2>1. SUFFICES ASSUME ~Explicit \/ asyncSrt = "live"
                 PROVE  WrittenInv'
    BY <1>4 DEF WrittenInv, Explicit, modeVars
  <2>2. /\ Rising(answers) /\ Ordered(written)
        /\ Precede(Values(written), Waiting)
        /\ Precede(ChunksOf(answers), ChunksOf(calls))
        /\ \A c \in 1..chunkIndex : c \in Values(written) \union lost \union Waiting
        /\ InPlace(written, lost)
    BY <1>1, <2>1 DEF WrittenInv
  <2>3. /\ Precede(ChunksOf(resumed'), ChunksOf(answers'))
        /\ Precede(ChunksOf(resumed'), ChunksOf(calls'))
        /\ Precede(ChunksOf(answers'), ChunksOf(calls'))
    BY <1>2, <1>3, <1>4, <2>2 DEF Precede
  <2>4. /\ Precede(Values(written'), Waiting')
        /\ \A c \in 1..chunkIndex' : c \in Values(written') \union lost' \union Waiting'
    BY <1>4, <1>5, <2>2 DEF Precede, writeVars
  <2> QED  BY <1>3, <1>4, <2>2, <2>3, <2>4 DEF WrittenInv, writeVars
<1>8. SentInv'
  <2>1. Failures \subseteq Failures'
    BY <1>2, <1>4 DEF Failures, writeVars
  <2>2. asyncSrt = "live" => InPlace(sent, Failures')
    BY <1>1, <2>1, InPlaceWeaken DEF SentInv
  <2> QED  BY <1>1, <1>4, <2>1, <2>2 DEF SentInv, writeVars, netVars
<1>9. YieldInv'
  BY <1>1, <1>4, <1>5 DEF YieldInv, writeVars, modeVars, Explicit
<1> QED  BY <1>2, <1>6, <1>7, <1>8, <1>9 DEF WriteInv

-----------------------------------------------------------------------------
(* What is about no chunk: the reads, the connection and the disposal.      *)

NoChunkMoves ==
    /\ \A c : c \in ChunksOf(calls') <=> c \in ChunksOf(calls)
    /\ \A c : c \in ChunksOf(resumed') <=> c \in ChunksOf(resumed)
    /\ \A c : c \in FailedIn(resumed) => c \in FailedIn(resumed')
    /\ Rising(calls) => Rising(calls')
    /\ Rising(resumed) => Rising(resumed')
    /\ UNCHANGED <<answers, sent, modeVars, writeVars>>
    /\ asyncSrt' = "live" => asyncSrt = "live"

LEMMA NoChunkKeeps ==
  ASSUME WriteInv, NoChunkMoves
  PROVE  OrderInv' /\ WrittenInv' /\ SentInv' /\ YieldInv'
<1>1. OrderInv /\ WrittenInv /\ SentInv /\ YieldInv
  BY DEF WriteInv
<1>2. /\ \A c : c \in ChunksOf(calls') <=> c \in ChunksOf(calls)
      /\ \A c : c \in ChunksOf(resumed') <=> c \in ChunksOf(resumed)
      /\ \A c : c \in FailedIn(resumed) => c \in FailedIn(resumed')
      /\ UNCHANGED <<answers, sent, modeVars, writeVars>>
      /\ asyncSrt' = "live" => asyncSrt = "live"
  BY DEF NoChunkMoves
<1>3. /\ Rising(calls) => Rising(calls')
      /\ Rising(resumed) => Rising(resumed')
  BY DEF NoChunkMoves
<1>4. \A c : c \in Waiting' <=> c \in Waiting
  BY <1>2 DEF Waiting
<1>5. OrderInv'
  BY <1>1, <1>2, <1>3, <1>4 DEF OrderInv, Precede, writeVars, modeVars, Explicit
<1>6. WrittenInv'
  <2>1. SUFFICES ASSUME ~Explicit \/ asyncSrt = "live"
                 PROVE  WrittenInv'
    BY <1>2 DEF WrittenInv, Explicit, modeVars
  <2>2. /\ Rising(resumed) /\ Rising(answers) /\ Ordered(written)
        /\ Precede(Values(written), Waiting)
        /\ Precede(ChunksOf(resumed), ChunksOf(answers))
        /\ Precede(ChunksOf(resumed), ChunksOf(calls))
        /\ Precede(ChunksOf(answers), ChunksOf(calls))
        /\ \A c \in 1..chunkIndex : c \in Values(written) \union lost \union Waiting
        /\ InPlace(written, lost)
    BY <1>1, <2>1 DEF WrittenInv
  <2>3. /\ Precede(ChunksOf(resumed'), ChunksOf(answers'))
        /\ Precede(ChunksOf(resumed'), ChunksOf(calls'))
        /\ Precede(ChunksOf(answers'), ChunksOf(calls'))
    BY <1>2, <2>2 DEF Precede
  <2>4. /\ Precede(Values(written'), Waiting')
        /\ \A c \in 1..chunkIndex' : c \in Values(written') \union lost' \union Waiting'
    BY <1>2, <1>4, <2>2 DEF Precede, writeVars
  <2> QED  BY <1>2, <1>3, <2>2, <2>3, <2>4 DEF WrittenInv, writeVars
<1>7. SentInv'
  <2>1. Failures \subseteq Failures'
    BY <1>2 DEF Failures, writeVars
  <2>2. asyncSrt = "live" => InPlace(sent, Failures')
    BY <1>1, <2>1, InPlaceWeaken DEF SentInv
  <2> QED  BY <1>1, <1>2, <2>1, <2>2 DEF SentInv, writeVars
<1>8. YieldInv'
  BY <1>1, <1>2, <1>4 DEF YieldInv, writeVars, modeVars, Explicit
<1> QED  BY <1>5, <1>6, <1>7, <1>8

\* The reader goes on, or stops, with what is left of the resumptions.
LEMMA ReaderMoves ==
  ASSUME WriteInv, NEW rest \in Seq(ResumptionSet),
         Posts(<<NextRead>>, rest) \/ PostsNothing(rest),
         \A c : c \in ChunksOf(rest) <=> c \in ChunksOf(resumed),
         \A c : c \in FailedIn(rest) <=> c \in FailedIn(resumed),
         Rising(resumed) => Rising(rest),
         UNCHANGED <<modeVars, asyncSrt, answers, netVars, writeVars>>
  PROVE  NoChunkMoves /\ LoopTypeOK'
<1>1. LoopTypeOK
  BY DEF WriteInv
<1>2. /\ calls' \in Seq(CallSet) /\ resumed' \in Seq(ResumptionSet)
      /\ \A c : c \in ChunksOf(calls') <=> c \in ChunksOf(calls)
      /\ \A c : c \in ChunksOf(resumed') <=> c \in ChunksOf(rest)
      /\ \A c : c \in FailedIn(rest) => c \in FailedIn(resumed')
  BY <1>1, ReadPosts
<1>3. (Rising(calls) => Rising(calls')) /\ (Rising(rest) => Rising(resumed'))
  BY <1>1, ReadPosts
<1>4. NoChunkMoves
  BY <1>2, <1>3 DEF NoChunkMoves, netVars
<1> QED  BY <1>1, <1>2, <1>4 DEF LoopTypeOK

\* What is left when the read loop is resumed.
LEMMA ReadResumes ==
  ASSUME LoopTypeOK, Resumes(ReadLoop)
  PROVE  /\ Rest \in Seq(ResumptionSet) /\ Result \in Outcomes
         /\ \A c : c \in ChunksOf(Rest) <=> c \in ChunksOf(resumed)
         /\ \A c : c \in FailedIn(Rest) <=> c \in FailedIn(resumed)
         /\ Rising(resumed) => Rising(Rest)
<1>1. /\ resumed # <<>> /\ resumed \in Seq(ResumptionSet)
      /\ Head(resumed).k = 0 /\ 0 \notin Chunks
  BY TransferAssumption DEF LoopTypeOK, Resumes, ReadLoop, Chunks
<1>2. /\ Head(resumed) \in ResumptionSet /\ Rest \in Seq(ResumptionSet)
      /\ \A c : c \in ChunksOf(resumed) <=>
           c \in ChunksOf(Rest) \/ (c = Head(resumed).k /\ c \in Chunks)
      /\ \A c : c \in FailedIn(resumed) <=>
           \/ c \in FailedIn(Rest)
           \/ c = Head(resumed).k /\ c \in Chunks /\ Head(resumed).result \in {Failed, Rejected}
  BY <1>1, TakeQueue DEF Rest
<1>3. Rising(resumed) => Rising(Rest)
  BY <1>1, TakeQueue DEF Rest
<1>4. Result \in Outcomes
  BY <1>2 DEF Result, ResumptionSet
<1> QED  BY <1>1, <1>2, <1>3, <1>4

LEMMA ReaderKeeps ==
  ASSUME WriteInv, StartReading \/ ReadData \/ ReadError \/ ReadRefused
  PROVE  WriteInv'
<1>1. TypeOK /\ LoopTypeOK
  BY DEF WriteInv
<1>2. CASE StartReading
  <2>1. NoChunkMoves /\ LoopTypeOK'
    <3>1. Posts(<<NextRead>>, resumed) /\ resumed \in Seq(ResumptionSet)
      BY <1>1, <1>2 DEF StartReading, LoopTypeOK
    <3>2. UNCHANGED <<modeVars, asyncSrt, answers, netVars, writeVars>>
      BY <1>2 DEF StartReading
    <3> QED  BY <3>1, <3>2, ReaderMoves
  <2>2. TypeOK'
    BY <1>1, <1>2 DEF StartReading, TypeOK, modeVars, netVars, writeVars
  <2> QED  BY <2>1, <2>2, NoChunkKeeps DEF WriteInv
<1>3. CASE ReadData \/ ReadError \/ ReadRefused
  <2>1. /\ Resumes(ReadLoop)
        /\ Posts(<<NextRead>>, Rest) \/ PostsNothing(Rest)
        /\ UNCHANGED <<modeVars, asyncSrt, answers, netVars, writeVars>>
    BY <1>3 DEF ReadData, ReadError, ReadRefused
  <2>2. /\ Rest \in Seq(ResumptionSet)
        /\ \A c : c \in ChunksOf(Rest) <=> c \in ChunksOf(resumed)
        /\ \A c : c \in FailedIn(Rest) <=> c \in FailedIn(resumed)
        /\ Rising(resumed) => Rising(Rest)
    BY <1>1, <2>1, ReadResumes
  <2>3. NoChunkMoves /\ LoopTypeOK'
    BY <2>1, <2>2, ReaderMoves
  <2>4. reader' \in {"idle", "reading", "returned", "threw"} /\ bytesRead' \in Nat
    BY <1>1, <1>3 DEF ReadData, ReadError, ReadRefused, TypeOK, readVars
  <2>5. TypeOK'
    BY <1>1, <2>1, <2>4 DEF TypeOK, modeVars, netVars, writeVars
  <2> QED  BY <2>3, <2>5, NoChunkKeeps DEF WriteInv
<1> QED  BY <1>2, <1>3

LEMMA ConnectionKeeps ==
  ASSUME WriteInv, MessageArrives \/ LinkBreaks \/ Dispose \/ DisposeProceed \/ UNCHANGED vars
  PROVE  WriteInv'
<1>1. TypeOK /\ LoopTypeOK
  BY DEF WriteInv
<1>2. /\ UNCHANGED <<calls, answers, resumed, sent, modeVars, writeVars, readVars>>
      /\ asyncSrt' \in {"live", "disposing", "disposed"}
      /\ asyncSrt' = "live" => asyncSrt = "live"
  BY <1>1 DEF MessageArrives, LinkBreaks, Dispose, DisposeProceed, vars, netVars, loopVars,
              LoopTypeOK
<1>3. NoChunkMoves
  BY <1>2 DEF NoChunkMoves
<1>4. LoopTypeOK'
  BY <1>1, <1>2 DEF LoopTypeOK
<1>5. inbound' \in Seq(1..Mtu) /\ arrived' \in 0..MaxMessages /\ link' \in {"up", "down"}
  <2>1. CASE MessageArrives
    <3>1. PICK size \in 1..Mtu : inbound' = Append(inbound, size)
      BY <2>1 DEF MessageArrives
    <3>2. inbound' \in Seq(1..Mtu)
      BY <1>1, <3>1, AppendProperties DEF TypeOK
    <3>3. arrived' \in 0..MaxMessages /\ link' = link
      BY <1>1, <2>1, TransferAssumption DEF MessageArrives, TypeOK
    <3> QED  BY <1>1, <3>2, <3>3 DEF TypeOK
  <2>2. CASE LinkBreaks \/ Dispose \/ DisposeProceed \/ UNCHANGED vars
    BY <1>1, <2>2 DEF LinkBreaks, Dispose, DisposeProceed, vars, netVars, TypeOK
  <2> QED  BY <2>1, <2>2
<1>6. TypeOK'
  BY <1>1, <1>2, <1>5 DEF TypeOK, modeVars, writeVars, readVars
<1> QED  BY <1>3, <1>4, <1>6, NoChunkKeeps DEF WriteInv

-----------------------------------------------------------------------------
(* The writer settles the chunks "done" and hands the next ones to write(); *)
(* "rest" is what is left of the resumptions.                               *)

Handed == (chunkIndex + 1)..chunkIndex'

Hands(rest) ==
    /\ chunkIndex' \in 0..NumChunks /\ chunkIndex <= chunkIndex'
    /\ \A c : c \in ChunksOf(calls') <=>
         c \in ChunksOf(calls) \/ (asyncSrt = "live" /\ c \in Handed)
    /\ \A c : c \in ChunksOf(resumed') <=>
         c \in ChunksOf(rest) \/ (asyncSrt # "live" /\ c \in Handed)
    /\ Rising(calls) /\ (\A c \in ChunksOf(calls) : c <= chunkIndex) => Rising(calls')
    /\ Rising(rest) /\ (\A c \in ChunksOf(rest) : c <= chunkIndex) => Rising(resumed')

Settles(done) ==
    \/ done = {} /\ written' = written /\ lost' = lost
    \/ \E c \in Chunks : done = {c} /\ written' = Append(written, c) /\ lost' = lost
    \/ \E c \in Chunks : done = {c} /\ written' = written /\ lost' = lost \union {c}

WriterMoves(done, rest) ==
    /\ \A c : c \in ChunksOf(resumed) <=> c \in ChunksOf(rest) \/ c \in done
    /\ Rising(resumed) => Rising(rest) /\ Precede(done, ChunksOf(rest))
    /\ Settles(done)
    /\ \A c \in FailedIn(resumed) : asyncSrt = "live" => c \in FailedIn(resumed') \/ c \in lost'
    /\ Hands(rest)
    /\ ~Explicit /\ chunkIndex' # chunkIndex => \A c \in Waiting : c \in done
    /\ UNCHANGED <<asyncSrt, answers, netVars, modeVars, readVars>>
    /\ writer' # "idle"
    /\ writeTimer' => Explicit

LEMMA WriterKeeps ==
  ASSUME WriteInv, NEW done \in SUBSET Chunks, NEW rest, WriterMoves(done, rest)
  PROVE  OrderInv' /\ WrittenInv' /\ SentInv'
<1>1. OrderInv /\ WrittenInv /\ SentInv /\ TypeOK
  BY DEF WriteInv
<1>2. /\ \A c : c \in ChunksOf(resumed) <=> c \in ChunksOf(rest) \/ c \in done
      /\ Settles(done)
      /\ \A c \in FailedIn(resumed) : asyncSrt = "live" => c \in FailedIn(resumed') \/ c \in lost'
      /\ UNCHANGED <<asyncSrt, answers, netVars, modeVars, readVars>>
      /\ writer' # "idle"
      /\ writeTimer' => Explicit
  BY DEF WriterMoves
<1>3. /\ chunkIndex \in Nat /\ chunkIndex' \in Nat /\ chunkIndex <= chunkIndex'
      /\ \A c : c \in Handed <=> c \in Nat /\ chunkIndex < c /\ c <= chunkIndex'
  BY <1>1, TransferAssumption DEF TypeOK, WriterMoves, Hands, Handed
<1>4. /\ \A c : c \in ChunksOf(calls') <=>
           c \in ChunksOf(calls) \/ (asyncSrt = "live" /\ c \in Handed)
      /\ \A c : c \in ChunksOf(resumed') <=>
           c \in ChunksOf(rest) \/ (asyncSrt # "live" /\ c \in Handed)
      /\ ~Explicit /\ chunkIndex' # chunkIndex => \A c \in Waiting : c \in done
  BY DEF WriterMoves, Hands
<1>5. /\ Rising(resumed) => Rising(rest) /\ Precede(done, ChunksOf(rest))
      /\ Rising(calls) /\ (\A c \in ChunksOf(calls) : c <= chunkIndex) => Rising(calls')
      /\ Rising(rest) /\ (\A c \in ChunksOf(rest) : c <= chunkIndex) => Rising(resumed')
  BY DEF WriterMoves, Hands
<1>6. \A c \in Waiting : c \in Nat /\ c <= chunkIndex
  BY <1>1 DEF OrderInv, Waiting, ChunksOf, Chunks
<1>7. /\ \A c : c \in Waiting <=>
           c \in done \/ c \in ChunksOf(rest) \/ c \in ChunksOf(answers) \/ c \in ChunksOf(calls)
      /\ \A c : c \in Waiting' <=>
           \/ c \in ChunksOf(rest) \/ c \in ChunksOf(answers) \/ c \in ChunksOf(calls)
           \/ c \in Handed
  BY <1>2, <1>4 DEF Waiting
<1> DEFINE Kept ==
             /\ \A c : c \in Values(written') => c \in Values(written) \/ c \in done
             /\ \A c : c \in Values(written) => c \in Values(written')
             /\ \A c : c \in lost => c \in lost'
             /\ \A c \in done : c \in Values(written') \/ c \in lost'
             /\ lost' \in SUBSET Chunks
<1>8. Kept
  <2>1. written \in Seq(Chunks) /\ lost \in SUBSET Chunks
    BY <1>1 DEF TypeOK
  <2>2. CASE done = {} /\ written' = written /\ lost' = lost
    BY <2>1, <2>2
  <2>3. ASSUME NEW n \in Chunks, done = {n}, written' = Append(written, n), lost' = lost
        PROVE  Kept
    BY <2>1, <2>3, AppendChunk
  <2>4. ASSUME NEW n \in Chunks, done = {n}, written' = written, lost' = lost \union {n}
        PROVE  Kept
    BY <2>1, <2>4
  <2> QED  BY <1>2, <2>2, <2>3, <2>4 DEF Settles
<1>9. OrderInv'
  <2>1. Rising(calls') /\ Ordered(sent')
    BY <1>1, <1>2, <1>5, <1>6, <1>7 DEF OrderInv, netVars
  <2>2. Precede(Values(sent'), ChunksOf(calls'))
    <3>1. \A c \in Values(sent) : c \in Chunks
      BY <1>1, ValuesAreChunks DEF TypeOK
    <3>2. \A c \in Values(sent) : c \in Nat /\ c <= chunkIndex
      BY <1>1, <3>1 DEF OrderInv, Chunks
    <3> QED  BY <1>1, <1>2, <1>3, <1>4, <3>2 DEF OrderInv, Precede, netVars
  <2>3. \A c \in Waiting' \union Values(sent') \union Values(written') : c <= chunkIndex'
    <3>1. \A c \in Values(sent) \union Values(written) : c \in Chunks
      BY <1>1, ValuesAreChunks DEF TypeOK
    <3>2. \A c \in Values(sent) \union Values(written) : c \in Nat /\ c <= chunkIndex
      BY <1>1, <3>1 DEF OrderInv, Chunks
    <3> QED  BY <1>2, <1>3, <1>6, <1>7, <1>8, <3>2 DEF netVars
  <2> QED  BY <1>2, <2>1, <2>2, <2>3 DEF OrderInv, Explicit, modeVars
<1>10. WrittenInv'
  <2>1. SUFFICES ASSUME ~Explicit \/ asyncSrt = "live"
                 PROVE  WrittenInv'
    BY <1>2 DEF WrittenInv, Explicit, modeVars
  <2>2. /\ Rising(resumed) /\ Rising(answers) /\ Ordered(written)
        /\ Precede(Values(written), Waiting)
        /\ Precede(ChunksOf(resumed), ChunksOf(answers))
        /\ Precede(ChunksOf(resumed), ChunksOf(calls))
        /\ Precede(ChunksOf(answers), ChunksOf(calls))
        /\ \A c \in 1..chunkIndex : c \in Values(written) \union lost \union Waiting
        /\ InPlace(written, lost)
    BY <1>1, <2>1 DEF WrittenInv
  <2>3. /\ Rising(rest) /\ Precede(done, ChunksOf(rest))
        /\ Precede(done, ChunksOf(answers)) /\ Precede(done, ChunksOf(calls))
    BY <1>2, <1>5, <2>2 DEF Precede
  <2>4. Rising(resumed') /\ Rising(answers')
    BY <1>2, <1>5, <1>6, <1>7, <2>2, <2>3
  <2>5. ASSUME NEW c \in Handed, NEW d,
               d \in ChunksOf(rest) \/ d \in ChunksOf(answers) \/ d \in ChunksOf(calls)
        PROVE  Explicit \/ asyncSrt = "live"
    <3>1. chunkIndex' # chunkIndex
      BY <1>3
    <3>2. d \in Waiting /\ d \in Nat
      BY <1>6, <1>7, <2>5
    <3>3. ~Explicit => d \in done
      BY <1>4, <3>1, <3>2
    <3> QED  BY <2>3, <2>5, <3>2, <3>3 DEF Precede
  <2>6. /\ Precede(ChunksOf(resumed'), ChunksOf(answers'))
        /\ Precede(ChunksOf(resumed'), ChunksOf(calls'))
        /\ Precede(ChunksOf(answers'), ChunksOf(calls'))
    <3>1. \A c, d : c \in Waiting /\ d \in Handed => c < d
      BY <1>3, <1>6
    <3>2. Precede(ChunksOf(resumed'), ChunksOf(answers'))
      BY <1>2, <1>4, <2>1, <2>2, <2>5 DEF Precede
    <3>3. Precede(ChunksOf(resumed'), ChunksOf(calls'))
      BY <1>2, <1>4, <1>7, <2>1, <2>2, <2>5, <3>1 DEF Precede
    <3>4. Precede(ChunksOf(answers'), ChunksOf(calls'))
      BY <1>2, <1>4, <1>7, <2>2, <3>1 DEF Precede
    <3> QED  BY <3>2, <3>3, <3>4
  <2>7. \A c \in 1..chunkIndex' : c \in Values(written') \union lost' \union Waiting'
    BY <1>3, <1>7, <1>8, <2>2
  <2>8. Ordered(written') /\ InPlace(written', lost')
    <3>1. InPlace(written, lost')
      BY <1>8, <2>2, InPlaceWeaken
    <3>2. ASSUME NEW n \in Chunks, done = {n}, written' = Append(written, n)
          PROVE  Ordered(written') /\ InPlace(written', lost')
      <4>1. written \in Seq(Chunks) /\ Precede(Values(written), {n})
        BY <1>1, <1>7, <2>2, <3>2 DEF TypeOK, Precede
      <4>2. \A c \in 1..(n - 1) : c \in Values(written) \union lost'
        <5> SUFFICES ASSUME NEW c \in 1..(n - 1)  PROVE c \in Values(written) \union lost'
          OBVIOUS
        <5>1. n \in Nat /\ n <= chunkIndex /\ c \in Nat /\ c < n
          BY <1>6, <1>7, <3>2 DEF Chunks
        <5>2. c \in 1..chunkIndex
          BY <1>3, <5>1
        <5>3. c \notin Waiting
          BY <1>7, <2>3, <3>2, <5>1 DEF Precede
        <5> QED  BY <1>8, <2>2, <5>2, <5>3
      <4> QED  BY <1>8, <2>2, <3>1, <3>2, <4>1, <4>2, AppendChunk, NextInPlace
    <3>3. CASE written' = written
      BY <2>2, <3>1, <3>3
    <3> QED  BY <1>2, <3>2, <3>3 DEF Settles
  <2>9. Precede(Values(written'), Waiting')
    <3>1. \A c \in Values(written) : c \in Nat /\ c <= chunkIndex
      <4>1. \A c \in Values(written) : c \in Chunks
        BY <1>1, ValuesAreChunks DEF TypeOK
      <4> QED  BY <1>1, <4>1 DEF OrderInv, Chunks
    <3>2. ASSUME NEW c \in Values(written'), NEW d \in Waiting'  PROVE c < d
      <4>1. c \in Nat /\ c <= chunkIndex
        BY <1>6, <1>7, <1>8, <3>1
      <4>2. CASE d \in Handed
        BY <1>3, <4>1, <4>2
      <4>3. CASE d \notin Handed
        <5>1. c \in Values(written) => c < d
          BY <1>7, <2>2, <4>3 DEF Precede
        <5>2. c \in done => c < d
          BY <1>7, <2>3, <4>3 DEF Precede
        <5> QED  BY <1>8, <5>1, <5>2
      <4> QED  BY <4>2, <4>3
    <3> QED  BY <3>2 DEF Precede
  <2> QED  BY <2>4, <2>6, <2>7, <2>8, <2>9 DEF WrittenInv
<1>11. SentInv'
  <2>1. SUFFICES ASSUME asyncSrt = "live"
                 PROVE  SentInv'
    BY <1>2 DEF SentInv
  <2>2. /\ \A c \in 1..chunkIndex : c \in Values(sent) \union ChunksOf(calls) \union Failures
        /\ InPlace(sent, Failures)
    BY <1>1, <2>1 DEF SentInv
  <2>3. Failures \subseteq Failures'
    BY <1>2, <1>8, <2>1 DEF Failures
  <2>4. InPlace(sent, Failures')
    BY <2>2, <2>3, InPlaceWeaken
  <2>5. \A c \in 1..chunkIndex' : c \in Values(sent') \union ChunksOf(calls') \union Failures'
    BY <1>2, <1>3, <1>4, <2>1, <2>2, <2>3 DEF netVars
  <2> QED  BY <1>2, <2>4, <2>5 DEF SentInv, netVars
<1> QED  BY <1>9, <1>10, <1>11

\* Whether it makes the calls of a tick or none.
LEMMA WriterHands ==
  ASSUME LoopTypeOK, chunkIndex \in 0..NumChunks, NEW rest \in Seq(ResumptionSet),
         Tick(rest) \/ (PostsNothing(rest) /\ UNCHANGED chunkIndex)
  PROVE  /\ Hands(rest)
         /\ calls' \in Seq(CallSet) /\ resumed' \in Seq(ResumptionSet)
         /\ chunkIndex' <= chunkIndex + WritesPerTick
         /\ Tick(rest) => Handed = NextChunks /\ NextChunks \subseteq Chunks
         /\ ~Tick(rest) => chunkIndex' = chunkIndex /\ Handed = {}
         /\ \A c \in FailedIn(rest) : asyncSrt = "live" => c \in FailedIn(resumed')
<1>1. chunkIndex \in Nat /\ WritesPerTick \in Nat
  BY TransferAssumption
<1>2. CASE Tick(rest)
  <2>1. /\ chunkIndex' \in 0..NumChunks /\ chunkIndex <= chunkIndex'
        /\ chunkIndex' <= chunkIndex + WritesPerTick
        /\ Handed = NextChunks /\ NextChunks \subseteq Chunks
        /\ IF asyncSrt = "live"
             THEN resumed' = rest /\ calls' \in Seq(CallSet) /\ Grown(calls, calls')
             ELSE calls' = calls /\ resumed' \in Seq(ResumptionSet) /\ Grown(rest, resumed')
    BY <1>2, TickPosts DEF Handed
  <2>2. Hands(rest)
    BY <2>1 DEF Hands, Grown, Handed
  <2> QED  BY <1>2, <2>1, <2>2 DEF LoopTypeOK
<1>3. CASE ~Tick(rest) /\ PostsNothing(rest) /\ UNCHANGED chunkIndex
  <2>1. Handed = {}
    BY <1>1, <1>3 DEF Handed
  <2> QED  BY <1>1, <1>3, <2>1 DEF Hands, PostsNothing, LoopTypeOK
<1> QED  BY <1>2, <1>3

\* Before the first tick nothing waits.
LEMMA IdleHasNone ==
  ASSUME OrderInv, writer = "idle", NEW c  PROVE c \notin Waiting
<1>1. SUFFICES ASSUME c \in Waiting  PROVE FALSE
  OBVIOUS
<1>2. c \in Nat /\ c > 0
  BY <1>1 DEF Waiting, ChunksOf, Chunks
<1> QED  BY <1>1, <1>2 DEF OrderInv

\* The first tick, and those of the interval: nothing is settled.
LEMMA TickKeeps ==
  ASSUME WriteInv, StartWriting \/ WriteTimer
  PROVE  WriteInv'
<1>1. TypeOK /\ LoopTypeOK /\ OrderInv /\ YieldInv
  BY DEF WriteInv
<1>2. /\ resumed = <<>> /\ resumed \in Seq(ResumptionSet) /\ chunkIndex \in 0..NumChunks
      /\ Tick(resumed)
      /\ UNCHANGED <<modeVars, asyncSrt, answers, netVars, written, lost, readVars>>
  BY <1>1 DEF StartWriting, WriteTimer, Idle, LoopTypeOK, TypeOK
<1>3. /\ Hands(resumed)
      /\ calls' \in Seq(CallSet) /\ resumed' \in Seq(ResumptionSet)
      /\ chunkIndex' <= chunkIndex + WritesPerTick
      /\ Handed = NextChunks /\ NextChunks \subseteq Chunks
      /\ \A c \in FailedIn(resumed) : asyncSrt = "live" => c \in FailedIn(resumed')
  BY <1>1, <1>2, WriterHands
<1>4. /\ writer' \in {"writing", "resolved"} \/ (writer' = writer /\ writer # "idle")
      /\ ~Explicit => writer = "idle" /\ writer' = "writing" /\ awaited' = NextChunks
      /\ awaited' \in {awaited, NextChunks}
      /\ writeTimer' \in BOOLEAN /\ (writeTimer' => Explicit)
  <2>1. CASE StartWriting
    <3>1. /\ writer = "idle" /\ awaited' = NextChunks /\ writeTimer' = (Explicit /\ TickIsFull)
          /\ writer' = IF Explicit /\ ~TickIsFull THEN "resolved" ELSE "writing"
      BY <2>1 DEF StartWriting
    <3> QED  BY <3>1
  <2>2. CASE WriteTimer
    <3>1. /\ writeTimer /\ awaited' = awaited /\ writeTimer' = TickIsFull
          /\ writer' = IF TickIsFull THEN writer ELSE "resolved"
      BY <2>2 DEF WriteTimer
    <3>2. Explicit /\ writer # "idle"
      BY <1>1, <3>1 DEF OrderInv
    <3>3. TickIsFull \in BOOLEAN
      BY DEF TickIsFull
    <3> QED  BY <3>1, <3>2, <3>3
  <2> QED  BY <2>1, <2>2
<1>5. writer' # "idle"
  BY <1>4
<1>6. writer = "idle" => \A c : c \notin Waiting
  BY <1>1, IdleHasNone
<1>7. WriterMoves({}, resumed)
  <2>1. Settles({}) /\ Precede({}, ChunksOf(resumed))
    BY <1>2 DEF Settles, Precede
  <2>2. ~Explicit /\ chunkIndex' # chunkIndex => \A c \in Waiting : c \in {}
    BY <1>4, <1>6
  <2>3. \A c \in FailedIn(resumed) : asyncSrt = "live" => c \in FailedIn(resumed') \/ c \in lost'
    BY <1>3
  <2> QED  BY <1>2, <1>3, <1>4, <1>5, <2>1, <2>2, <2>3 DEF WriterMoves
<1>8. OrderInv' /\ WrittenInv' /\ SentInv'
  BY <1>7, WriterKeeps
<1>9. TypeOK' /\ LoopTypeOK'
  BY <1>1, <1>2, <1>3, <1>4 DEF TypeOK, LoopTypeOK, Hands, modeVars, netVars, readVars
<1>10. YieldInv'
  <2>1. SUFFICES ASSUME ~Explicit  PROVE YieldInv'
    BY <1>2 DEF YieldInv, Explicit, modeVars
  <2>2. /\ writer = "idle" /\ writer' = "writing" /\ awaited' = NextChunks /\ lost' = {}
        /\ \A c : c \notin Waiting
    BY <1>1, <1>2, <1>4, <1>6, <2>1 DEF YieldInv
  <2>3. \A c \in Waiting' : c \in NextChunks
    BY <1>2, <1>3, <2>2 DEF Waiting, Hands
  <2>4. \A c \in NextChunks : chunkIndex' < c + WritesPerTick
    <3>1. chunkIndex \in Nat /\ chunkIndex' \in Nat /\ WritesPerTick \in Nat
      BY <1>2, <1>3, TransferAssumption DEF Hands
    <3> QED  BY <1>3, <3>1 DEF NextChunks, Chunks
  <2> QED  BY <2>2, <2>3, <2>4 DEF YieldInv
<1> QED  BY <1>8, <1>9, <1>10 DEF WriteInv

\* What is left when the promise of a write() settles.
LEMMA WriteResumes ==
  ASSUME LoopTypeOK, NEW chunk \in Chunks, Resumes(chunk)
  PROVE  /\ Rest \in Seq(ResumptionSet)
         /\ \A c : c \in ChunksOf(resumed) <=> c \in ChunksOf(Rest) \/ c \in {chunk}
         /\ \A c : c \in FailedIn(resumed) =>
              c \in FailedIn(Rest) \/ (c = chunk /\ ~WriteFulfilled)
         /\ Rising(resumed) => Rising(Rest) /\ Precede({chunk}, ChunksOf(Rest))
<1>1. /\ resumed # <<>> /\ resumed \in Seq(ResumptionSet) /\ Head(resumed).k = chunk
  BY DEF LoopTypeOK, Resumes
<1>2. /\ Rest \in Seq(ResumptionSet)
      /\ \A c : c \in ChunksOf(resumed) <=>
           c \in ChunksOf(Rest) \/ (c = Head(resumed).k /\ c \in Chunks)
      /\ \A c : c \in FailedIn(resumed) <=>
           \/ c \in FailedIn(Rest)
           \/ c = Head(resumed).k /\ c \in Chunks /\ Head(resumed).result \in {Failed, Rejected}
  BY <1>1, TakeQueue DEF Rest
<1>3. Rising(resumed) => Rising(Rest) /\ Precede({Head(resumed).k}, ChunksOf(Rest))
  BY <1>1, TakeQueue DEF Rest
<1>4. Head(resumed).result \in {Failed, Rejected} => ~WriteFulfilled
  BY DEF WriteFulfilled, Result
<1> QED  BY <1>1, <1>2, <1>3, <1>4

LEMMA WriteAnsweredKeeps ==
  ASSUME WriteInv, NEW chunk \in Chunks, WriteAnswered(chunk)
  PROVE  WriteInv'
<1>1. TypeOK /\ LoopTypeOK /\ OrderInv /\ WrittenInv /\ YieldInv
  BY DEF WriteInv
<1>2. /\ Resumes(chunk) /\ Settle(chunk)
      /\ IF Explicit
           THEN PostsNothing(Rest) /\ UNCHANGED <<awaited, writer, chunkIndex>>
           ELSE AfterTick(chunk)
      /\ UNCHANGED <<modeVars, asyncSrt, answers, netVars, writeTimer, readVars>>
  BY DEF WriteAnswered
<1>3. /\ Rest \in Seq(ResumptionSet) /\ chunkIndex \in 0..NumChunks
      /\ \A c : c \in ChunksOf(resumed) <=> c \in ChunksOf(Rest) \/ c \in {chunk}
      /\ \A c : c \in FailedIn(resumed) => c \in FailedIn(Rest) \/ (c = chunk /\ ~WriteFulfilled)
  BY <1>1, <1>2, WriteResumes DEF TypeOK
<1>4. Rising(resumed) => Rising(Rest) /\ Precede({chunk}, ChunksOf(Rest))
  BY <1>1, <1>2, WriteResumes
<1>5. chunk \in Waiting /\ writer # "idle"
  BY <1>1, <1>3, IdleHasNone DEF Waiting
<1>6. /\ Tick(Rest) \/ (PostsNothing(Rest) /\ UNCHANGED chunkIndex)
      /\ Tick(Rest) /\ chunkIndex' # chunkIndex =>
           ~Explicit /\ writer = "writing" /\ awaited = {chunk}
      /\ writer' \in {writer, "rejected", "resolved"}
      /\ awaited' \subseteq awaited \/ (Tick(Rest) /\ awaited' = NextChunks)
  BY <1>2, <1>3 DEF AfterTick
<1>7. /\ Hands(Rest)
      /\ calls' \in Seq(CallSet) /\ resumed' \in Seq(ResumptionSet)
      /\ chunkIndex' <= chunkIndex + WritesPerTick
      /\ Tick(Rest) => Handed = NextChunks /\ NextChunks \subseteq Chunks
      /\ ~Tick(Rest) => chunkIndex' = chunkIndex /\ Handed = {}
      /\ \A c \in FailedIn(Rest) : asyncSrt = "live" => c \in FailedIn(resumed')
  BY <1>1, <1>3, <1>6, WriterHands
<1>8. \/ WriteFulfilled /\ written' = Append(written, chunk) /\ lost' = lost
      \/ ~WriteFulfilled /\ written' = written /\ lost' = lost \union {chunk}
  BY <1>2 DEF Settle
<1>9. WriterMoves({chunk}, Rest)
  <2>1. Settles({chunk})
    BY <1>8 DEF Settles
  <2>2. \A c \in FailedIn(resumed) : asyncSrt = "live" => c \in FailedIn(resumed') \/ c \in lost'
    BY <1>3, <1>7, <1>8
  <2>3. ~Explicit /\ chunkIndex' # chunkIndex => \A c \in Waiting : c \in {chunk}
    BY <1>1, <1>6, <1>7 DEF YieldInv
  <2>4. writer' # "idle" /\ (writeTimer' => Explicit)
    BY <1>1, <1>2, <1>5, <1>6 DEF OrderInv
  <2> QED  BY <1>2, <1>3, <1>4, <1>7, <2>1, <2>2, <2>3, <2>4 DEF WriterMoves
<1>10. OrderInv' /\ WrittenInv' /\ SentInv'
  BY <1>9, WriterKeeps
<1>11. TypeOK' /\ LoopTypeOK'
  <2>1. written' \in Seq(Chunks) /\ lost' \subseteq Chunks
    <3>1. written \in Seq(Chunks) /\ lost \subseteq Chunks
      BY <1>1 DEF TypeOK
    <3>2. Append(written, chunk) \in Seq(Chunks)
      BY <3>1, AppendProperties
    <3> QED  BY <1>8, <3>1, <3>2
  <2>2. awaited' \subseteq Chunks /\ writer' \in {"idle", "writing", "resolved", "rejected"}
    BY <1>1, <1>6, <1>7 DEF TypeOK
  <2> QED  BY <1>1, <1>2, <1>7, <2>1, <2>2
           DEF TypeOK, LoopTypeOK, Hands, modeVars, netVars, readVars
<1>12. YieldInv'
  <2>1. SUFFICES ASSUME ~Explicit  PROVE YieldInv'
    BY <1>2 DEF YieldInv, Explicit, modeVars
  <2>2. /\ \A c \in Waiting : chunkIndex < c + WritesPerTick
        /\ writer = "writing" => Waiting \subseteq awaited
        /\ writer = "resolved" => Waiting = {} /\ chunkIndex = NumChunks
        /\ writer # "rejected" => lost = {}
    BY <1>1, <2>1 DEF YieldInv
  <2>3. \A c \in Waiting' : c \in Handed \/ (c \in Waiting /\ c # chunk)
    <3>1. /\ Rising(resumed) /\ Precede(ChunksOf(resumed), ChunksOf(answers))
          /\ Precede(ChunksOf(resumed), ChunksOf(calls))
      BY <1>1, <2>1 DEF WrittenInv
    <3>2. \A c : c \in ChunksOf(Rest) \/ c \in ChunksOf(answers) \/ c \in ChunksOf(calls)
            => c # chunk
      BY <1>3, <1>4, <3>1 DEF Precede, Chunks
    <3> QED  BY <1>2, <1>3, <1>7, <3>2 DEF Waiting, Hands
  <2>4. /\ chunkIndex \in Nat /\ chunkIndex' \in Nat /\ WritesPerTick \in Nat
        /\ \A c \in Handed : c \in Nat /\ chunkIndex < c
        /\ chunkIndex' = chunkIndex => Handed = {}
    BY <1>3, <1>7, TransferAssumption DEF Handed, Hands
  <2>5. AfterTick(chunk)
    BY <1>2, <2>1
  <2>6. CASE writer # "writing" /\ UNCHANGED <<writer, awaited, chunkIndex>>
    <3>1. writer = "rejected"
      BY <1>1, <1>5, <2>2, <2>6 DEF TypeOK
    <3> QED  BY <2>2, <2>3, <2>4, <2>6, <3>1 DEF YieldInv
  <2>7. CASE writer' = "rejected" /\ UNCHANGED <<awaited, chunkIndex>>
    BY <2>2, <2>3, <2>4, <2>7 DEF YieldInv
  <2>8. CASE /\ writer = "writing" /\ WriteFulfilled /\ awaited' = awaited \ {chunk}
             /\ UNCHANGED <<writer, chunkIndex>>
    BY <1>8, <2>2, <2>3, <2>4, <2>8 DEF YieldInv
  <2>9. CASE /\ writer = "writing" /\ WriteFulfilled /\ awaited = {chunk}
             /\ Tick(Rest) /\ awaited' = NextChunks /\ UNCHANGED writer
    <3>1. \A c \in Waiting' : c \in Handed
      BY <2>2, <2>3, <2>9
    <3>2. \A c \in Handed : chunkIndex' < c + WritesPerTick
      BY <1>7, <2>4
    <3> QED  BY <1>7, <1>8, <2>2, <2>9, <3>1, <3>2 DEF YieldInv
  <2>10. CASE /\ writer = "writing" /\ WriteFulfilled /\ awaited = {chunk}
              /\ ~(chunkIndex < NumChunks) /\ writer' = "resolved" /\ UNCHANGED chunkIndex
    <3>1. \A c : c \notin Waiting'
      BY <2>2, <2>3, <2>4, <2>10
    <3>2. chunkIndex' = NumChunks
      BY <1>3, <2>10, TransferAssumption
    <3> QED  BY <1>8, <2>2, <2>10, <3>1, <3>2 DEF YieldInv
  <2> QED  BY <2>5, <2>6, <2>7, <2>8, <2>9, <2>10 DEF AfterTick
<1> QED  BY <1>10, <1>11, <1>12 DEF WriteInv

-----------------------------------------------------------------------------
(* The theorems.                                                            *)

LEMMA InitHasInv == Init => WriteInv
<1> SUFFICES ASSUME Init  PROVE WriteInv
  OBVIOUS
<1> USE DEF Init, LoopInit
<1>1. /\ \A c : c \notin ChunksOf(<<>>) /\ c \notin FailedIn(<<>>) /\ c \notin Values(<<>>)
      /\ Rising(<<>>) /\ Ordered(<<>>) /\ \A S : <<>> \in Seq(S)
  BY EmptyQueue
<1>2. NumChunks \in Nat /\ MaxMessages \in Nat
  BY TransferAssumption
<1>3. TypeOK
  <2>1. /\ inbound \in Seq(1..Mtu) /\ sent \in Seq(Chunks) /\ written \in Seq(Chunks)
        /\ arrived \in 0..MaxMessages /\ chunkIndex \in 0..NumChunks
    BY <1>1, <1>2
  <2> QED  BY <2>1 DEF TypeOK
<1>4. LoopTypeOK
  BY <1>1 DEF LoopTypeOK
<1>5. \A c : c \notin Waiting /\ c \notin Values(sent) /\ c \notin Values(written)
  BY <1>1 DEF Waiting
<1>6. OrderInv
  BY <1>1, <1>5 DEF OrderInv, Precede
<1>7. InPlace(<<>>, lost) /\ InPlace(<<>>, Failures)
  BY DEF InPlace
<1>8. WrittenInv
  BY <1>1, <1>5, <1>7 DEF WrittenInv, Precede
<1>9. SentInv
  BY <1>7 DEF SentInv
<1>10. YieldInv
  BY <1>5 DEF YieldInv
<1> QED  BY <1>3, <1>4, <1>6, <1>8, <1>9, <1>10 DEF WriteInv

LEMMA NextKeepsInv == WriteInv /\ [Next]_vars => WriteInv'
<1> SUFFICES ASSUME WriteInv, [Next]_vars  PROVE WriteInv'
  OBVIOUS
<1>1. CASE WorkerPerforms
  BY <1>1, WorkKeeps
<1>2. CASE MainThreadAnswered
  BY <1>2, AnswerKeeps
<1>3. CASE StartWriting \/ WriteTimer
  BY <1>3, TickKeeps
<1>4. ASSUME NEW chunk \in Chunks, WriteAnswered(chunk)  PROVE WriteInv'
  BY <1>4, WriteAnsweredKeeps
<1>5. CASE StartReading \/ ReadData \/ ReadError \/ ReadRefused
  BY <1>5, ReaderKeeps
<1>6. CASE MessageArrives \/ LinkBreaks \/ Dispose \/ DisposeProceed \/ UNCHANGED vars
  BY <1>6, ConnectionKeeps
<1> QED  BY <1>1, <1>2, <1>3, <1>4, <1>5, <1>6 DEF Next, Continuations

LEMMA SpecHasInv == Spec => []WriteInv
BY InitHasInv, NextKeepsInv, PTL DEF Spec

\* The variables have their types in every reachable state.
THEOREM TypeCorrect == Spec => []TypeOK
<1>1. WriteInv => TypeOK
  BY DEF WriteInv
<1> QED  BY <1>1, SpecHasInv, PTL

\* The socket gets the chunks in the order of the buffer, and onWrite() is called in that
\* order, with the index of the chunk unless one before it was lost, in both write modes
\* and for any size of a tick, until a disposal.
THEOREM ChunksKeepTheirOrder == Spec => []WritesInOrder
<1>1. WriteInv => WritesInOrder
  BY DEF WriteInv, WritesInOrder, OrderInv, WrittenInv, InPlace
<1> QED  BY <1>1, SpecHasInv, PTL

\* A sequence without gaps is determined by its length.
LEMMA WholeSequence ==
  ASSUME NEW s \in Seq(Chunks), InPlace(s, {}), \A c \in Chunks : c \in Values(s)
  PROVE  s = [i \in Chunks |-> i]
<1>1. NumChunks \in Nat /\ NumChunks > 0 /\ NumChunks \in Chunks
  BY TransferAssumption DEF Chunks
<1>2. Len(s) \in Nat /\ s = [i \in 1..Len(s) |-> s[i]]
  BY LenProperties
<1>3. \A i \in 1..Len(s) : s[i] = i
  BY DEF InPlace
<1>4. PICK j \in 1..Len(s) : s[j] = NumChunks
  BY <1>1 DEF Values
<1>5. NumChunks <= Len(s)
  BY <1>2, <1>3, <1>4
<1>6. Len(s) \in Chunks
  <2>1. Len(s) \in 1..Len(s)
    BY <1>1, <1>2, <1>5
  <2> QED  BY <1>3, <2>1, ElementOfSeq
<1>7. 1..Len(s) = Chunks
  BY <1>1, <1>2, <1>5, <1>6 DEF Chunks
<1> QED  BY <1>2, <1>3, <1>7

\* When writeChunks() resolves with the yielding loop, and dispose() was not called, the
\* socket has accepted the whole buffer, for any number of chunks in a tick.
THEOREM ResolvesWhenSent == Spec => []ResolvedMeansSent
<1>1. ASSUME WriteInv, ~Explicit, writer = "resolved", asyncSrt = "live"
      PROVE  sent = [i \in Chunks |-> i]
  <2>1. TypeOK /\ SentInv /\ YieldInv
    BY <1>1 DEF WriteInv
  <2>2. Waiting = {} /\ chunkIndex = NumChunks /\ lost = {}
    BY <1>1, <2>1 DEF YieldInv
  <2>3. Failures = {}
    BY <2>2 DEF Failures, FailedIn, Waiting, ChunksOf
  <2>4. InPlace(sent, {})
    BY <1>1, <2>1, <2>3 DEF SentInv
  <2>5. \A c \in Chunks : c \in Values(sent)
    BY <1>1, <2>1, <2>2, <2>3 DEF SentInv, Chunks, Waiting
  <2> QED  BY <2>1, <2>4, <2>5, WholeSequence DEF TypeOK
<1>2. WriteInv => ResolvedMeansSent
  BY <1>1 DEF ResolvedMeansSent
<1> QED  BY <1>2, SpecHasInv, PTL

LEMMA WiderSeq ==
  ASSUME NEW S, NEW T, S \subseteq T, NEW q \in Seq(S)  PROVE q \in Seq(T)
<1>1. Len(q) \in Nat /\ q \in [1..Len(q) -> S]
  BY LenProperties
<1>2. q \in [1..Len(q) -> T]
  BY <1>1
<1> QED  BY <1>1, <1>2, SeqDef

\* No chunk is twice in a queue.
Apart(q) ==
    \A i, j \in 1..Len(q) : i # j /\ q[i].k \in Chunks /\ q[j].k \in Chunks => q[i].k # q[j].k

LEMMA RisingApart ==
  ASSUME NEW q, Len(q) \in Nat, Rising(q)  PROVE Apart(q)
BY DEF Rising, Apart, Chunks

LEMMA ApartConcat ==
  ASSUME NEW S, NEW p \in Seq(S), NEW q \in Seq(S), Apart(p), Apart(q),
         \A c \in ChunksOf(p) : c \notin ChunksOf(q)
  PROVE  /\ p \o q \in Seq(S) /\ Apart(p \o q)
         /\ \A c : c \in ChunksOf(p \o q) => c \in ChunksOf(p) \/ c \in ChunksOf(q)
<1> DEFINE a == p \o q
<1>1. /\ Len(p) \in Nat /\ Len(q) \in Nat /\ Len(a) = Len(p) + Len(q) /\ a \in Seq(S)
      /\ \A i \in 1..Len(a) : i <= Len(p) => a[i] = p[i]
      /\ \A i \in 1..Len(a) : i > Len(p) => a[i] = q[i - Len(p)]
  BY ConcatProperties, LenProperties
<1> HIDE DEF a
<1>2. \A i \in 1..Len(a) : \/ i \in 1..Len(p) /\ a[i] = p[i]
                           \/ i - Len(p) \in 1..Len(q) /\ a[i] = q[i - Len(p)]
  BY <1>1
<1>3. ASSUME NEW i \in 1..Len(a), NEW j \in 1..Len(a), i # j, a[i].k \in Chunks, a[i].k = a[j].k
      PROVE  FALSE
  <2>1. CASE i \in 1..Len(p) /\ a[i] = p[i] /\ j \in 1..Len(p) /\ a[j] = p[j]
    BY <1>3, <2>1 DEF Apart
  <2>2. CASE i \in 1..Len(p) /\ a[i] = p[i] /\ j - Len(p) \in 1..Len(q) /\ a[j] = q[j - Len(p)]
    BY <1>3, <2>2 DEF ChunksOf
  <2>3. CASE i - Len(p) \in 1..Len(q) /\ a[i] = q[i - Len(p)] /\ j \in 1..Len(p) /\ a[j] = p[j]
    BY <1>3, <2>3 DEF ChunksOf
  <2>4. CASE /\ i - Len(p) \in 1..Len(q) /\ a[i] = q[i - Len(p)]
             /\ j - Len(p) \in 1..Len(q) /\ a[j] = q[j - Len(p)]
    <3>1. i - Len(p) # j - Len(p)
      BY <1>1, <1>3
    <3> QED  BY <1>3, <2>4, <3>1 DEF Apart
  <2> QED  BY <1>2, <2>1, <2>2, <2>3, <2>4
<1>4. Apart(a)
  BY <1>3 DEF Apart
<1>5. \A c : c \in ChunksOf(a) => c \in ChunksOf(p) \/ c \in ChunksOf(q)
  BY <1>2 DEF ChunksOf
<1> QED  BY <1>1, <1>4, <1>5 DEF a

\* The yielding loop has writesPerTick writes in flight at most, for any number of chunks.
THEOREM TickBound == Spec => []TicksAreBounded
<1>1. ASSUME WriteInv, ~Explicit  PROVE Cardinality(WritesInFlight) <= WritesPerTick
  <2> DEFINE S == CallSet \union ResumptionSet
             q == InFlight \o resumed
             T == (chunkIndex - WritesPerTick + 1)..chunkIndex
             f == [i \in WritesInFlight |-> q[i].k]
  <2>1. TypeOK /\ LoopTypeOK /\ OrderInv /\ WrittenInv /\ YieldInv
    BY <1>1 DEF WriteInv
  <2>2. answers \in Seq(S) /\ calls \in Seq(S) /\ resumed \in Seq(S)
    BY <2>1, WiderSeq DEF LoopTypeOK
  <2>3. /\ Rising(resumed) /\ Rising(answers) /\ Rising(calls)
        /\ Precede(ChunksOf(resumed), ChunksOf(answers))
        /\ Precede(ChunksOf(resumed), ChunksOf(calls))
        /\ Precede(ChunksOf(answers), ChunksOf(calls))
    BY <1>1, <2>1 DEF WrittenInv, OrderInv
  <2>4. Apart(resumed) /\ Apart(answers) /\ Apart(calls)
    BY <2>2, <2>3, RisingApart, LenProperties
  <2> HIDE DEF S
  <2>5. /\ InFlight \in Seq(S) /\ Apart(InFlight)
        /\ \A c : c \in ChunksOf(InFlight) => c \in ChunksOf(answers) \/ c \in ChunksOf(calls)
    <3>1. \A c \in ChunksOf(answers) : c \notin ChunksOf(calls)
      BY <2>3 DEF Precede, ChunksOf, Chunks
    <3> QED  BY <2>2, <2>4, <3>1, ApartConcat DEF InFlight
  <2>6. q \in Seq(S) /\ Apart(q) /\ \A c : c \in ChunksOf(q) => c \in Waiting
    <3>1. \A c \in ChunksOf(InFlight) : c \notin ChunksOf(resumed)
      BY <2>3, <2>5 DEF Precede, ChunksOf, Chunks
    <3>2. /\ q \in Seq(S) /\ Apart(q)
          /\ \A c : c \in ChunksOf(q) => c \in ChunksOf(InFlight) \/ c \in ChunksOf(resumed)
      BY <2>2, <2>4, <2>5, <3>1, ApartConcat
    <3> QED  BY <2>5, <3>2 DEF Waiting
  <2>7. chunkIndex \in Nat /\ WritesPerTick \in Nat
    BY <2>1, TransferAssumption DEF TypeOK
  <2>8. \A c \in Waiting : c \in T
    <3>1. \A c \in Waiting : c \in Int /\ c <= chunkIndex /\ chunkIndex < c + WritesPerTick
      BY <1>1, <2>1 DEF OrderInv, YieldInv, Waiting, ChunksOf, Chunks
    <3> QED  BY <2>7, <3>1
  <2>9. WritesInFlight = {i \in 1..Len(q) : q[i].k \in Chunks}
    BY DEF WritesInFlight
  <2> HIDE DEF q, T
  <2>10. \A i \in WritesInFlight : q[i].k \in T
    BY <2>6, <2>8, <2>9 DEF ChunksOf
  <2>11. \A i, j \in WritesInFlight : q[i].k = q[j].k => i = j
    BY <2>6, <2>9 DEF Apart
  <2>12. f \in Injection(WritesInFlight, T)
    BY <2>10, <2>11 DEF Injection, IsInjective
  <2>13. IsFiniteSet(T) /\ Cardinality(T) = WritesPerTick
    <3>1. chunkIndex - WritesPerTick + 1 \in Int /\ chunkIndex \in Int
      BY <2>7
    <3>2. /\ IsFiniteSet(T)
          /\ Cardinality(T) = IF chunkIndex - WritesPerTick + 1 > chunkIndex THEN 0
                              ELSE chunkIndex - (chunkIndex - WritesPerTick + 1) + 1
      BY <3>1, FS_Interval DEF T
    <3> QED  BY <2>7, <3>2
  <2> QED  BY <2>12, <2>13, FS_Injection
<1>2. WriteInv => TicksAreBounded
  BY <1>1 DEF TicksAreBounded
<1> QED  BY <1>2, SpecHasInv, PTL

=============================================================================
