--------------------------- MODULE LogStoreProofs ---------------------------
(***************************************************************************)
(* Proofs about the raft log on disk: its files follow each other without  *)
(* hole or overlap through appending, truncation, compaction and loading;  *)
(* what has been declared durable is on disk; the last entry is the last.  *)
(***************************************************************************)
EXTENDS LogStore, IntervalInduction, SequenceTheorems, TLAPS

-----------------------------------------------------------------------------
(* Segments and stores.                                                    *)

Seg(i, es, n, b) == [first |-> i, entries |-> es, synced |-> n, named |-> b]

StoreOf(segs, open, first, last, aside) ==
    [segments |-> segs, open |-> open, first |-> first, last |-> last, set_aside |-> aside]

\* A file: at most SegmentSize entries, of which some have been synced.
IsSegment(s) ==
    /\ s \in [first : Nat \ {0}, entries : Seq(Entries), synced : Nat, named : BOOLEAN]
    /\ Len(s.entries) <= SegmentSize
    /\ s.synced <= Len(s.entries)

\* Closed segments hold entries and follow each other.
Chained(segs) ==
    /\ segs \in Seq([first : Nat \ {0}, entries : Seq(Entries), synced : Nat, named : BOOLEAN])
    /\ \A k \in 1 .. Len(segs) : IsSegment(segs[k]) /\ segs[k].entries # <<>>
    /\ \A k \in 1 .. Len(segs) - 1 : segs[k + 1].first = LastIndex(segs[k]) + 1
    /\ \A j, k \in 1 .. Len(segs) : j < k => LastIndex(segs[j]) < segs[k].first

\* The last index of the closed segments of a log that begins at first.
EndOf(segs, first) == IF segs = <<>> THEN first - 1 ELSE LastIndex(segs[Len(segs)])

\* Closed segments, open segment and the two indexes fit together.
Fits(segs, open, first, last) ==
    /\ Chained(segs)
    /\ open = NoSegment \/ IsSegment(open)
    /\ first \in Nat \ {0} /\ last \in Nat
    /\ segs # <<>> => segs[1].first = first
    /\ open = NoSegment => last = EndOf(segs, first)
    /\ open # NoSegment => open.first = EndOf(segs, first) + 1 /\ last = LastIndex(open)

IsStore(st) == st = StoreOf(st.segments, st.open, st.first, st.last, st.set_aside)

IsSeg(s) == s = Seg(s.first, s.entries, s.synced, s.named)

\* Between its calls the store has an open segment or none at all.
OpenThere(st) == st.open = NoSegment => st.segments = <<>>

GoodStore(st) ==
    /\ IsStore(st) /\ st.set_aside \in BOOLEAN
    /\ Fits(st.segments, st.open, st.first, st.last)

LEMMA SegFields ==
  ASSUME NEW i, NEW es, NEW n, NEW b
  PROVE  /\ Seg(i, es, n, b).first = i /\ Seg(i, es, n, b).entries = es
         /\ Seg(i, es, n, b).synced = n /\ Seg(i, es, n, b).named = b
  BY DEF Seg

LEMMA StoreFields ==
  ASSUME NEW segs, NEW open, NEW first, NEW last, NEW aside
  PROVE  LET st == StoreOf(segs, open, first, last, aside)
         IN  /\ st.segments = segs /\ st.open = open /\ st.first = first /\ st.last = last
             /\ st.set_aside = aside /\ IsStore(st)
  BY DEF StoreOf, IsStore

(* A store or a segment with fields that are changed one after the other.  *)
LEMMA StoreExceptOpen ==
  ASSUME NEW st, IsStore(st), NEW open
  PROVE  [st EXCEPT !.open = open] = StoreOf(st.segments, open, st.first, st.last, st.set_aside)
BY DEF IsStore, StoreOf

LEMMA StoreExceptTwo ==
  ASSUME NEW st, IsStore(st), NEW segs, NEW open
  PROVE  [st EXCEPT !.segments = segs, !.open = open]
           = StoreOf(segs, open, st.first, st.last, st.set_aside)
<1> DEFINE a == [st EXCEPT !.segments = segs]
<1>1. a = StoreOf(segs, st.open, st.first, st.last, st.set_aside)
  BY DEF IsStore, StoreOf
<1>2. [st EXCEPT !.segments = segs, !.open = open] = [a EXCEPT !.open = open]
  OBVIOUS
<1> HIDE DEF a
<1>3. [a EXCEPT !.open = open] = StoreOf(segs, open, st.first, st.last, st.set_aside)
  BY <1>1 DEF StoreOf
<1>. QED BY <1>2, <1>3

LEMMA StoreExceptThree ==
  ASSUME NEW st, IsStore(st), NEW segs, NEW open, NEW last
  PROVE  [st EXCEPT !.segments = segs, !.open = open, !.last = last]
           = StoreOf(segs, open, st.first, last, st.set_aside)
<1> DEFINE a == [st EXCEPT !.segments = segs, !.open = open]
<1>1. a = StoreOf(segs, open, st.first, st.last, st.set_aside)
  BY StoreExceptTwo
<1>2. [st EXCEPT !.segments = segs, !.open = open, !.last = last] = [a EXCEPT !.last = last]
  OBVIOUS
<1> HIDE DEF a
<1>3. [a EXCEPT !.last = last] = StoreOf(segs, open, st.first, last, st.set_aside)
  BY <1>1 DEF StoreOf
<1>. QED BY <1>2, <1>3

LEMMA StoreExceptFour ==
  ASSUME NEW st, IsStore(st), NEW segs, NEW open, NEW first, NEW last,
         NEW t, t = [st EXCEPT !.segments = segs, !.open = open, !.first = first, !.last = last]
  PROVE  t = StoreOf(segs, open, first, last, st.set_aside)
<1> DEFINE a == [st EXCEPT !.segments = segs, !.open = open]
           b == [a EXCEPT !.first = first]
<1>1. a = StoreOf(segs, open, st.first, st.last, st.set_aside)
  BY StoreExceptTwo
<1>2. [st EXCEPT !.segments = segs, !.open = open, !.first = first, !.last = last]
        = [b EXCEPT !.last = last]
  OBVIOUS
<1> HIDE DEF a
<1>3. b = StoreOf(segs, open, first, st.last, st.set_aside)
  BY <1>1 DEF StoreOf
<1> HIDE DEF b
<1>4. [b EXCEPT !.last = last] = StoreOf(segs, open, first, last, st.set_aside)
  BY <1>3 DEF StoreOf
<1>. QED BY <1>2, <1>4

LEMMA SegExceptEntries ==
  ASSUME NEW s, IsSeg(s), NEW es
  PROVE  [s EXCEPT !.entries = es] = Seg(s.first, es, s.synced, s.named)
BY DEF IsSeg, Seg

LEMMA SegExceptSynced ==
  ASSUME NEW s, IsSeg(s), NEW n
  PROVE  [s EXCEPT !.synced = n] = Seg(s.first, s.entries, n, s.named)
BY DEF IsSeg, Seg

LEMMA SegExceptNamed ==
  ASSUME NEW s, IsSeg(s), NEW b
  PROVE  [s EXCEPT !.named = b] = Seg(s.first, s.entries, s.synced, b)
BY DEF IsSeg, Seg

LEMMA SegExceptTwo ==
  ASSUME NEW s, IsSeg(s), NEW es, NEW n
  PROVE  [s EXCEPT !.entries = es, !.synced = n] = Seg(s.first, es, n, s.named)
<1> DEFINE a == [s EXCEPT !.entries = es]
<1>1. a = Seg(s.first, es, s.synced, s.named)
  BY DEF IsSeg, Seg
<1>2. [s EXCEPT !.entries = es, !.synced = n] = [a EXCEPT !.synced = n]
  OBVIOUS
<1> HIDE DEF a
<1>3. [a EXCEPT !.synced = n] = Seg(s.first, es, n, s.named)
  BY <1>1 DEF Seg
<1>. QED BY <1>2, <1>3

LEMMA SegExceptThree ==
  ASSUME NEW s, IsSeg(s), NEW es, NEW n, NEW b,
         NEW t, t = [s EXCEPT !.entries = es, !.synced = n, !.named = b]
  PROVE  t = Seg(s.first, es, n, b)
<1> DEFINE a == [s EXCEPT !.entries = es, !.synced = n]
<1>1. a = Seg(s.first, es, n, s.named)
  BY SegExceptTwo
<1>2. [s EXCEPT !.entries = es, !.synced = n, !.named = b] = [a EXCEPT !.named = b]
  OBVIOUS
<1> HIDE DEF a
<1>3. [a EXCEPT !.named = b] = Seg(s.first, es, n, b)
  BY <1>1 DEF Seg
<1>. QED BY <1>2, <1>3

(* A segment is its four fields, and no segment is the absent one.         *)
LEMMA SegmentIs ==
  ASSUME NEW s, IsSegment(s)
  PROVE  /\ IsSeg(s) /\ s # NoSegment
         /\ s.first \in Nat \ {0} /\ s.entries \in Seq(Entries) /\ s.synced \in Nat
         /\ s.named \in BOOLEAN
         /\ Len(s.entries) \in Nat /\ Len(s.entries) <= SegmentSize
         /\ s.synced <= Len(s.entries)
         /\ LastIndex(s) \in Nat /\ LastIndex(s) = s.first + Len(s.entries) - 1
         /\ s.entries # <<>> => LastIndex(s) >= s.first /\ Len(s.entries) > 0
         /\ s.entries = <<>> => LastIndex(s) = s.first - 1 /\ Len(s.entries) = 0
<1>1. /\ s.first \in Nat \ {0} /\ s.entries \in Seq(Entries) /\ s.synced \in Nat
      /\ s.named \in BOOLEAN /\ IsSeg(s)
      /\ Len(s.entries) <= SegmentSize /\ s.synced <= Len(s.entries)
  BY DEF IsSegment, IsSeg, Seg
<1>2. Len(s.entries) \in Nat /\ (s.entries # <<>> => Len(s.entries) > 0)
      /\ (s.entries = <<>> => Len(s.entries) = 0)
  BY <1>1
<1>3. NoSegment.first = 0
  BY DEF NoSegment, NewSegment
<1>. QED BY <1>1, <1>2, <1>3 DEF LastIndex

LEMMA SegmentMade ==
  ASSUME NEW i \in Nat \ {0}, NEW es \in Seq(Entries), NEW n \in Nat, NEW b \in BOOLEAN,
         Len(es) <= SegmentSize, n <= Len(es)
  PROVE  IsSegment(Seg(i, es, n, b)) /\ LastIndex(Seg(i, es, n, b)) = i + Len(es) - 1
  BY DEF IsSegment, Seg, LastIndex

(* A new file.                                                             *)
LEMMA NewSegmentMade ==
  ASSUME NEW i \in Nat \ {0}
  PROVE  /\ NewSegment(i) = Seg(i, <<>>, 0, TRUE) /\ IsSegment(NewSegment(i))
         /\ NewSegment(i) # NoSegment /\ NewSegment(i).first = i
         /\ NewSegment(i).entries = <<>> /\ NewSegment(i).synced = 0
         /\ LastIndex(NewSegment(i)) = i - 1
<1>1. NewSegment(i) = Seg(i, <<>>, 0, TRUE)
  BY DEF NewSegment, Seg
<1>2. <<>> \in Seq(Entries) /\ Len(<<>>) = 0 /\ 0 <= SegmentSize /\ SegmentSize \in Nat
  BY LogStoreAssumption
<1>3. IsSegment(Seg(i, <<>>, 0, TRUE)) /\ LastIndex(Seg(i, <<>>, 0, TRUE)) = i + 0 - 1
  BY <1>2 DEF IsSegment, Seg, LastIndex
<1>4. NewSegment(i) # NoSegment
  BY <1>1, <1>3, SegmentIs
<1>5. NewSegment(i).first = i /\ NewSegment(i).entries = <<>> /\ NewSegment(i).synced = 0
  BY DEF NewSegment
<1>6. LastIndex(NewSegment(i)) = i - 1
  BY <1>2, <1>5 DEF LastIndex
<1>7. IsSegment(NewSegment(i))
  BY <1>1, <1>3
<1>. QED BY <1>1, <1>4, <1>5, <1>6, <1>7

(* The absent segment ends below every index.                              *)
LEMMA NoSegmentIs ==
  /\ NoSegment.first = 0 /\ NoSegment.entries = <<>> /\ LastIndex(NoSegment) = -1
  /\ NoSegment.synced = 0 /\ \A i : ~Holds(NoSegment, i)
  BY DEF NoSegment, NewSegment, LastIndex, Holds

-----------------------------------------------------------------------------
(* What erasing leaves.                                                    *)

LEMMA RemainingIs ==
  ASSUME NEW segs, Len(segs) \in Nat, NEW ks, NEW w,
         w[0] = <<>>,
         \A n \in 1 .. Len(segs) :
             w[n] = IF n \in ks THEN Append(w[n - 1], segs[n]) ELSE w[n - 1]
  PROVE  Remaining(segs, ks) = w[Len(segs)]
<1> DEFINE L == Len(segs)
           Unrolls(g) == g = [n \in 0 .. L |->
                                IF n = 0 THEN <<>>
                                ELSE IF n \in ks THEN Append(g[n - 1], segs[n])
                                ELSE g[n - 1]]
           u == CHOOSE g : Unrolls(g)
           v == [n \in 0 .. L |-> w[n]]
<1>1. Unrolls(v)
  <2>1. ASSUME NEW n \in 0 .. L
        PROVE  v[n] = IF n = 0 THEN <<>>
                      ELSE IF n \in ks THEN Append(v[n - 1], segs[n]) ELSE v[n - 1]
    <3>1. CASE n = 0
      BY <3>1
    <3>2. CASE n # 0
      <4>1. n \in 1 .. L /\ n - 1 \in 0 .. L
        BY <3>2
      <4>2. v[n] = w[n] /\ v[n - 1] = w[n - 1]
        BY <4>1
      <4>. QED BY <3>2, <4>1, <4>2
    <3>. QED BY <3>1, <3>2
  <2>. QED BY <2>1
<1>2. Unrolls(u)
  <2> HIDE DEF Unrolls
  <2>. QED BY <1>1
<1>3. Remaining(segs, ks) = u[L]
  BY DEF Remaining
<1> DEFINE T == {n \in 0 .. L : u[n] = w[n]}
<1>4. 0 \in T
  <2>1. u[0] = <<>>
    <3> HIDE DEF u
    <3>. QED BY <1>2
  <2>. QED BY <2>1
<1>5. ASSUME NEW n \in 0 .. L - 1, n \in T PROVE n + 1 \in T
  <2>1. n + 1 \in 1 .. L /\ n + 1 \in 0 .. L /\ (n + 1) - 1 = n /\ n + 1 # 0
    OBVIOUS
  <2>2. u[n + 1] = IF n + 1 \in ks THEN Append(u[n], segs[n + 1]) ELSE u[n]
    <3> HIDE DEF u
    <3>. QED BY <1>2, <2>1
  <2>3. u[n] = w[n]
    BY <1>5
  <2>4. w[n + 1] = IF n + 1 \in ks THEN Append(w[n], segs[n + 1]) ELSE w[n]
    BY <2>1
  <2> HIDE DEF u, v
  <2>. QED BY <2>1, <2>2, <2>3, <2>4
<1> HIDE DEF T, u
<1>6. \A n \in 0 .. L : n \in T
  BY <1>4, <1>5, UpTo
<1>. QED BY <1>3, <1>6 DEF T

(* Of a first part of the positions, the sequence up to there.             *)
LEMMA RemainingFirst ==
  ASSUME NEW S, NEW segs \in Seq(S), NEW ks, NEW m \in 0 .. Len(segs),
         \A n \in 1 .. Len(segs) : n \in ks <=> n <= m
  PROVE  Remaining(segs, ks) = SubSeq(segs, 1, m)
<1> DEFINE w == [n \in 0 .. Len(segs) |-> SubSeq(segs, 1, IF n <= m THEN n ELSE m)]
<1>1. Len(segs) \in Nat
  OBVIOUS
<1>2. w[0] = <<>>
  BY <1>1, SubSeqEmpty
<1>3. ASSUME NEW n \in 1 .. Len(segs)
      PROVE  w[n] = IF n \in ks THEN Append(w[n - 1], segs[n]) ELSE w[n - 1]
  <2>0. n - 1 \in 0 .. Len(segs) /\ n \in 0 .. Len(segs)
    BY <1>1
  <2>1. CASE n <= m
    <3>1. w[n] = SubSeq(segs, 1, n) /\ w[n - 1] = SubSeq(segs, 1, n - 1) /\ n \in ks
      BY <2>0, <2>1
    <3>2. SubSeq(segs, 1, n) = Append(SubSeq(segs, 1, n - 1), segs[n])
      OBVIOUS
    <3>. QED BY <3>1, <3>2
  <2>2. CASE ~(n <= m)
    <3>1. w[n] = SubSeq(segs, 1, m) /\ w[n - 1] = SubSeq(segs, 1, m) /\ n \notin ks
      <4>1. CASE n - 1 = m
        BY <2>0, <2>2, <4>1
      <4>2. CASE n - 1 > m
        BY <2>0, <2>2, <4>2
      <4>. QED BY <2>2, <4>1, <4>2
    <3>. QED BY <3>1
  <2>. QED BY <2>1, <2>2
<1> HIDE DEF w
<1>4. Remaining(segs, ks) = w[Len(segs)]
  BY <1>1, <1>2, <1>3, RemainingIs
<1>. QED BY <1>1, <1>4 DEF w

(* Of a last part of the positions, the sequence from there on.            *)
LEMMA RemainingLast ==
  ASSUME NEW S, NEW segs \in Seq(S), NEW ks, NEW m \in 0 .. Len(segs),
         \A n \in 1 .. Len(segs) : n \in ks <=> n > m
  PROVE  Remaining(segs, ks) = SubSeq(segs, m + 1, Len(segs))
<1> DEFINE w == [n \in 0 .. Len(segs) |-> SubSeq(segs, m + 1, n)]
<1>1. Len(segs) \in Nat
  OBVIOUS
<1>2. w[0] = <<>>
  BY <1>1, SubSeqEmpty
<1>3. ASSUME NEW n \in 1 .. Len(segs)
      PROVE  w[n] = IF n \in ks THEN Append(w[n - 1], segs[n]) ELSE w[n - 1]
  <2>0. n - 1 \in 0 .. Len(segs) /\ n \in 0 .. Len(segs)
    BY <1>1
  <2>1. CASE n <= m
    <3>1. w[n] = <<>> /\ w[n - 1] = <<>> /\ n \notin ks
      BY <2>0, <2>1, SubSeqEmpty
    <3>. QED BY <3>1
  <2>2. CASE n > m
    <3>1. w[n] = SubSeq(segs, m + 1, n) /\ w[n - 1] = SubSeq(segs, m + 1, n - 1) /\ n \in ks
      BY <2>0, <2>2
    <3>2. SubSeq(segs, m + 1, n) = Append(SubSeq(segs, m + 1, n - 1), segs[n])
      BY <2>2
    <3>. QED BY <3>1, <3>2
  <2>. QED BY <2>1, <2>2
<1> HIDE DEF w
<1>4. Remaining(segs, ks) = w[Len(segs)]
  BY <1>1, <1>2, <1>3, RemainingIs
<1>. QED BY <1>1, <1>4 DEF w

-----------------------------------------------------------------------------
(* Chains of closed segments.                                              *)

LEMMA ChainedSegments ==
  ASSUME NEW segs, Chained(segs)
  PROVE  /\ Len(segs) \in Nat
         /\ \A k \in 1 .. Len(segs) :
                /\ IsSegment(segs[k]) /\ segs[k] # NoSegment /\ segs[k].entries # <<>>
                /\ segs[k].first \in Nat \ {0} /\ LastIndex(segs[k]) \in Nat
                /\ segs[k].first <= LastIndex(segs[k])
         /\ \A j, k \in 1 .. Len(segs) : j < k => LastIndex(segs[j]) < LastIndex(segs[k])
<1>1. Len(segs) \in Nat
  BY DEF Chained
<1>2. ASSUME NEW k \in 1 .. Len(segs)
      PROVE  /\ IsSegment(segs[k]) /\ segs[k] # NoSegment /\ segs[k].entries # <<>>
             /\ segs[k].first \in Nat \ {0} /\ LastIndex(segs[k]) \in Nat
             /\ segs[k].first <= LastIndex(segs[k])
  <2>1. IsSegment(segs[k]) /\ segs[k].entries # <<>>
    BY DEF Chained
  <2>. QED BY <2>1, SegmentIs
<1>3. ASSUME NEW j \in 1 .. Len(segs), NEW k \in 1 .. Len(segs), j < k
      PROVE  LastIndex(segs[j]) < LastIndex(segs[k])
  <2>1. LastIndex(segs[j]) < segs[k].first
    BY <1>3 DEF Chained
  <2>. QED BY <1>2, <2>1
<1>. QED BY <1>1, <1>2, <1>3

(* The closed segments lie between the first index and their end.          *)
LEMMA EndBounds ==
  ASSUME NEW segs, Chained(segs), NEW first \in Nat \ {0},
         segs # <<>> => segs[1].first = first
  PROVE  /\ EndOf(segs, first) \in Nat /\ EndOf(segs, first) >= first - 1
         /\ segs # <<>> => EndOf(segs, first) >= first
         /\ \A k \in 1 .. Len(segs) :
                first <= segs[k].first /\ LastIndex(segs[k]) <= EndOf(segs, first)
<1>1. CASE segs = <<>>
  BY <1>1 DEF EndOf
<1>2. CASE segs # <<>>
  <2>1. Len(segs) \in Nat /\ Len(segs) > 0 /\ 1 \in 1 .. Len(segs) /\ Len(segs) \in 1 .. Len(segs)
    BY <1>2 DEF Chained
  <2>2. EndOf(segs, first) = LastIndex(segs[Len(segs)])
    BY <1>2 DEF EndOf
  <2>3. EndOf(segs, first) \in Nat
    BY <2>1, <2>2, ChainedSegments
  <2>4. ASSUME NEW k \in 1 .. Len(segs)
        PROVE  first <= segs[k].first /\ LastIndex(segs[k]) <= EndOf(segs, first)
    <3>1. LastIndex(segs[k]) <= EndOf(segs, first)
      <4>1. CASE k = Len(segs)
        BY <2>2, <2>3, <4>1
      <4>2. CASE k # Len(segs)
        <5>1. k < Len(segs)
          BY <2>1, <4>2
        <5>2. LastIndex(segs[k]) < LastIndex(segs[Len(segs)])
          BY <2>1, <5>1, ChainedSegments
        <5>3. LastIndex(segs[k]) \in Nat
          BY ChainedSegments
        <5>. QED BY <2>2, <2>3, <5>2, <5>3
      <4>. QED BY <4>1, <4>2
    <3>2. first <= segs[k].first
      <4>1. CASE k = 1
        BY <1>2, <4>1
      <4>2. CASE k # 1
        <5>1. 1 < k
          BY <2>1, <4>2
        <5>2. LastIndex(segs[1]) < segs[k].first
          BY <2>1, <5>1 DEF Chained
        <5>3. segs[1].first <= LastIndex(segs[1]) /\ LastIndex(segs[1]) \in Nat
              /\ segs[k].first \in Nat
          BY <2>1, ChainedSegments
        <5>. QED BY <1>2, <5>2, <5>3
      <4>. QED BY <4>1, <4>2
    <3>. QED BY <3>1, <3>2
  <2>5. EndOf(segs, first) >= first
    <3>1. /\ first <= segs[1].first /\ LastIndex(segs[1]) <= EndOf(segs, first)
          /\ segs[1].first <= LastIndex(segs[1]) /\ LastIndex(segs[1]) \in Nat
      BY <2>1, <2>4, ChainedSegments
    <3>2. segs[1].first = first
      BY <1>2
    <3>. QED BY <2>3, <3>1, <3>2
  <2>. QED BY <1>2, <2>3, <2>4, <2>5
<1>. QED BY <1>1, <1>2

(* A part of a chain is one.                                               *)
LEMMA PartChained ==
  ASSUME NEW segs, Chained(segs), NEW m \in 1 .. Len(segs) + 1, NEW n \in 0 .. Len(segs)
  PROVE  /\ Chained(SubSeq(segs, m, n))
         /\ m <= n => /\ Len(SubSeq(segs, m, n)) = n - m + 1
                      /\ SubSeq(segs, m, n)[1] = segs[m]
                      /\ SubSeq(segs, m, n)[n - m + 1] = segs[n]
                      /\ SubSeq(segs, m, n) # <<>>
         /\ m > n => SubSeq(segs, m, n) = <<>>
<1> DEFINE S == [first : Nat \ {0}, entries : Seq(Entries), synced : Nat, named : BOOLEAN]
           t == SubSeq(segs, m, n)
<1>1. segs \in Seq(S) /\ Len(segs) \in Nat
  BY DEF Chained
<1>2. CASE m > n
  <2>1. t = <<>> /\ Len(t) = 0
    BY <1>1, <1>2, SubSeqEmpty
  <2>2. Chained(t)
    BY <2>1 DEF Chained
  <2>. QED BY <1>1, <1>2, <2>1, <2>2
<1>3. CASE m <= n
  <2> HIDE DEF S
  <2>1. /\ t \in Seq(S) /\ Len(t) = n - m + 1
        /\ \A i \in 1 .. n - m + 1 : t[i] = segs[m + i - 1]
    <3>1. \A i \in m .. n : segs[i] \in S
      BY <1>1, ElementOfSeq
    <3>. QED BY <1>1, <1>3, <3>1, SubSeqProperties
  <2> HIDE DEF t
  <2>2. ASSUME NEW k \in 1 .. Len(t)
        PROVE  IsSegment(t[k]) /\ t[k].entries # <<>>
    <3>1. m + k - 1 \in 1 .. Len(segs) /\ t[k] = segs[m + k - 1]
      BY <1>1, <2>1
    <3>. QED BY <3>1 DEF Chained
  <2>3. ASSUME NEW k \in 1 .. Len(t) - 1
        PROVE  t[k + 1].first = LastIndex(t[k]) + 1
    <3>1. /\ m + k - 1 \in 1 .. Len(segs) - 1 /\ t[k] = segs[m + k - 1]
          /\ t[k + 1] = segs[(m + k - 1) + 1]
      BY <1>1, <2>1
    <3>. QED BY <3>1 DEF Chained
  <2>4. ASSUME NEW j \in 1 .. Len(t), NEW k \in 1 .. Len(t), j < k
        PROVE  LastIndex(t[j]) < t[k].first
    <3>1. /\ m + k - 1 \in 1 .. Len(segs) /\ t[k] = segs[m + k - 1]
          /\ m + j - 1 \in 1 .. Len(segs) /\ t[j] = segs[m + j - 1]
          /\ m + j - 1 < m + k - 1
      BY <1>1, <2>1, <2>4, SMTT(30)
    <3>. QED BY <3>1 DEF Chained
  <2>5. Chained(t)
    BY <2>1, <2>2, <2>3, <2>4 DEF Chained, S
  <2>6. t[1] = segs[m] /\ t[n - m + 1] = segs[n] /\ t # <<>>
    BY <1>1, <1>3, <2>1
  <2>. QED BY <1>1, <1>3, <2>1, <2>5, <2>6 DEF t
<1>4. m > n \/ m <= n
  BY <1>1
<1> HIDE DEF S, t
<1>. QED BY <1>2, <1>3, <1>4

LEMMA FrontChained ==
  ASSUME NEW segs, Chained(segs), NEW n \in 0 .. Len(segs)
  PROVE  LET t == SubSeq(segs, 1, n)
         IN  /\ Chained(t) /\ Len(t) = n
             /\ n > 0 => t # <<>> /\ t[1] = segs[1] /\ t[n] = segs[n]
             /\ n = 0 => t = <<>>
<1>1. Len(segs) \in Nat
  BY DEF Chained
<1>2. PICK m \in 1 .. Len(segs) + 1 : m = 1
  BY <1>1
<1>3. /\ Chained(SubSeq(segs, m, n))
      /\ m <= n => /\ Len(SubSeq(segs, m, n)) = n - m + 1
                   /\ SubSeq(segs, m, n)[1] = segs[m]
                   /\ SubSeq(segs, m, n)[n - m + 1] = segs[n]
                   /\ SubSeq(segs, m, n) # <<>>
      /\ m > n => SubSeq(segs, m, n) = <<>>
  BY PartChained
<1> DEFINE t == SubSeq(segs, 1, n)
<1>4. t = SubSeq(segs, m, n)
  BY <1>2
<1>5. CASE n = 0
  <2>1. t = <<>> /\ Len(<<>>) = 0
    BY <1>2, <1>3, <1>4, <1>5
  <2>2. Chained(t) /\ Len(t) = n
    BY <1>3, <1>4, <1>5, <2>1
  <2>. QED BY <1>5, <2>1, <2>2
<1>6. CASE n > 0
  <2>1. 1 <= n /\ n - 1 + 1 = n
    BY <1>1, <1>6
  <2> HIDE DEF t
  <2>. QED BY <1>1, <1>2, <1>3, <1>4, <1>6, <2>1 DEF t
<1>. QED BY <1>1, <1>5, <1>6

LEMMA BackChained ==
  ASSUME NEW segs, Chained(segs), NEW m \in 0 .. Len(segs)
  PROVE  LET t == SubSeq(segs, m + 1, Len(segs))
         IN  /\ Chained(t) /\ Len(t) = Len(segs) - m
             /\ m < Len(segs) => /\ t # <<>> /\ t[1] = segs[m + 1]
                                 /\ t[Len(t)] = segs[Len(segs)]
             /\ m = Len(segs) => t = <<>>
<1>1. Len(segs) \in Nat
  BY DEF Chained
<1>2. PICK n \in 1 .. Len(segs) + 1, ll \in 0 .. Len(segs) : n = m + 1 /\ ll = Len(segs)
  BY <1>1
<1>3. /\ Chained(SubSeq(segs, n, ll))
      /\ n <= ll => /\ Len(SubSeq(segs, n, ll)) = ll - n + 1
                    /\ SubSeq(segs, n, ll)[1] = segs[n]
                    /\ SubSeq(segs, n, ll)[ll - n + 1] = segs[ll]
                    /\ SubSeq(segs, n, ll) # <<>>
      /\ n > ll => SubSeq(segs, n, ll) = <<>>
  BY PartChained
<1> DEFINE t == SubSeq(segs, m + 1, Len(segs))
<1>4. t = SubSeq(segs, n, ll)
  BY <1>2
<1> HIDE DEF t
<1>5. CASE m = Len(segs)
  <2>1. t = <<>> /\ Len(<<>>) = 0
    BY <1>1, <1>2, <1>3, <1>4, <1>5
  <2>2. Chained(t) /\ Len(t) = Len(segs) - m
    BY <1>1, <1>3, <1>4, <1>5, <2>1
  <2>. QED BY <1>1, <1>5, <2>1, <2>2 DEF t
<1>6. CASE m < Len(segs)
  <2>1. n <= ll /\ ll - n + 1 = Len(segs) - m
    BY <1>1, <1>2, <1>6
  <2>. QED BY <1>1, <1>2, <1>3, <1>4, <1>6, <2>1 DEF t
<1>7. m = Len(segs) \/ m < Len(segs)
  BY <1>1
<1>. QED BY <1>5, <1>6, <1>7

(* Closing a segment that holds entries continues the chain.               *)
LEMMA AppendChained ==
  ASSUME NEW segs, Chained(segs), NEW first \in Nat \ {0},
         segs # <<>> => segs[1].first = first,
         NEW s, IsSegment(s), s.entries # <<>>, s.first = EndOf(segs, first) + 1
  PROVE  /\ Chained(Append(segs, s)) /\ Append(segs, s) # <<>>
         /\ Append(segs, s)[1].first = first
         /\ Len(Append(segs, s)) = Len(segs) + 1
         /\ EndOf(Append(segs, s), first) = LastIndex(s)
<1> DEFINE S == [first : Nat \ {0}, entries : Seq(Entries), synced : Nat, named : BOOLEAN]
           t == Append(segs, s)
           len == Len(segs)
<1>1. segs \in Seq(S) /\ len \in Nat /\ s \in S
  BY DEF Chained, IsSegment
<1> HIDE DEF S
<1>2. /\ t \in Seq(S) /\ Len(t) = len + 1 /\ t[len + 1] = s
      /\ \A k \in 1 .. len : t[k] = segs[k]
  BY <1>1, AppendProperties
<1> HIDE DEF t
<1>3. ASSUME NEW k \in 1 .. len PROVE LastIndex(segs[k]) < s.first
  <2>1. /\ LastIndex(segs[k]) <= EndOf(segs, first) /\ EndOf(segs, first) \in Nat
        /\ LastIndex(segs[k]) \in Nat
    BY EndBounds, ChainedSegments
  <2>. QED BY <2>1
<1>4. \A k \in 1 .. Len(t) : IsSegment(t[k]) /\ t[k].entries # <<>>
  <2> SUFFICES ASSUME NEW k \in 1 .. Len(t) PROVE IsSegment(t[k]) /\ t[k].entries # <<>>
    OBVIOUS
  <2>1. CASE k = len + 1
    BY <1>2, <2>1
  <2>2. CASE k \in 1 .. len
    <3>1. t[k] = segs[k]
      BY <1>2, <2>2
    <3>. QED BY <3>1, <2>2 DEF Chained
  <2>. QED BY <1>1, <1>2, <2>1, <2>2
<1>5. ASSUME NEW k \in 1 .. Len(t) - 1 PROVE t[k + 1].first = LastIndex(t[k]) + 1
  <2>1. CASE k = len
    <3>1. t[k + 1] = s /\ t[k] = segs[len] /\ segs # <<>>
      BY <1>1, <1>2, <2>1
    <3>. QED BY <3>1 DEF EndOf
  <2>2. CASE k \in 1 .. len - 1
    <3>1. t[k] = segs[k] /\ t[k + 1] = segs[k + 1]
      BY <1>1, <1>2, <2>2
    <3>. QED BY <3>1, <2>2 DEF Chained
  <2>. QED BY <1>1, <1>2, <2>1, <2>2
<1>6. ASSUME NEW j \in 1 .. Len(t), NEW k \in 1 .. Len(t), j < k
      PROVE  LastIndex(t[j]) < t[k].first
  <2>1. j \in 1 .. len /\ t[j] = segs[j]
    BY <1>1, <1>2, <1>6
  <2>2. CASE k = len + 1
    BY <1>2, <1>3, <2>1, <2>2
  <2>3. CASE k \in 1 .. len
    <3>1. t[k] = segs[k]
      BY <1>2, <2>3
    <3>. QED BY <1>6, <2>1, <2>3, <3>1 DEF Chained
  <2>. QED BY <1>1, <1>2, <2>2, <2>3
<1>7. Chained(t)
  BY <1>2, <1>4, <1>5, <1>6 DEF Chained, S
<1>8. t # <<>> /\ EndOf(t, first) = LastIndex(s)
  BY <1>1, <1>2 DEF EndOf
<1>9. t[1].first = first
  <2>1. CASE segs = <<>>
    <3>1. len = 0 /\ t[1] = s
      BY <1>2, <2>1
    <3>. QED BY <2>1, <3>1 DEF EndOf
  <2>2. CASE segs # <<>>
    <3>1. 1 \in 1 .. len
      BY <1>1, <2>2
    <3>. QED BY <1>2, <2>2, <3>1
  <2>. QED BY <2>1, <2>2
<1>. QED BY <1>2, <1>7, <1>8, <1>9 DEF t

-----------------------------------------------------------------------------
(* Appending.                                                              *)

\* What OpenSegment does: the open segment stays, or it is closed and a new one
\* begins behind the last index.
LEMMA OpenSegmentIs ==
  ASSUME NEW st, GoodStore(st)
  PROVE  LET t == OpenSegment(st)
         IN  /\ GoodStore(t) /\ t.first = st.first /\ t.last = st.last
             /\ t.set_aside = st.set_aside
             /\ t.open # NoSegment /\ IsSegment(t.open) /\ ~Full(t.open)
             /\ \/ t = st
                \/ /\ t.open = NewSegment(st.last + 1)
                   /\ \/ st.open = NoSegment /\ t.segments = st.segments
                      \/ /\ st.open # NoSegment /\ st.open.entries # <<>>
                         /\ t.segments = Append(st.segments, st.open)
<1> DEFINE segs == st.segments
           open == st.open
           first == st.first
           last == st.last
           new == NewSegment(last + 1)
<1>0. /\ st = StoreOf(segs, open, first, last, st.set_aside) /\ st.set_aside \in BOOLEAN
      /\ Fits(segs, open, first, last)
      /\ SegmentSize \in Nat \ {0}
  BY LogStoreAssumption DEF GoodStore, IsStore
<1>1. CASE open # NoSegment /\ ~Full(open)
  <2>1. OpenSegment(st) = st
    BY <1>1 DEF OpenSegment
  <2>. QED BY <1>0, <1>1, <2>1 DEF Fits
<1>2. CASE open = NoSegment
  <2>1. OpenSegment(st) = StoreOf(segs, new, first, last, st.set_aside)
    <3>1. OpenSegment(st) = [st EXCEPT !.segments = segs, !.open = new]
      BY <1>2 DEF OpenSegment
    <3>2. IsStore(st)
      BY DEF GoodStore
    <3> HIDE DEF new
    <3>. QED BY <3>1, <3>2, StoreExceptTwo
  <2>2. /\ IsSegment(new) /\ new # NoSegment /\ new.first = last + 1 /\ LastIndex(new) = last
        /\ new.entries = <<>>
    <3>1. last + 1 \in Nat \ {0} /\ last \in Nat
      BY <1>0 DEF Fits
    <3>2. PICK i \in Nat \ {0} : i = last + 1
      BY <3>1
    <3>3. new = NewSegment(i) /\ i - 1 = last
      BY <3>1, <3>2
    <3> HIDE DEF new
    <3>. QED BY <3>2, <3>3, NewSegmentMade
  <2>3. Fits(segs, new, first, last)
    BY <1>0, <1>2, <2>2 DEF Fits
  <2>4. ~Full(new)
    BY <1>0, <2>2 DEF Full
  <2> DEFINE t == OpenSegment(st)
  <2>5. t.segments = segs /\ t.open = new /\ t.first = first /\ t.last = last
        /\ t.set_aside = st.set_aside /\ IsStore(t)
    BY <2>1 DEF StoreOf, IsStore
  <2> HIDE DEF t, new
  <2>6. GoodStore(t)
    BY <1>0, <2>3, <2>5 DEF GoodStore
  <2>. QED BY <1>2, <2>2, <2>4, <2>5, <2>6 DEF t, new
<1>3. CASE open # NoSegment /\ Full(open)
  <2>1. OpenSegment(st) = StoreOf(Append(segs, open), new, first, last, st.set_aside)
    <3>1. OpenSegment(st) = [st EXCEPT !.segments = Append(segs, open), !.open = new]
      BY <1>3 DEF OpenSegment
    <3>2. IsStore(st)
      BY DEF GoodStore
    <3> HIDE DEF new
    <3>. QED BY <3>1, <3>2, StoreExceptTwo
  <2>2. /\ IsSegment(new) /\ new # NoSegment /\ new.first = last + 1 /\ LastIndex(new) = last
        /\ new.entries = <<>>
    <3>1. last + 1 \in Nat \ {0} /\ last \in Nat
      BY <1>0 DEF Fits
    <3>2. PICK i \in Nat \ {0} : i = last + 1
      BY <3>1
    <3>3. new = NewSegment(i) /\ i - 1 = last
      BY <3>1, <3>2
    <3> HIDE DEF new
    <3>. QED BY <3>2, <3>3, NewSegmentMade
  <2>3. /\ IsSegment(open) /\ open.entries # <<>> /\ Chained(segs) /\ first \in Nat \ {0}
        /\ last \in Nat
        /\ segs # <<>> => segs[1].first = first
        /\ open.first = EndOf(segs, first) + 1 /\ last = LastIndex(open)
    <3>1. Len(open.entries) >= SegmentSize
      BY <1>3 DEF Full
    <3>. QED BY <1>0, <1>3, <3>1 DEF Fits
  <2>4. /\ Chained(Append(segs, open)) /\ Append(segs, open)[1].first = first
        /\ EndOf(Append(segs, open), first) = last
    <3>1. PICK f \in Nat \ {0} : f = first
      BY <2>3
    <3> HIDE DEF segs, open, first, last
    <3>2. open.first = EndOf(segs, f) + 1 /\ (segs # <<>> => segs[1].first = f)
      BY <2>3, <3>1
    <3>. QED BY <2>3, <3>1, <3>2, AppendChained
  <2>5. Fits(Append(segs, open), new, first, last)
    BY <2>2, <2>3, <2>4 DEF Fits
  <2>6. ~Full(new)
    BY <1>0, <2>2 DEF Full
  <2> DEFINE t == OpenSegment(st)
  <2>7. t.segments = Append(segs, open) /\ t.open = new /\ t.first = first /\ t.last = last
        /\ t.set_aside = st.set_aside /\ IsStore(t)
    BY <2>1 DEF StoreOf, IsStore
  <2> HIDE DEF t, new
  <2>8. GoodStore(t)
    BY <1>0, <2>5, <2>7 DEF GoodStore
  <2>. QED BY <1>3, <2>2, <2>3, <2>6, <2>7, <2>8 DEF t, new
<1>. QED BY <1>1, <1>2, <1>3

LEMMA AppendEntryIs ==
  ASSUME NEW st, GoodStore(st), NEW e \in Entries
  PROVE  LET o == OpenSegment(st)
             t == AppendEntry(st, e)
         IN  /\ GoodStore(t) /\ t.segments = o.segments
             /\ t.first = st.first /\ t.last = st.last + 1 /\ t.set_aside = st.set_aside
             /\ t.open # NoSegment /\ IsSegment(t.open)
             /\ t.open.first = o.open.first /\ t.open.synced = o.open.synced
             /\ t.open.entries = Append(o.open.entries, e)
             /\ t.open.named = o.open.named
<1> DEFINE o == OpenSegment(st)
           s == o.open
           segs == o.segments
           first == o.first
           last == o.last
           new == Seg(s.first, Append(s.entries, e), s.synced, s.named)
           t == AppendEntry(st, e)
<1>1. /\ GoodStore(o) /\ first = st.first /\ last = st.last /\ o.set_aside = st.set_aside
      /\ s # NoSegment /\ IsSegment(s) /\ ~Full(s)
  BY OpenSegmentIs
<1> HIDE DEF o
<1>2. /\ o = StoreOf(segs, s, first, last, o.set_aside) /\ o.set_aside \in BOOLEAN
      /\ Fits(segs, s, first, last) /\ last = LastIndex(s)
  BY <1>1 DEF GoodStore, IsStore, Fits
<1>3. /\ IsSeg(s)
      /\ s.first \in Nat \ {0} /\ s.entries \in Seq(Entries) /\ s.synced \in Nat
      /\ s.named \in BOOLEAN /\ s.synced <= Len(s.entries) /\ Len(s.entries) \in Nat
      /\ LastIndex(s) = s.first + Len(s.entries) - 1
  BY <1>1, SegmentIs
<1>4. t = StoreOf(segs, new, first, last + 1, o.set_aside)
  <2>1. t = [o EXCEPT !.open.entries = Append(@, e), !.last = LastIndex(s) + 1]
    BY DEF AppendEntry, o
  <2>2. [s EXCEPT !.entries = Append(s.entries, e)] = new
    <3> HIDE DEF s
    <3>. QED BY <1>3, SegExceptEntries
  <2> DEFINE a == [o EXCEPT !.open.entries = Append(@, e)]
  <2>3. a = StoreOf(segs, new, first, last, o.set_aside)
    <3>1. a = [o EXCEPT !.open = [s EXCEPT !.entries = Append(s.entries, e)]]
      OBVIOUS
    <3>2. a = [o EXCEPT !.open = new]
      BY <2>2, <3>1
    <3>3. IsStore(o)
      BY <1>1 DEF GoodStore
    <3> HIDE DEF new, a
    <3>. QED BY <3>2, <3>3, StoreExceptOpen
  <2>4. t = [a EXCEPT !.last = last + 1]
    BY <1>2, <2>1
  <2> HIDE DEF new, a, t, s, segs, first, last
  <2>. QED BY <2>3, <2>4 DEF StoreOf
<1>5. /\ IsSegment(new) /\ new # NoSegment /\ new.first = s.first /\ LastIndex(new) = last + 1
      /\ new.entries = Append(s.entries, e) /\ new.synced = s.synced /\ new.named = s.named
  <2>1. /\ Append(s.entries, e) \in Seq(Entries) /\ Len(Append(s.entries, e)) = Len(s.entries) + 1
    BY <1>3, AppendProperties
  <2>2. Len(s.entries) + 1 <= SegmentSize
    BY <1>1, <1>3, LogStoreAssumption DEF Full
  <2>3. PICK es \in Seq(Entries) : es = Append(s.entries, e)
    BY <2>1
  <2>4. new = Seg(s.first, es, s.synced, s.named)
    BY <2>3
  <2> HIDE DEF new, s, last
  <2>5. IsSegment(new) /\ LastIndex(new) = s.first + Len(es) - 1
    BY <1>3, <2>1, <2>2, <2>3, <2>4 DEF IsSegment, Seg, LastIndex
  <2>6. new # NoSegment
    BY <2>5, SegmentIs
  <2>7. LastIndex(new) = last + 1
    BY <1>2, <1>3, <2>1, <2>3, <2>5
  <2>8. new.first = s.first /\ new.entries = es /\ new.synced = s.synced /\ new.named = s.named
    BY <2>4 DEF Seg
  <2>. QED BY <2>3, <2>5, <2>6, <2>7, <2>8
<1>6. /\ t.segments = segs /\ t.open = new /\ t.first = first /\ t.last = last + 1
      /\ t.set_aside = o.set_aside /\ IsStore(t)
  <2> HIDE DEF new, t, segs, first, last
  <2>. QED BY <1>4 DEF StoreOf, IsStore
<1>7. Fits(segs, new, first, last + 1)
  <2> HIDE DEF new, s, segs, first, last
  <2>. QED BY <1>1, <1>2, <1>5 DEF Fits
<1> HIDE DEF t, new
<1>8. GoodStore(t)
  BY <1>2, <1>6, <1>7 DEF GoodStore
<1> HIDE DEF s, segs, first, last
<1>. QED BY <1>1, <1>5, <1>6, <1>8 DEF o, t, s, segs, first, last

-----------------------------------------------------------------------------
(* Truncation.                                                             *)

(* A file cut behind an index it holds or that lies just before it.        *)
LEMMA TruncateIs ==
  ASSUME NEW s, IsSegment(s), NEW kept \in Nat, s.first <= kept + 1, kept <= LastIndex(s)
  PROVE  LET t == Truncate(s, kept)
         IN  /\ IsSegment(t) /\ t.first = s.first /\ LastIndex(t) = kept
             /\ t.entries = SubSeq(s.entries, 1, kept + 1 - s.first)
             /\ Len(t.entries) = kept + 1 - s.first
             /\ \A k \in 1 .. kept + 1 - s.first : t.entries[k] = s.entries[k]
             /\ t.synced = IF kept + 1 - s.first < s.synced THEN kept + 1 - s.first ELSE s.synced
<1>1. /\ IsSeg(s)
      /\ s.first \in Nat \ {0} /\ s.entries \in Seq(Entries) /\ s.synced \in Nat
      /\ Len(s.entries) \in Nat /\ Len(s.entries) <= SegmentSize /\ s.synced <= Len(s.entries)
      /\ LastIndex(s) = s.first + Len(s.entries) - 1
  BY SegmentIs
<1>2. PICK n \in Nat : n = kept + 1 - s.first
  BY <1>1
<1>3. n <= Len(s.entries)
  BY <1>1, <1>2
<1>4. PICK es \in Seq(Entries) :
          /\ es = SubSeq(s.entries, 1, n) /\ Len(es) = n
          /\ \A k \in 1 .. n : es[k] = s.entries[k]
  <2>1. \A k \in 1 .. n : s.entries[k] \in Entries
    BY <1>1, <1>3, ElementOfSeq
  <2>2. /\ SubSeq(s.entries, 1, n) \in Seq(Entries)
        /\ Len(SubSeq(s.entries, 1, n)) = IF 1 <= n THEN n - 1 + 1 ELSE 0
        /\ \A k \in 1 .. n - 1 + 1 : SubSeq(s.entries, 1, n)[k] = s.entries[1 + k - 1]
    BY <2>1, SubSeqProperties
  <2>3. /\ Len(SubSeq(s.entries, 1, n)) = n
        /\ \A k \in 1 .. n : SubSeq(s.entries, 1, n)[k] = s.entries[k]
    BY <2>2
  <2>. QED BY <2>2, <2>3
<1>5. PICK m : m \in Nat /\ m = (IF n < s.synced THEN n ELSE s.synced) /\ m <= n
  <2>1. (IF n < s.synced THEN n ELSE s.synced) \in Nat
    BY <1>1
  <2>. QED BY <1>1, <2>1
<1> DEFINE t == Truncate(s, kept)
<1>6. t = Seg(s.first, es, m, TRUE)
  <2>1. t = [s EXCEPT !.entries = es, !.synced = m, !.named = TRUE]
    BY <1>2, <1>4, <1>5 DEF Truncate
  <2>2. IsSeg(s)
    BY <1>1
  <2>3. [s EXCEPT !.entries = es, !.synced = m, !.named = TRUE] = Seg(s.first, es, m, TRUE)
    <3> DEFINE b == TRUE
    <3> HIDE DEF b
    <3>1. [s EXCEPT !.entries = es, !.synced = m, !.named = b] = Seg(s.first, es, m, b)
      BY <2>2, SegExceptThree
    <3>. QED BY <3>1 DEF b
  <2> HIDE DEF t
  <2>. QED BY <2>1, <2>3
<1> HIDE DEF t
<1>7. t.first = s.first /\ t.entries = es /\ t.synced = m
  BY <1>6 DEF Seg
<1>8. IsSegment(t)
  BY <1>1, <1>3, <1>4, <1>5, <1>6, LogStoreAssumption DEF IsSegment, Seg
<1>9. LastIndex(t) = kept
  <2>1. LastIndex(t) = t.first + Len(t.entries) - 1
    BY DEF LastIndex
  <2>2. LastIndex(t) = s.first + n - 1
    BY <1>4, <1>7, <2>1
  <2>. QED BY <1>1, <1>2, <2>2
<1>. QED BY <1>2, <1>4, <1>5, <1>7, <1>8, <1>9 DEF t

(* How the log looks when it is cut behind kept: which closed segments are *)
(* left, and what the open one is.                                         *)
LEMMA TruncateLogIs ==
  ASSUME NEW st, GoodStore(st), OpenThere(st), NEW kept, kept \in Nat,
         st.first <= kept + 1, kept < st.last
  PROVE  LET t == TruncateLog(st, kept)
         IN  /\ GoodStore(t) /\ t.first = st.first /\ t.last = kept
             /\ t.set_aside = st.set_aside
             /\ \E m \in 0 .. Len(st.segments) :
                  /\ t.segments = SubSeq(st.segments, 1, m)
                  /\ \/ t.open = NoSegment
                     \/ m = Len(st.segments) /\ st.open # NoSegment
                        /\ st.open.first <= kept /\ t.open = Truncate(st.open, kept)
                     \/ /\ m < Len(st.segments)
                        /\ st.segments[m + 1].first <= kept
                        /\ kept < LastIndex(st.segments[m + 1])
                        /\ t.open = Truncate(st.segments[m + 1], kept)
<1> DEFINE segs == st.segments
           open == st.open
           first == st.first
           last == st.last
           L == Len(segs)
           ks == {k \in DOMAIN segs : segs[k].first <= kept}
<1>0. /\ IsStore(st) /\ Fits(segs, open, first, last) /\ Chained(segs)
      /\ first \in Nat \ {0} /\ last \in Nat /\ L \in Nat /\ DOMAIN segs = 1 .. L
      /\ segs \in Seq([first : Nat \ {0}, entries : Seq(Entries), synced : Nat, named : BOOLEAN])
      /\ segs # <<>> => segs[1].first = first
  <2>1. /\ IsStore(st) /\ Fits(segs, open, first, last) /\ Chained(segs)
        /\ first \in Nat \ {0} /\ last \in Nat
        /\ segs # <<>> => segs[1].first = first
    BY DEF GoodStore, Fits
  <2>2. segs \in Seq([first : Nat \ {0}, entries : Seq(Entries), synced : Nat, named : BOOLEAN])
    BY <2>1 DEF Chained
  <2>3. L \in Nat /\ DOMAIN segs = 1 .. L
    BY <2>2, LenProperties
  <2>. QED BY <2>1, <2>2, <2>3
<1>1. open # NoSegment /\ IsSegment(open) /\ last = LastIndex(open)
      /\ open.first = EndOf(segs, first) + 1 /\ open.first \in Nat \ {0}
  <2>1. open # NoSegment
    <3> SUFFICES ASSUME open = NoSegment PROVE FALSE
      OBVIOUS
    <3>1. last = first - 1
      BY <1>0 DEF OpenThere, Fits, EndOf
    <3>. QED BY <1>0, <3>1
  <2>2. IsSegment(open) /\ last = LastIndex(open) /\ open.first = EndOf(segs, first) + 1
    BY <1>0, <2>1 DEF Fits
  <2>. QED BY <2>1, <2>2, SegmentIs
<1>2. PICK m \in 0 .. L : \A n \in 1 .. L : n \in ks <=> n <= m
  <2> DEFINE M == {n \in 0 .. L : n = 0 \/ n \in ks}
  <2>1. 0 \in M /\ M \in SUBSET (0 .. L)
    BY <1>0
  <2>2. PICK m \in M : \A n \in M : n <= m
    <3> HIDE DEF M
    <3>. QED BY <1>0, <2>1, GreatestNatural
  <2>3. ASSUME NEW n \in 1 .. L PROVE n \in ks <=> n <= m
    <3>1. ASSUME n \in ks PROVE n <= m
      BY <1>0, <2>2, <3>1, SMTT(30)
    <3>2. ASSUME n <= m PROVE n \in ks
      <4>1. m \in 1 .. L /\ m \in ks /\ segs[m].first <= kept
        BY <1>0, <2>2, <3>2
      <4>2. CASE n = m
        BY <4>1, <4>2
      <4>3. CASE n < m
        <5>1. LastIndex(segs[n]) < segs[m].first
          BY <1>0, <4>1, <4>3 DEF Chained
        <5>2. segs[n].first <= LastIndex(segs[n]) /\ LastIndex(segs[n]) \in Nat
              /\ segs[n].first \in Nat /\ segs[m].first \in Nat
          BY <1>0, <4>1, ChainedSegments
        <5>3. segs[n].first <= kept
          BY <4>1, <5>1, <5>2
        <5>. QED BY <1>0, <5>3
      <4>. QED BY <1>0, <3>2, <4>1, <4>2, <4>3
    <3>. QED BY <3>1, <3>2
  <2>4. m \in 0 .. L
    OBVIOUS
  <2> HIDE DEF M, ks
  <2>. QED BY <2>3, <2>4
<1>3. Remaining(segs, ks) = SubSeq(segs, 1, m)
  <2> HIDE DEF ks, segs
  <2>. QED BY <1>0, <1>2, RemainingFirst
<1> DEFINE left == SubSeq(segs, 1, m)
           o == IF open.first > kept THEN NoSegment ELSE open
           cut == StoreOf(left, o, first, kept, st.set_aside)
           t == TruncateLog(st, kept)
<1>4. /\ Chained(left) /\ Len(left) = m
      /\ m > 0 => left # <<>> /\ left[1] = segs[1] /\ left[m] = segs[m]
      /\ m = 0 => left = <<>>
  BY <1>0, FrontChained
<1>5. [st EXCEPT !.segments = left, !.open = IF @.first > kept THEN NoSegment ELSE @,
                 !.last = kept] = cut
  <2>1. [st EXCEPT !.segments = left, !.open = IF @.first > kept THEN NoSegment ELSE @,
                   !.last = kept]
         = [st EXCEPT !.segments = left, !.open = o, !.last = kept]
    <3> HIDE DEF left
    <3>. QED BY <1>0 DEF IsStore, StoreOf
  <2> HIDE DEF left, o
  <2>. QED BY <1>0, <2>1, StoreExceptThree
<1>6. ASSUME ~(Holds(o, kept) /\ left # <<>> /\ kept < LastIndex(Last(left)))
      PROVE
      t = IF Holds(o, kept) THEN [cut EXCEPT !.open = Truncate(@, kept)]
          ELSE IF left # <<>> /\ kept < LastIndex(Last(left))
               THEN [cut EXCEPT !.segments = Front(left), !.open = Truncate(Last(left), kept)]
               ELSE cut
  <2>1. cut.open = o
    BY DEF StoreOf
  <2>2. ~(st.last <= kept) /\ st.last > kept
    BY <1>0
  <2> HIDE DEF left, cut, o
  <2> DEFINE result(g, c) ==
               CASE st.last <= kept -> st
                 [] st.last > kept /\ Holds(c.open, kept) ->
                       [c EXCEPT !.open = Truncate(@, kept)]
                 [] st.last > kept /\ g # <<>> /\ kept < LastIndex(Last(g)) ->
                       [c EXCEPT !.segments = Front(g), !.open = Truncate(Last(g), kept)]
                 [] OTHER -> c
             whole(g) == [st EXCEPT !.segments = g,
                                    !.open = IF @.first > kept THEN NoSegment ELSE @,
                                    !.last = kept]
  <2>3. t = result(left, cut)
    <3>1. t = result(Remaining(segs, ks), whole(Remaining(segs, ks)))
      BY DEF TruncateLog
    <3>2. cut = whole(left)
      BY <1>5
    <3>0. Remaining(segs, ks) = left
      BY <1>3 DEF left
    <3> HIDE DEF result, whole, t, ks, segs
    <3>. QED BY <3>0, <3>1, <3>2
  <2>4. CASE Holds(o, kept)
    BY <1>6, <2>1, <2>2, <2>3, <2>4
  <2>5. CASE ~Holds(o, kept) /\ left # <<>> /\ kept < LastIndex(Last(left))
    BY <2>1, <2>2, <2>3, <2>5
  <2>6. CASE ~Holds(o, kept) /\ ~(left # <<>> /\ kept < LastIndex(Last(left)))
    BY <2>1, <2>2, <2>3, <2>6
  <2>. QED BY <2>4, <2>5, <2>6
<1>7. ASSUME NEW s, NEW g, t = StoreOf(g, s, first, kept, st.set_aside), Fits(g, s, first, kept)
      PROVE  /\ GoodStore(t) /\ t.first = st.first /\ t.last = kept
             /\ t.set_aside = st.set_aside /\ t.segments = g /\ t.open = s
  <2> HIDE DEF t
  <2>1. t.segments = g /\ t.open = s /\ t.first = first /\ t.last = kept
        /\ t.set_aside = st.set_aside
    BY <1>7 DEF StoreOf
  <2>2. IsStore(t)
    BY <1>7, <2>1 DEF IsStore
  <2>3. GoodStore(t)
    BY <1>7, <2>1, <2>2 DEF GoodStore
  <2>. QED BY <2>1, <2>3
<1>8. IsStore(cut) /\ cut.segments = left /\ cut.open = o /\ cut.first = first /\ cut.last = kept
      /\ cut.set_aside = st.set_aside
  BY DEF IsStore, StoreOf
<1>9. CASE open.first <= kept
  <2>1. m = L
    <3> SUFFICES ASSUME m < L PROVE FALSE
      BY <1>0
    <3>1. L \in 1 .. L /\ ~(L <= m)
      BY <1>0
    <3>2. segs[L].first > kept
      <4>1. L \notin ks /\ L \in DOMAIN segs
        BY <1>0, <1>2, <3>1
      <4>2. segs[L].first \in Nat
        BY <1>0, <3>1, ChainedSegments
      <4>. QED BY <4>1, <4>2
    <3>3. /\ segs[L].first <= LastIndex(segs[L]) /\ LastIndex(segs[L]) <= EndOf(segs, first)
          /\ EndOf(segs, first) \in Nat /\ LastIndex(segs[L]) \in Nat /\ segs[L].first \in Nat
      BY <1>0, <3>1, ChainedSegments, EndBounds
    <3>. QED BY <1>1, <1>9, <3>2, <3>3
  <2>2. left = segs
    <3> HIDE DEF segs
    <3>. QED BY <1>0, <2>1, SubSeqFull
  <2>3. o = open /\ Holds(o, kept)
    <3>1. o = open
      BY <1>1, <1>9
    <3>2. LastIndex(open) \in Nat
      BY <1>1, SegmentIs
    <3>. QED BY <1>1, <1>9, <3>1, <3>2 DEF Holds
  <2>4. t = StoreOf(segs, Truncate(open, kept), first, kept, st.set_aside)
    <3>0. ~(left # <<>> /\ kept < LastIndex(Last(left)))
      <4> SUFFICES ASSUME left # <<>> PROVE ~(kept < LastIndex(segs[L]))
        BY <2>2 DEF Last
      <4>1. L \in 1 .. L
        BY <1>0, <2>2
      <4>2. /\ LastIndex(segs[L]) <= EndOf(segs, first)
            /\ EndOf(segs, first) \in Nat /\ LastIndex(segs[L]) \in Nat
        BY <1>0, <4>1, ChainedSegments, EndBounds
      <4>. QED BY <1>1, <1>9, <4>2
    <3>1. t = [cut EXCEPT !.open = Truncate(@, kept)]
      <4> HIDE DEF t, cut, left, o
      <4>. QED BY <1>6, <2>3, <3>0
    <3>2. t = [cut EXCEPT !.open = Truncate(open, kept)]
      <4> HIDE DEF t, left, o
      <4>. QED BY <2>3, <3>1 DEF StoreOf
    <3> HIDE DEF t, cut, left, o
    <3>. QED BY <1>8, <2>2, <3>2, StoreExceptOpen
  <2>5. IsSegment(Truncate(open, kept)) /\ Truncate(open, kept).first = open.first
        /\ LastIndex(Truncate(open, kept)) = kept
    <3>1. open.first <= kept + 1 /\ kept <= LastIndex(open)
      BY <1>0, <1>1, <1>9
    <3>. QED BY <1>1, <3>1, TruncateIs
  <2>6. Fits(segs, Truncate(open, kept), first, kept)
    <3>1. Truncate(open, kept) # NoSegment
      BY <2>5, SegmentIs
    <3>. QED BY <1>0, <1>1, <2>5, <3>1 DEF Fits
  <2>7. /\ GoodStore(t) /\ t.first = st.first /\ t.last = kept
        /\ t.set_aside = st.set_aside /\ t.segments = segs /\ t.open = Truncate(open, kept)
    <3> HIDE DEF t
    <3>. QED BY <1>7, <2>4, <2>6
  <2>8. t.segments = SubSeq(segs, 1, L) /\ L \in 0 .. L
    BY <1>0, <2>1, <2>2, <2>7
  <2> HIDE DEF t, left, cut, o, ks
  <2>. QED BY <1>1, <1>9, <2>7, <2>8 DEF t
<1>10. CASE open.first > kept /\ m > 0 /\ kept < LastIndex(segs[m])
  <2> DEFINE n == m - 1
             front == SubSeq(segs, 1, n)
             s == Truncate(segs[m], kept)
  <2>0. m \in 1 .. L /\ n \in 0 .. L /\ n + 1 = m /\ n < L /\ L \in Nat
    BY <1>0, <1>10, SMTT(30)
  <2>1. o = NoSegment /\ ~Holds(o, kept)
    BY <1>10, NoSegmentIs
  <2>2. Last(left) = segs[m] /\ Front(left) = front /\ left # <<>>
    <3>1. Last(left) = segs[m] /\ left # <<>>
      BY <1>4, <2>0 DEF Last
    <3>2. Front(left) = SubSeq(SubSeq(segs, 1, m), 1, n)
      <4> HIDE DEF n
      <4>1. Front(left) = SubSeq(left, 1, Len(left) - 1)
        BY DEF Front
      <4>. QED BY <1>4, <2>0, <4>1 DEF n
    <3>3. SubSeq(SubSeq(segs, 1, m), 1, n) = SubSeq(segs, 1, n)
      <4> HIDE DEF segs
      <4>. QED BY <1>0, <2>0
    <3>. QED BY <3>1, <3>2, <3>3
  <2>3. t = StoreOf(front, s, first, kept, st.set_aside)
    <3>1. t = [cut EXCEPT !.segments = front, !.open = s]
      <4> HIDE DEF t, cut, left, o, front
      <4>. QED BY <1>6, <1>10, <2>1, <2>2
    <3> HIDE DEF t, cut, left, o, front, s
    <3>. QED BY <1>8, <3>1, StoreExceptTwo, ZenonT(30)
  <2>4. segs[m].first <= kept /\ IsSegment(segs[m])
    <3>1. m \in ks
      BY <1>2, <2>0
    <3>. QED BY <1>0, <2>0, <3>1, ChainedSegments
  <2>5. IsSegment(s) /\ s.first = segs[m].first /\ LastIndex(s) = kept /\ s # NoSegment
    <3>1. segs[m].first <= kept + 1 /\ kept <= LastIndex(segs[m])
      <4>1. segs[m].first \in Nat /\ LastIndex(segs[m]) \in Nat
        BY <1>0, <2>0, ChainedSegments
      <4>. QED BY <1>10, <2>4, <4>1
    <3>2. IsSegment(s) /\ s.first = segs[m].first /\ LastIndex(s) = kept
      BY <2>4, <3>1, TruncateIs
    <3>. QED BY <3>2, SegmentIs
  <2>6. Chained(front) /\ (front # <<>> => front[1].first = first)
        /\ segs[m].first = EndOf(front, first) + 1
    <3>0. /\ Chained(front) /\ Len(front) = n
          /\ n > 0 => front # <<>> /\ front[1] = segs[1] /\ front[n] = segs[n]
          /\ n = 0 => front = <<>>
      <4> HIDE DEF n
      <4>. QED BY <1>0, <2>0, FrontChained
    <3>1. CASE n = 0
      <4>1. front = <<>> /\ Chained(front) /\ m = 1 /\ segs # <<>>
        BY <1>0, <2>0, <3>0, <3>1
      <4>. QED BY <1>0, <4>1 DEF EndOf
    <3>2. CASE n > 0
      <4>1. /\ Chained(front) /\ Len(front) = n /\ front[1] = segs[1]
            /\ front[n] = segs[n] /\ front # <<>>
        BY <3>0, <3>2
      <4>2. n \in 1 .. L - 1 /\ segs # <<>>
        BY <2>0, <3>2
      <4>3. segs[n + 1].first = LastIndex(segs[n]) + 1
        BY <1>0, <4>2 DEF Chained
      <4>4. EndOf(front, first) = LastIndex(segs[n])
        BY <4>1 DEF EndOf
      <4>. QED BY <1>0, <2>0, <4>1, <4>2, <4>3, <4>4
    <3>. QED BY <2>0, <3>1, <3>2
  <2>7. Fits(front, s, first, kept)
    <3> HIDE DEF front, s
    <3>. QED BY <1>0, <2>5, <2>6 DEF Fits
  <2>8. /\ GoodStore(t) /\ t.first = st.first /\ t.last = kept
        /\ t.set_aside = st.set_aside /\ t.segments = front /\ t.open = s
    <3> HIDE DEF t, s, front
    <3>. QED BY <1>7, <2>3, <2>7
  <2>9. segs[n + 1].first <= kept /\ kept < LastIndex(segs[n + 1])
        /\ t.open = Truncate(segs[n + 1], kept)
    BY <1>10, <2>0, <2>4, <2>8
  <2> HIDE DEF t, left, cut, o, ks, s, n
  <2>. QED BY <2>0, <2>8, <2>9 DEF t
<1>11. CASE open.first > kept /\ ~(m > 0 /\ kept < LastIndex(segs[m]))
  <2>1. o = NoSegment /\ ~Holds(o, kept)
    BY <1>11, NoSegmentIs
  <2>2. t = StoreOf(left, NoSegment, first, kept, st.set_aside)
    <3>1. t = cut
      <4>1. ~(left # <<>> /\ kept < LastIndex(Last(left)))
        <5>1. CASE m = 0
          BY <1>4, <5>1
        <5>2. CASE m > 0
          <6>1. Last(left) = segs[m]
            BY <1>4, <5>2 DEF Last
          <6>. QED BY <1>11, <5>2, <6>1
        <5>. QED BY <5>1, <5>2
      <4> HIDE DEF t, cut, left, o
      <4>. QED BY <1>6, <2>1, <4>1
    <3> HIDE DEF t, left, o
    <3>. QED BY <2>1, <3>1
  <2>3. kept = EndOf(left, first)
    <3> DEFINE next == IF m < L THEN segs[m + 1].first ELSE open.first
    <3>1. next \in Nat /\ next > kept
      <4>1. CASE m < L
        <5>1. m + 1 \in 1 .. L /\ ~(m + 1 <= m) /\ m + 1 \in DOMAIN segs
          BY <1>0, <4>1
        <5>2. m + 1 \notin ks
          BY <1>2, <5>1
        <5>3. segs[m + 1].first \in Nat
          BY <1>0, <5>1, ChainedSegments
        <5>. QED BY <4>1, <5>1, <5>2, <5>3
      <4>2. CASE ~(m < L)
        BY <1>1, <1>11, <4>2
      <4>. QED BY <4>1, <4>2
    <3>2. next = EndOf(left, first) + 1
      <4>1. CASE m = 0
        <5>1. EndOf(left, first) = first - 1
          BY <1>4, <4>1 DEF EndOf
        <5>2. CASE L = 0
          <6>1. segs = <<>>
            BY <1>0, <5>2
          <6>2. EndOf(segs, first) = first - 1
            BY <6>1 DEF EndOf
          <6>. QED BY <1>0, <1>1, <4>1, <5>1, <5>2, <6>2
        <5>3. CASE L > 0
          <6>1. segs # <<>> /\ m + 1 = 1
            BY <1>0, <4>1, <5>3
          <6>. QED BY <1>0, <4>1, <5>1, <5>3, <6>1
        <5>. QED BY <1>0, <5>2, <5>3
      <4>2. CASE m > 0
        <5>0. left # <<>> /\ left[Len(left)] = segs[m]
          BY <1>4, <4>2
        <5>1. EndOf(left, first) = LastIndex(segs[m]) /\ segs # <<>>
          <6> HIDE DEF left
          <6>. QED BY <1>0, <4>2, <5>0 DEF EndOf
        <5>2. CASE m < L
          <6>1. m \in 1 .. L - 1
            BY <1>0, <4>2, <5>2
          <6>. QED BY <1>0, <5>1, <5>2, <6>1 DEF Chained
        <5>3. CASE m = L
          <6>1. EndOf(segs, first) = LastIndex(segs[m])
            BY <5>1, <5>3 DEF EndOf
          <6>. QED BY <1>1, <5>1, <5>3, <6>1
        <5>. QED BY <1>0, <5>2, <5>3
      <4>. QED BY <4>1, <4>2
    <3>3. EndOf(left, first) \in Nat /\ EndOf(left, first) <= kept
      <4>1. CASE m = 0
        BY <1>0, <1>4, <4>1 DEF EndOf
      <4>2. CASE m > 0
        <5>1. m \in 1 .. L
          BY <1>0, <4>2
        <5>2. EndOf(left, first) = LastIndex(segs[m]) /\ LastIndex(segs[m]) \in Nat
          BY <1>0, <1>4, <4>2, <5>1, ChainedSegments DEF EndOf
        <5>. QED BY <1>11, <4>2, <5>2
      <4>. QED BY <4>1, <4>2
    <3> HIDE DEF next, left
    <3>. QED BY <3>1, <3>2, <3>3
  <2>4. Fits(left, NoSegment, first, kept)
    <3>1. left # <<>> => left[1].first = first
      <4>1. CASE m = 0
        BY <1>4, <4>1
      <4>2. CASE m > 0
        <5>1. segs # <<>>
          BY <1>0, <4>2
        <5>. QED BY <1>0, <1>4, <4>2, <5>1
      <4>. QED BY <4>1, <4>2
    <3> HIDE DEF left
    <3>. QED BY <1>0, <1>4, <2>3, <3>1 DEF Fits
  <2>5. /\ GoodStore(t) /\ t.first = st.first /\ t.last = kept
        /\ t.set_aside = st.set_aside /\ t.segments = left /\ t.open = NoSegment
    <3> HIDE DEF t, left
    <3>. QED BY <1>7, <2>2, <2>4
  <2> HIDE DEF t, cut, o, ks
  <2>. QED BY <2>5 DEF t
<1>. QED BY <1>1, <1>9, <1>10, <1>11

-----------------------------------------------------------------------------
(* Reading.                                                                *)

(* An index of the closed segments is in one of them.                      *)
LEMMA ClosedCover ==
  ASSUME NEW segs, Chained(segs), NEW first \in Nat \ {0},
         segs # <<>> => segs[1].first = first,
         NEW i \in Nat, first <= i, i <= EndOf(segs, first)
  PROVE  \E k \in 1 .. Len(segs) : Holds(segs[k], i)
<1> DEFINE L == Len(segs)
           T == {k \in 0 .. L : k > 0 /\ segs[k].first <= i}
<1>1. L \in Nat /\ segs # <<>> /\ 1 \in 1 .. L
  <2>1. L \in Nat /\ segs # <<>>
    BY DEF Chained, EndOf
  <2>. QED BY <2>1 DEF Chained
<1>2. 1 \in T /\ T \in SUBSET (0 .. L)
  BY <1>1
<1>3. PICK k \in T : \A n \in T : n <= k
  <2> HIDE DEF T
  <2>. QED BY <1>1, <1>2, GreatestNatural
<1>4. k \in 1 .. L /\ segs[k].first <= i
  OBVIOUS
<1>5. LastIndex(segs[k]) \in Nat /\ segs[k] # NoSegment
  BY <1>4, ChainedSegments
<1>6. i <= LastIndex(segs[k])
  <2>1. CASE k = L
    BY <1>1, <2>1 DEF EndOf
  <2>2. CASE k < L
    <3>1. k + 1 \in 1 .. L /\ k + 1 \in 0 .. L /\ k \in 1 .. L - 1 /\ k + 1 > k
      BY <1>1, <1>4, <2>2
    <3>2. ~(segs[k + 1].first <= i)
      <4>1. k + 1 \notin T
        BY <1>3, <3>1
      <4>. QED BY <3>1, <4>1
    <3>3. segs[k + 1].first = LastIndex(segs[k]) + 1
      BY <3>1 DEF Chained
    <3>. QED BY <1>5, <3>2, <3>3
  <2>. QED BY <1>1, <1>4, <2>1, <2>2
<1>7. Holds(segs[k], i)
  BY <1>4, <1>5, <1>6 DEF Holds
<1>. QED BY <1>4, <1>7

(* What Fits says of a good store, with the bounds of all its files.       *)
LEMMA GoodFacts ==
  ASSUME NEW st, GoodStore(st)
  PROVE  /\ IsStore(st) /\ Chained(st.segments) /\ st.first \in Nat \ {0} /\ st.last \in Nat
         /\ st.set_aside \in BOOLEAN
         /\ Len(st.segments) \in Nat /\ DOMAIN st.segments = 1 .. Len(st.segments)
         /\ st.segments # <<>> => st.segments[1].first = st.first
         /\ EndOf(st.segments, st.first) \in Nat
         /\ EndOf(st.segments, st.first) >= st.first - 1
         /\ st.first <= st.last + 1 /\ EndOf(st.segments, st.first) <= st.last
         /\ \A k \in 1 .. Len(st.segments) :
                /\ st.first <= st.segments[k].first
                /\ LastIndex(st.segments[k]) <= EndOf(st.segments, st.first)
                /\ LastIndex(st.segments[k]) <= st.last
         /\ st.open = NoSegment => st.last = EndOf(st.segments, st.first)
         /\ st.open # NoSegment =>
                /\ IsSegment(st.open) /\ st.last = LastIndex(st.open)
                /\ st.open.first = EndOf(st.segments, st.first) + 1
<1> DEFINE segs == st.segments
           first == st.first
           end == EndOf(segs, first)
<1>1. /\ IsStore(st) /\ Chained(segs) /\ first \in Nat \ {0} /\ st.last \in Nat
      /\ st.set_aside \in BOOLEAN
      /\ segs # <<>> => segs[1].first = first
      /\ st.open = NoSegment => st.last = end
      /\ st.open # NoSegment =>
             /\ IsSegment(st.open) /\ st.last = LastIndex(st.open) /\ st.open.first = end + 1
  BY DEF GoodStore, Fits
<1>2. Len(segs) \in Nat /\ DOMAIN segs = 1 .. Len(segs)
  <2>1. segs \in Seq([first : Nat \ {0}, entries : Seq(Entries), synced : Nat, named : BOOLEAN])
    BY <1>1 DEF Chained
  <2>. QED BY <2>1, LenProperties
<1>3. PICK f \in Nat \ {0} : f = first
  BY <1>1
<1>4. /\ EndOf(segs, f) \in Nat /\ EndOf(segs, f) >= f - 1
      /\ \A k \in 1 .. Len(segs) : f <= segs[k].first /\ LastIndex(segs[k]) <= EndOf(segs, f)
  <2>1. segs # <<>> => segs[1].first = f
    BY <1>1, <1>3
  <2> HIDE DEF segs, first, end
  <2>. QED BY <1>1, <2>1, EndBounds
<1>5. PICK e \in Nat : e = end /\ e >= first - 1
  BY <1>3, <1>4
<1>6. e <= st.last
  <2>1. CASE st.open = NoSegment
    BY <1>1, <1>5, <2>1
  <2>2. CASE st.open # NoSegment
    <3>1. IsSegment(st.open) /\ st.last = LastIndex(st.open) /\ st.open.first = e + 1
      BY <1>1, <1>5, <2>2
    <3>2. LastIndex(st.open) >= st.open.first - 1 /\ st.open.first \in Nat
      BY <3>1, SegmentIs
    <3>. QED BY <1>1, <3>1, <3>2
  <2>. QED BY <2>1, <2>2
<1>7. \A k \in 1 .. Len(segs) : LastIndex(segs[k]) \in Nat
  BY <1>1, ChainedSegments
<1>8. \A k \in 1 .. Len(segs) :
         first <= segs[k].first /\ LastIndex(segs[k]) <= end /\ LastIndex(segs[k]) <= st.last
  BY <1>1, <1>3, <1>4, <1>5, <1>6, <1>7
<1>9. first <= st.last + 1
  BY <1>1, <1>5, <1>6
<1> HIDE DEF segs, first, end
<1>. QED BY <1>1, <1>2, <1>5, <1>6, <1>8, <1>9 DEF segs, first, end

(* Every index of the log is in a file.                                    *)
LEMMA Cover ==
  ASSUME NEW st, GoodStore(st), NEW i \in Nat, st.first <= i, i <= st.last
  PROVE  \/ Holds(st.open, i)
         \/ \E k \in 1 .. Len(st.segments) : Holds(st.segments[k], i)
<1>1. CASE i <= EndOf(st.segments, st.first)
  <2>1. PICK f \in Nat \ {0} : f = st.first
    BY GoodFacts
  <2>2. /\ Chained(st.segments) /\ (st.segments # <<>> => st.segments[1].first = f)
        /\ f <= i /\ i <= EndOf(st.segments, f)
    BY <1>1, <2>1, GoodFacts
  <2>3. \E k \in 1 .. Len(st.segments) : Holds(st.segments[k], i)
    BY <2>2, ClosedCover
  <2>. QED BY <2>3
<1>2. CASE ~(i <= EndOf(st.segments, st.first))
  <2>1. st.open # NoSegment
    BY <1>2, GoodFacts
  <2>2. st.last = LastIndex(st.open) /\ st.open.first = EndOf(st.segments, st.first) + 1
        /\ EndOf(st.segments, st.first) \in Nat
    BY <2>1, GoodFacts
  <2>. QED BY <1>2, <2>1, <2>2 DEF Holds
<1>. QED BY <1>1, <1>2

(* What is read of an index the open segment holds.                        *)
LEMMA ReadOpen ==
  ASSUME NEW st, GoodStore(st), NEW i \in Nat, Holds(st.open, i)
  PROVE  /\ GetEntry(st, i) = st.open.entries[i - st.open.first + 1]
         /\ GetEntry(st, i) \in Entries
         /\ i - st.open.first + 1 \in 1 .. Len(st.open.entries)
<1>1. /\ st.open # NoSegment /\ st.open.first <= i /\ i <= LastIndex(st.open)
  BY DEF Holds
<1>2. /\ IsSegment(st.open) /\ st.last = LastIndex(st.open)
      /\ st.open.first = EndOf(st.segments, st.first) + 1
      /\ EndOf(st.segments, st.first) \in Nat /\ EndOf(st.segments, st.first) >= st.first - 1
      /\ st.first \in Nat /\ st.last \in Nat
  BY <1>1, GoodFacts
<1>3. /\ st.open.first \in Nat /\ st.open.entries \in Seq(Entries)
      /\ Len(st.open.entries) \in Nat
      /\ LastIndex(st.open) = st.open.first + Len(st.open.entries) - 1
  BY <1>2, SegmentIs
<1>4. ~(i < st.first \/ i > st.last)
  BY <1>1, <1>2, <1>3
<1>5. i - st.open.first + 1 \in 1 .. Len(st.open.entries)
  BY <1>1, <1>3
<1>6. GetEntry(st, i) = st.open.entries[i - st.open.first + 1]
  <2>1. GetEntry(st, i) = EntryIn(st.open, i)
    BY <1>1, <1>3, <1>4 DEF GetEntry
  <2>. QED BY <2>1 DEF EntryIn
<1>7. st.open.entries[i - st.open.first + 1] \in Entries
  BY <1>3, <1>5, ElementOfSeq
<1>. QED BY <1>5, <1>6, <1>7

(* What is read of an index that a closed segment holds.                   *)
LEMMA ReadClosed ==
  ASSUME NEW st, GoodStore(st), NEW i \in Nat, NEW k \in 1 .. Len(st.segments),
         Holds(st.segments[k], i)
  PROVE  /\ GetEntry(st, i) = st.segments[k].entries[i - st.segments[k].first + 1]
         /\ GetEntry(st, i) \in Entries
         /\ i - st.segments[k].first + 1 \in 1 .. Len(st.segments[k].entries)
<1> DEFINE s == st.segments[k]
<1>1. s # NoSegment /\ s.first <= i /\ i <= LastIndex(s)
  BY DEF Holds
<1>2. /\ Chained(st.segments) /\ IsSegment(s)
      /\ st.first \in Nat /\ st.last \in Nat /\ st.first <= s.first /\ LastIndex(s) <= st.last
      /\ LastIndex(s) <= EndOf(st.segments, st.first) /\ EndOf(st.segments, st.first) \in Nat
      /\ DOMAIN st.segments = 1 .. Len(st.segments)
  BY GoodFacts, ChainedSegments
<1>3. /\ s.first \in Nat /\ s.entries \in Seq(Entries)
      /\ Len(s.entries) \in Nat /\ LastIndex(s) = s.first + Len(s.entries) - 1
  BY <1>2, SegmentIs
<1>4. ~(i < st.first \/ i > st.last)
  <2> HIDE DEF s
  <2>. QED BY <1>1, <1>2, <1>3
<1>5. ~(st.open # NoSegment /\ i >= st.open.first)
  <2> SUFFICES ASSUME st.open # NoSegment PROVE ~(i >= st.open.first)
    OBVIOUS
  <2>1. st.open.first = EndOf(st.segments, st.first) + 1
    BY GoodFacts
  <2> HIDE DEF s
  <2>. QED BY <1>1, <1>2, <1>3, <2>1
<1> DEFINE ks == {n \in DOMAIN st.segments : Holds(st.segments[n], i)}
<1>6. ks = {k}
  <2>1. k \in ks
    BY <1>2
  <2>2. ASSUME NEW n \in ks PROVE n = k
    <3> SUFFICES ASSUME n # k PROVE FALSE
      OBVIOUS
    <3>1. /\ n \in 1 .. Len(st.segments) /\ Len(st.segments) \in Nat
          /\ st.segments[n].first <= i /\ i <= LastIndex(st.segments[n])
      <4>1. n \in 1 .. Len(st.segments) /\ Holds(st.segments[n], i)
        BY <1>2
      <4>. QED BY <4>1, GoodFacts DEF Holds
    <3>2. CASE n < k
      <4>1. LastIndex(st.segments[n]) < st.segments[k].first
        BY <1>2, <3>1, <3>2 DEF Chained
      <4>2. LastIndex(st.segments[n]) \in Nat
        BY <1>2, <3>1, ChainedSegments
      <4>. QED BY <1>1, <1>3, <3>1, <4>1, <4>2
    <3>3. CASE n > k
      <4>1. LastIndex(st.segments[k]) < st.segments[n].first
        BY <1>2, <3>1, <3>3 DEF Chained
      <4>2. st.segments[n].first \in Nat
        BY <1>2, <3>1, ChainedSegments
      <4>. QED BY <1>1, <1>3, <3>1, <4>1, <4>2
    <3>. QED BY <3>1, <3>2, <3>3
  <2> HIDE DEF ks
  <2>. QED BY <2>1, <2>2
<1>7. GetEntry(st, i) = EntryIn(s, i)
  <2>1. GetEntry(st, i) = IF ks = {} THEN NoEntry
                          ELSE EntryIn(st.segments[CHOOSE n \in ks : TRUE], i)
    BY <1>4, <1>5 DEF GetEntry
  <2>2. ks # {} /\ (CHOOSE n \in ks : TRUE) = k
    <3> HIDE DEF ks
    <3>. QED BY <1>6
  <2> HIDE DEF ks
  <2>. QED BY <2>1, <2>2
<1>8. GetEntry(st, i) = s.entries[i - s.first + 1]
  BY <1>7 DEF EntryIn
<1>9. i - s.first + 1 \in 1 .. Len(s.entries)
  <2> HIDE DEF s
  <2>. QED BY <1>1, <1>3
<1>10. s.entries[i - s.first + 1] \in Entries
  BY <1>3, <1>9, ElementOfSeq
<1> HIDE DEF s
<1>. QED BY <1>8, <1>9, <1>10 DEF s

LEMMA ReadEntries ==
  ASSUME NEW st, GoodStore(st), NEW i \in Nat, st.first <= i, i <= st.last
  PROVE  GetEntry(st, i) \in Entries
BY Cover, ReadOpen, ReadClosed

(* Appending changes nothing that could be read before.                    *)
LEMMA AppendReads ==
  ASSUME NEW st, GoodStore(st), NEW e \in Entries
  PROVE  LET t == AppendEntry(st, e)
         IN  /\ \A i \in Nat : st.first <= i /\ i <= st.last => GetEntry(t, i) = GetEntry(st, i)
             /\ GetEntry(t, st.last + 1) = e
<1> DEFINE t == AppendEntry(st, e)
           o == OpenSegment(st)
           L == Len(st.segments)
<1>1. /\ GoodStore(t) /\ t.segments = o.segments
      /\ t.first = st.first /\ t.last = st.last + 1
      /\ t.open # NoSegment /\ IsSegment(t.open)
      /\ t.open.first = o.open.first /\ t.open.entries = Append(o.open.entries, e)
  BY AppendEntryIs
<1>2. /\ GoodStore(o) /\ IsSegment(o.open)
      /\ \/ o = st
         \/ st.open = NoSegment /\ o.segments = st.segments
         \/ /\ st.open # NoSegment
            /\ o.segments = Append(st.segments, st.open)
  BY OpenSegmentIs
<1>3. /\ Chained(st.segments) /\ L \in Nat /\ st.last \in Nat
  BY GoodFacts
<1> HIDE DEF t, o
<1>4. /\ o.open.entries \in Seq(Entries) /\ Len(o.open.entries) \in Nat /\ o.open.first \in Nat
      /\ LastIndex(o.open) = o.open.first + Len(o.open.entries) - 1
  BY <1>2, SegmentIs
<1>5. /\ Len(t.open.entries) = Len(o.open.entries) + 1
      /\ t.open.entries[Len(o.open.entries) + 1] = e
      /\ \A j \in 1 .. Len(o.open.entries) : t.open.entries[j] = o.open.entries[j]
      /\ LastIndex(t.open) = t.open.first + Len(o.open.entries)
      /\ t.open.first \in Nat
  <2>1. /\ Len(t.open.entries) = Len(o.open.entries) + 1
        /\ t.open.entries[Len(o.open.entries) + 1] = e
        /\ \A j \in 1 .. Len(o.open.entries) : t.open.entries[j] = o.open.entries[j]
    BY <1>1, <1>4, AppendProperties
  <2>2. LastIndex(t.open) = t.open.first + Len(t.open.entries) - 1 /\ t.open.first \in Nat
    BY <1>1, SegmentIs
  <2>. QED BY <1>4, <2>1, <2>2
<1>6. LastIndex(t.open) = st.last + 1
  BY <1>1, GoodFacts
<1>7. GetEntry(t, st.last + 1) = e
  <2>1. PICK i \in Nat : i = st.last + 1
    BY <1>3
  <2>2. Holds(t.open, i)
    BY <1>1, <1>4, <1>5, <1>6, <2>1 DEF Holds
  <2>3. GetEntry(t, i) = t.open.entries[i - t.open.first + 1]
    BY <1>1, <2>2, ReadOpen
  <2>4. i - t.open.first + 1 = Len(o.open.entries) + 1
    BY <1>4, <1>5, <1>6, <2>1, SMTT(30)
  <2>. QED BY <1>5, <2>1, <2>3, <2>4
<1>8. ASSUME NEW i \in Nat, st.first <= i, i <= st.last
      PROVE  GetEntry(t, i) = GetEntry(st, i)
  <2>1. CASE Holds(st.open, i)
    <3>0. /\ GetEntry(st, i) = st.open.entries[i - st.open.first + 1]
          /\ i - st.open.first + 1 \in 1 .. Len(st.open.entries)
          /\ st.open # NoSegment /\ st.open.first <= i /\ i <= LastIndex(st.open)
      BY <2>1, ReadOpen DEF Holds
    <3>1. CASE o = st
      <4>1. t.open.first <= i /\ i <= LastIndex(t.open) /\ Holds(t.open, i)
        BY <1>1, <1>4, <1>5, <3>0, <3>1, SMTT(30) DEF Holds
      <4>2. GetEntry(t, i) = t.open.entries[i - t.open.first + 1]
        BY <1>1, <4>1, ReadOpen
      <4>3. PICK j \in Nat : j = i - st.open.first + 1 /\ j \in 1 .. Len(o.open.entries)
        BY <3>0, <3>1, <1>4
      <4>4. t.open.entries[j] = o.open.entries[j]
        BY <1>5, <4>3
      <4>. QED BY <1>1, <3>0, <3>1, <4>2, <4>3, <4>4
    <3>2. CASE o.segments = Append(st.segments, st.open)
      <4>1. PICK k \in Nat : k = L + 1
        BY <1>3
      <4>2. k \in 1 .. Len(t.segments) /\ t.segments[k] = st.open
        BY <1>1, <1>3, <3>2, <4>1 DEF Chained
      <4>3. GetEntry(t, i) = t.segments[k].entries[i - t.segments[k].first + 1]
        BY <1>1, <2>1, <4>2, ReadClosed
      <4>. QED BY <3>0, <4>2, <4>3
    <3>. QED BY <1>2, <3>0, <3>1, <3>2
  <2>2. ASSUME NEW k \in 1 .. L, Holds(st.segments[k], i)
        PROVE  GetEntry(t, i) = GetEntry(st, i)
    <3>1. GetEntry(st, i) = st.segments[k].entries[i - st.segments[k].first + 1]
      BY <2>2, ReadClosed
    <3>2. k \in 1 .. Len(t.segments) /\ t.segments[k] = st.segments[k]
      <4>1. CASE o = st \/ o.segments = st.segments
        BY <1>1, <4>1
      <4>2. CASE o.segments = Append(st.segments, st.open)
        BY <1>1, <1>3, <4>2 DEF Chained
      <4>. QED BY <1>2, <4>1, <4>2
    <3>3. GetEntry(t, i) = t.segments[k].entries[i - t.segments[k].first + 1]
      BY <1>1, <2>2, <3>2, ReadClosed
    <3>. QED BY <3>1, <3>2, <3>3
  <2>. QED BY <1>8, <2>1, <2>2, Cover
<1>. QED BY <1>7, <1>8 DEF t

(* Truncation changes nothing that is kept.                                *)
LEMMA TruncateReads ==
  ASSUME NEW st, GoodStore(st), OpenThere(st), NEW kept \in Nat,
         st.first <= kept + 1, kept < st.last,
         NEW i \in Nat, st.first <= i, i <= kept
  PROVE  GetEntry(TruncateLog(st, kept), i) = GetEntry(st, i)
<1> DEFINE t == TruncateLog(st, kept)
           segs == st.segments
           L == Len(segs)
<1>1. PICK m \in 0 .. L :
        /\ GoodStore(t) /\ t.first = st.first /\ t.last = kept
        /\ t.segments = SubSeq(segs, 1, m)
        /\ \/ t.open = NoSegment
           \/ m = L /\ st.open # NoSegment
              /\ st.open.first <= kept /\ t.open = Truncate(st.open, kept)
           \/ /\ m < L
              /\ segs[m + 1].first <= kept
              /\ kept < LastIndex(segs[m + 1])
              /\ t.open = Truncate(segs[m + 1], kept)
  BY TruncateLogIs, SMTT(30)
<1>2. /\ Chained(segs) /\ L \in Nat /\ st.last \in Nat
  BY GoodFacts
<1> HIDE DEF t
<1> SUFFICES GetEntry(t, i) = GetEntry(st, i)
  BY DEF t
<1>3. ASSUME NEW s, IsSegment(s), s.first <= kept, kept <= LastIndex(s),
             t.open = Truncate(s, kept), Holds(t.open, i)
      PROVE  /\ GetEntry(t, i) = s.entries[i - s.first + 1] /\ Holds(s, i)
  <2>1. /\ s.first \in Nat \ {0} /\ LastIndex(s) \in Nat /\ s # NoSegment
    BY <1>3, SegmentIs
  <2>2. s.first <= kept + 1
    BY <1>3, <2>1
  <2>3. /\ t.open.first = s.first /\ LastIndex(t.open) = kept
        /\ \A k \in 1 .. kept + 1 - s.first : t.open.entries[k] = s.entries[k]
    BY <1>3, <2>2, TruncateIs
  <2>4. Holds(s, i)
    BY <1>3, <2>1, <2>3 DEF Holds
  <2>5. GetEntry(t, i) = t.open.entries[i - s.first + 1]
    BY <1>1, <1>3, <2>3, ReadOpen
  <2>6. PICK j \in Nat : j = i - s.first + 1 /\ j \in 1 .. kept + 1 - s.first
    BY <2>1, <2>4 DEF Holds
  <2>7. t.open.entries[j] = s.entries[j]
    BY <2>3, <2>6
  <2>. QED BY <2>4, <2>5, <2>6, <2>7
<1>4. CASE Holds(t.open, i)
  <2>0. t.open # NoSegment
    BY <1>4 DEF Holds
  <2>1. CASE /\ st.open # NoSegment /\ st.open.first <= kept /\ t.open = Truncate(st.open, kept)
    <3>1. IsSegment(st.open) /\ kept <= LastIndex(st.open)
      BY <1>2, <2>1, GoodFacts
    <3>2. GetEntry(t, i) = st.open.entries[i - st.open.first + 1] /\ Holds(st.open, i)
      BY <1>3, <1>4, <2>1, <3>1
    <3>. QED BY <3>2, ReadOpen
  <2>2. CASE /\ m < L /\ segs[m + 1].first <= kept /\ kept < LastIndex(segs[m + 1])
             /\ t.open = Truncate(segs[m + 1], kept)
    <3>1. PICK k \in 1 .. L : k = m + 1
      BY <1>2, <2>2
    <3>2. IsSegment(segs[k]) /\ kept <= LastIndex(segs[k])
      <4>1. IsSegment(segs[k]) /\ LastIndex(segs[k]) \in Nat
        BY <1>2, ChainedSegments
      <4>. QED BY <2>2, <3>1, <4>1
    <3>3. GetEntry(t, i) = segs[k].entries[i - segs[k].first + 1] /\ Holds(segs[k], i)
      BY <1>3, <1>4, <2>2, <3>1, <3>2
    <3>. QED BY <3>3, ReadClosed
  <2>. QED BY <1>1, <2>0, <2>1, <2>2
<1>5. ASSUME NEW k \in 1 .. Len(t.segments), Holds(t.segments[k], i)
      PROVE  GetEntry(t, i) = GetEntry(st, i)
  <2>1. k \in 1 .. L /\ t.segments[k] = segs[k]
    BY <1>1, <1>2 DEF Chained
  <2>2. GetEntry(t, i) = t.segments[k].entries[i - t.segments[k].first + 1]
    BY <1>1, <1>5, ReadClosed
  <2>3. GetEntry(st, i) = segs[k].entries[i - segs[k].first + 1]
    BY <1>5, <2>1, ReadClosed
  <2>. QED BY <2>1, <2>2, <2>3
<1>6. \/ Holds(t.open, i)
      \/ \E k \in 1 .. Len(t.segments) : Holds(t.segments[k], i)
  BY <1>1, Cover
<1>. QED BY <1>4, <1>5, <1>6

(* Overwriting an entry, and appending with write_at.                      *)
LEMMA WriteEntryAtIs ==
  ASSUME NEW st, GoodStore(st), OpenThere(st), NEW e \in Entries,
         NEW i \in Nat, st.first <= i, i <= st.last + 1
  PROVE  LET t == WriteEntryAt(st, i, e)
         IN  /\ GoodStore(t) /\ t.open # NoSegment /\ t.first = st.first /\ t.last = i
             /\ t.set_aside = st.set_aside
             /\ GetEntry(t, i) = e
             /\ \A j \in Nat : st.first <= j /\ j < i => GetEntry(t, j) = GetEntry(st, j)
<1>1. st.first \in Nat \ {0} /\ st.last \in Nat
  BY GoodFacts
<1>2. PICK kept \in Nat : kept = i - 1
  BY <1>1
<1> DEFINE u == TruncateLog(st, kept)
<1>3. /\ GoodStore(u) /\ u.first = st.first /\ u.last = kept /\ u.set_aside = st.set_aside
      /\ \A j \in Nat : st.first <= j /\ j <= kept => GetEntry(u, j) = GetEntry(st, j)
  <2>1. CASE kept < st.last
    <3>1. st.first <= kept + 1
      BY <1>1, <1>2
    <3>. QED BY <2>1, <3>1, TruncateLogIs, TruncateReads
  <2>2. CASE kept = st.last
    <3>1. u = st
      BY <1>1, <2>2 DEF TruncateLog
    <3>. QED BY <2>2, <3>1
  <2>. QED BY <1>1, <1>2, <2>1, <2>2
<1>4. WriteEntryAt(st, i, e) = AppendEntry(u, e)
  <2>1. i - 1 = kept /\ i = u.last + 1
    BY <1>2, <1>3
  <2> HIDE DEF u
  <2>. QED BY <2>1 DEF WriteEntryAt, u
<1> HIDE DEF u
<1> DEFINE t == AppendEntry(u, e)
<1>5. /\ GoodStore(t) /\ t.open # NoSegment /\ t.first = st.first /\ t.last = kept + 1
      /\ t.set_aside = st.set_aside
  BY <1>3, AppendEntryIs
<1>6. /\ \A j \in Nat : u.first <= j /\ j <= u.last => GetEntry(t, j) = GetEntry(u, j)
      /\ GetEntry(t, u.last + 1) = e
  BY <1>3, AppendReads
<1>7. u.last + 1 = i /\ kept + 1 = i
  BY <1>2, <1>3
<1>8. \A j \in Nat : st.first <= j /\ j < i => GetEntry(t, j) = GetEntry(st, j)
  <2> HIDE DEF t
  <2>. QED BY <1>2, <1>3, <1>6
<1> HIDE DEF t
<1>. QED BY <1>4, <1>5, <1>6, <1>7, <1>8 DEF t

-----------------------------------------------------------------------------
(* Compaction.                                                             *)

(* What is left when the segments before kept are removed, unless exactly  *)
(* one entry is: the same end, or an empty log that begins at kept.        *)
LEMMA RemoveSegmentIs ==
  ASSUME NEW st, GoodStore(st), OpenThere(st), NEW kept \in Nat, st.first < kept,
         kept <= st.last => (LeavesOne(RemoveSegment(st, kept)) => RemoveSegment(st, kept) = st)
  PROVE  LET t == RemoveSegment(st, kept)
         IN  /\ GoodStore(t) /\ OpenThere(t) /\ t.set_aside = st.set_aside
             /\ \/ /\ kept <= st.last /\ st.first <= t.first /\ t.first <= kept
                   /\ t.last = st.last /\ t.open = st.open /\ st.open # NoSegment
                   /\ \E m \in 0 .. Len(st.segments) :
                          t.segments = SubSeq(st.segments, m + 1, Len(st.segments))
                \/ /\ st.last < kept /\ t.first = kept /\ t.last = kept - 1
                   /\ t.open = NoSegment /\ t.segments = <<>>
<1> DEFINE segs == st.segments
           open == st.open
           first == st.first
           last == st.last
           L == Len(segs)
           ks == {k \in DOMAIN segs : LastIndex(segs[k]) >= kept}
           end == EndOf(segs, first)
           t == RemoveSegment(st, kept)
           o == IF LastIndex(open) < kept THEN NoSegment ELSE open
<1>0. /\ IsStore(st) /\ Chained(segs) /\ first \in Nat \ {0} /\ last \in Nat /\ L \in Nat
      /\ st.set_aside \in BOOLEAN
      /\ DOMAIN segs = 1 .. L
      /\ segs \in Seq([first : Nat \ {0}, entries : Seq(Entries), synced : Nat, named : BOOLEAN])
      /\ segs # <<>> => segs[1].first = first
      /\ end \in Nat /\ end <= last
      /\ \A k \in 1 .. L : /\ LastIndex(segs[k]) \in Nat /\ LastIndex(segs[k]) <= last
                           /\ segs[k].first \in Nat /\ LastIndex(segs[k]) <= end
      /\ open # NoSegment => /\ IsSegment(open) /\ last = LastIndex(open)
                             /\ open.first = end + 1 /\ open.first \in Nat
      /\ open = NoSegment => segs = <<>> /\ last = first - 1
  <2>1. /\ IsStore(st) /\ Chained(segs) /\ first \in Nat \ {0} /\ last \in Nat /\ L \in Nat
        /\ st.set_aside \in BOOLEAN
        /\ DOMAIN segs = 1 .. L
        /\ segs # <<>> => segs[1].first = first
        /\ end \in Nat /\ end <= last
        /\ \A k \in 1 .. L : LastIndex(segs[k]) <= last /\ LastIndex(segs[k]) <= end
        /\ open # NoSegment => IsSegment(open) /\ last = LastIndex(open) /\ open.first = end + 1
        /\ open = NoSegment => last = end
    BY GoodFacts
  <2>2. \A k \in 1 .. L : LastIndex(segs[k]) \in Nat /\ segs[k].first \in Nat
    BY <2>1, ChainedSegments
  <2>3. segs \in Seq([first : Nat \ {0}, entries : Seq(Entries), synced : Nat, named : BOOLEAN])
    BY <2>1 DEF Chained
  <2>4. open = NoSegment => segs = <<>> /\ last = first - 1
    BY <2>1 DEF OpenThere, EndOf
  <2>5. open # NoSegment => open.first \in Nat
    BY <2>1
  <2> HIDE DEF segs, open, first, last, L, end
  <2>. QED BY <2>1, <2>2, <2>3, <2>4, <2>5
<1>1. PICK m \in 0 .. L : \A n \in 1 .. L : n \in ks <=> n > m
  <2> DEFINE M == {n \in 0 .. L : n = 0 \/ n \notin ks}
  <2>1. 0 \in M /\ M \in SUBSET (0 .. L)
    BY <1>0
  <2>2. PICK m \in M : \A n \in M : n <= m
    <3> HIDE DEF M
    <3>. QED BY <1>0, <2>1, GreatestNatural
  <2>3. ASSUME NEW n \in 1 .. L PROVE n \in ks <=> n > m
    <3>1. ASSUME n \notin ks PROVE n <= m
      <4>1. n \in M
        BY <1>0, <3>1
      <4>. QED BY <2>2, <4>1
    <3>2. ASSUME n <= m PROVE n \notin ks
      <4>1. m \in 1 .. L /\ m \notin ks /\ LastIndex(segs[m]) < kept
        <5>1. m \in 0 .. L /\ (m = 0 \/ m \notin ks)
          OBVIOUS
        <5>2. m \in 1 .. L
          <6> HIDE DEF M, ks, segs, open, first, last, L, end
          <6>. QED BY <1>0, <3>2, <5>1
        <5>3. m \in DOMAIN segs /\ LastIndex(segs[m]) \in Nat
          <6> HIDE DEF M, ks, segs, open, first, last, L, end
          <6>. QED BY <1>0, <5>2
        <5>4. m \notin ks
          <6> HIDE DEF M, ks, segs, open, first, last, L, end
          <6>. QED BY <1>0, <5>1, <5>2
        <5>5. ~(LastIndex(segs[m]) >= kept)
          <6> HIDE DEF M, segs, open, first, last, L, end
          <6>. QED BY <5>3, <5>4
        <5> HIDE DEF M, ks, segs, open, first, last, L, end
        <5>. QED BY <5>2, <5>3, <5>4, <5>5
      <4>2. CASE n = m
        BY <4>1, <4>2
      <4>3. CASE n < m
        <5>1. LastIndex(segs[n]) < LastIndex(segs[m])
          BY <1>0, <4>1, <4>3, ChainedSegments
        <5>2. LastIndex(segs[n]) \in Nat /\ LastIndex(segs[m]) \in Nat
          BY <1>0, <4>1
        <5>. QED BY <4>1, <5>1, <5>2
      <4>. QED BY <1>0, <3>2, <4>1, <4>2, <4>3
    <3>3. m \in 0 .. L
      OBVIOUS
    <3> HIDE DEF M, ks
    <3>. QED BY <1>0, <3>1, <3>2, <3>3
  <2>4. m \in 0 .. L
    OBVIOUS
  <2> HIDE DEF M, ks
  <2>. QED BY <2>3, <2>4
<1> DEFINE left == SubSeq(segs, m + 1, L)
           files == left \o (IF o = NoSegment THEN <<>> ELSE <<o>>)
           early == files # <<>> /\ files[1].first < kept
           f == IF early THEN files[1].first ELSE kept
           l == IF early THEN ResetLast(last, f, LastIndex(files[1])) ELSE last
<1>2. Remaining(segs, ks) = left
  <2> HIDE DEF ks, segs
  <2>. QED BY <1>0, <1>1, RemainingLast
<1>3. t = StoreOf(left, o, f, ResetLast(l, f, f - 1), st.set_aside)
  <2> DEFINE R == Remaining(segs, ks)
             F(g) == g \o (IF o = NoSegment THEN <<>> ELSE <<o>>)
             E(g) == F(g) # <<>> /\ F(g)[1].first < kept
             f1(g) == IF E(g) THEN F(g)[1].first ELSE kept
             l1(g) == IF E(g) THEN ResetLast(last, f1(g), LastIndex(F(g)[1])) ELSE last
             result(g) == [st EXCEPT !.segments = g, !.open = o, !.first = f1(g),
                                     !.last = ResetLast(l1(g), f1(g), f1(g) - 1)]
  <2>1. t = result(R)
    <3>1. ~(st.first >= kept)
      BY <1>0
    <3>2. t = IF st.first >= kept THEN st
              ELSE [st EXCEPT !.segments = R, !.open = o, !.first = f1(R),
                              !.last = ResetLast(l1(R), f1(R), f1(R) - 1)]
      BY DEF RemoveSegment
    <3> HIDE DEF t, R, F, E, f1, l1, o
    <3>. QED BY <3>1, <3>2
  <2>2. R = left
    BY <1>2
  <2>3. t = result(left)
    <3> HIDE DEF t, R, result, left
    <3>. QED BY <2>1, <2>2
  <2>4. PICK g, p, q : g = left /\ p = f1(left) /\ q = ResetLast(l1(left), f1(left), f1(left) - 1)
    OBVIOUS
  <2>5. t = [st EXCEPT !.segments = g, !.open = o, !.first = p, !.last = q]
    <3> HIDE DEF t, left, f1, l1, o
    <3>. QED BY <2>3, <2>4
  <2>6. t = StoreOf(g, o, p, q, st.set_aside)
    <3> HIDE DEF t, left, f1, l1, o
    <3>. QED BY <1>0, <2>5, StoreExceptFour
  <2>7. p = f /\ q = ResetLast(l, f, f - 1)
    BY <2>4
  <2> HIDE DEF t, left, f, l, o
  <2>. QED BY <2>4, <2>6, <2>7
<1>4. ASSUME NEW ff, NEW ll, t = StoreOf(left, o, ff, ll, st.set_aside), Fits(left, o, ff, ll)
      PROVE  /\ GoodStore(t) /\ t.set_aside = st.set_aside /\ t.segments = left /\ t.open = o
             /\ t.first = ff /\ t.last = ll
  <2> HIDE DEF t, left, o
  <2>1. t.segments = left /\ t.open = o /\ t.first = ff /\ t.last = ll
        /\ t.set_aside = st.set_aside
    BY <1>4 DEF StoreOf
  <2>2. IsStore(t)
    BY <1>4, <2>1 DEF IsStore
  <2>3. GoodStore(t)
    BY <1>0, <1>4, <2>1, <2>2 DEF GoodStore
  <2>. QED BY <2>1, <2>3
<1>5. CASE last < kept
  <2>1. o = NoSegment
    <3>1. CASE open = NoSegment
      BY <3>1
    <3>2. CASE open # NoSegment
      BY <1>0, <1>5, <3>2
    <3>. QED BY <3>1, <3>2
  <2>2. m = L /\ left = <<>>
    <3>1. m = L
      <4> SUFFICES ASSUME m < L PROVE FALSE
        BY <1>0
      <4>1. L \in 1 .. L /\ L > m
        BY <1>0
      <4>2. L \in ks
        BY <1>1, <4>1
      <4>3. LastIndex(segs[L]) >= kept
        BY <4>2
      <4>4. LastIndex(segs[L]) \in Nat /\ LastIndex(segs[L]) <= last
        <5> HIDE DEF segs, open, first, last, L, end
        <5>. QED BY <1>0, <4>1
      <4> HIDE DEF segs, open, first, last, L, end, ks
      <4>. QED BY <1>0, <1>5, <4>3, <4>4
    <3>. QED BY <1>0, <3>1, SubSeqEmpty
  <2>3. files = <<>>
    <3> HIDE DEF left, o
    <3>. QED BY <2>1, <2>2
  <2>4. f = kept /\ l = last
    <3> HIDE DEF files
    <3>. QED BY <2>3
  <2>5. ResetLast(l, f, f - 1) = kept - 1
    <3> HIDE DEF l, f
    <3>. QED BY <1>0, <1>5, <2>4 DEF ResetLast
  <2>6. Fits(<<>>, NoSegment, kept, kept - 1)
    BY <1>0 DEF Fits, Chained, EndOf
  <2>7. t = StoreOf(left, o, kept, kept - 1, st.set_aside)
    <3> HIDE DEF t, left, o, l, f
    <3>. QED BY <1>3, <2>4, <2>5
  <2>8. /\ GoodStore(t) /\ t.set_aside = st.set_aside /\ t.segments = left /\ t.open = o
        /\ t.first = kept /\ t.last = kept - 1
    <3> HIDE DEF t, left, o
    <3>. QED BY <1>4, <2>1, <2>2, <2>6, <2>7
  <2>9. OpenThere(t)
    <3> HIDE DEF t, left, o
    <3>. QED BY <2>2, <2>8 DEF OpenThere
  <2> HIDE DEF t, left, o
  <2>. QED BY <1>5, <2>1, <2>2, <2>8, <2>9 DEF t
<1>6. CASE kept <= last
  <2>0. open # NoSegment /\ IsSegment(open) /\ last = LastIndex(open) /\ open.first = end + 1
        /\ open.first \in Nat
    BY <1>0, <1>6
  <2>1. o = open /\ o # NoSegment
    BY <1>0, <1>6, <2>0
  <2>2. PICK f1 \in Nat \ {0} : /\ m < L => f1 = segs[m + 1].first
                                /\ m = L => f1 = open.first
                                /\ f1 <= kept /\ first <= f1
    <3>1. CASE m < L
      <4>1. m + 1 \in 1 .. L /\ m # L
        BY <1>0, <3>1
      <4>2. first <= segs[m + 1].first
        BY <4>1, GoodFacts
      <4>3. segs[m + 1].first \in Nat
        <5> HIDE DEF segs, open, first, last, L, end, ks
        <5>. QED BY <1>0, <4>1
      <4>4. segs[m + 1].first <= kept
        <5>1. CASE m = 0
          <6>1. segs # <<>> /\ m + 1 = 1
            BY <1>0, <3>1, <5>1
          <6>2. first < kept
            OBVIOUS
          <6> HIDE DEF segs, open, first, last, L, end, ks
          <6>. QED BY <1>0, <6>1, <6>2
        <5>2. CASE m > 0
          <6>1. m \in 1 .. L - 1 /\ m \in 1 .. L
            <7> HIDE DEF segs, open, first, last, L, end, ks
            <7>. QED BY <1>0, <3>1, <5>2
          <6>2. segs[m + 1].first = LastIndex(segs[m]) + 1
            BY <1>0, <6>1 DEF Chained
          <6>3. LastIndex(segs[m]) \in Nat
            <7> HIDE DEF segs, open, first, last, L, end, ks
            <7>. QED BY <1>0, <6>1
          <6>4. m \notin ks
            <7> HIDE DEF segs, open, first, last, L, end, ks
            <7>. QED BY <1>0, <1>1, <6>1
          <6>5. ~(LastIndex(segs[m]) >= kept)
            <7>1. m \in DOMAIN segs
              <8> HIDE DEF segs, open, first, last, L, end, ks
              <8>. QED BY <1>0, <6>1
            <7> HIDE DEF segs
            <7>. QED BY <6>4, <7>1
          <6> HIDE DEF segs, open, first, last, L, end, ks
          <6>. QED BY <6>2, <6>3, <6>5
        <5> HIDE DEF segs, open, first, last, L, end, ks
        <5>. QED BY <1>0, <5>1, <5>2
      <4> HIDE DEF segs, open, first, last, L, end, ks
      <4>5. segs[m + 1].first \in Nat \ {0}
        BY <1>0, <4>2, <4>3
      <4>. QED BY <3>1, <4>1, <4>2, <4>4, <4>5
    <3>2. CASE m = L
      <4>1. open.first <= kept /\ first <= open.first
        <5>1. CASE L = 0
          <6>1. end = first - 1
            BY <1>0, <5>1 DEF EndOf
          <6>2. first < kept
            OBVIOUS
          <6> HIDE DEF segs, open, first, last, L, end, ks
          <6>. QED BY <1>0, <2>0, <6>1, <6>2
        <5>2. CASE L > 0
          <6>1. L \in 1 .. L /\ ~(L > m)
            <7> HIDE DEF segs, open, first, last, L, end, ks
            <7>. QED BY <1>0, <3>2, <5>2
          <6>2. segs # <<>>
            BY <5>2
          <6>3. L \notin ks
            <7> HIDE DEF segs, open, first, last, L, end, ks
            <7>. QED BY <1>1, <6>1
          <6>4. end = LastIndex(segs[L])
            BY <6>2 DEF EndOf
          <6>5. L \in DOMAIN segs
            <7> HIDE DEF segs, open, first, last, L, end, ks
            <7>. QED BY <1>0, <6>1
          <6>6. ~(LastIndex(segs[L]) >= kept)
            <7> HIDE DEF segs, L
            <7>. QED BY <6>3, <6>5
          <6>7. end >= first - 1
            BY GoodFacts
          <6> HIDE DEF segs, open, first, last, L, end, ks
          <6>. QED BY <1>0, <2>0, <6>4, <6>6, <6>7
        <5>. QED BY <1>0, <5>1, <5>2
      <4> HIDE DEF segs, open, first, last, L, end, ks
      <4>2. open.first \in Nat \ {0} /\ ~(m < L)
        BY <1>0, <2>0, <3>2, <4>1
      <4>. QED BY <3>2, <4>1, <4>2
    <3> HIDE DEF segs, open, first, last, L, end, ks
    <3>. QED BY <1>0, <3>1, <3>2
  <2>3. files = Append(left, open) /\ Len(left) = L - m /\ Chained(left)
        /\ (m < L => left # <<>> /\ left[1] = segs[m + 1] /\ left[Len(left)] = segs[L])
        /\ (m = L => left = <<>>)
    <3>1. m \in 0 .. Len(segs) /\ Chained(segs)
      BY <1>0
    <3>4. /\ Chained(left) /\ Len(left) = L - m
          /\ m < L => left # <<>> /\ left[1] = segs[m + 1] /\ left[Len(left)] = segs[L]
          /\ m = L => left = <<>>
      <4> HIDE DEF segs
      <4>. QED BY <3>1, BackChained
    <3>6. files = Append(left, open)
      <4>1. files = left \o <<open>>
        <5> HIDE DEF left, o
        <5>. QED BY <2>1
      <4>2. left \in Seq([first : Nat \ {0}, entries : Seq(Entries), synced : Nat,
                          named : BOOLEAN])
        <5> HIDE DEF left
        <5>. QED BY <3>4 DEF Chained
      <4>3. open \in [first : Nat \ {0}, entries : Seq(Entries), synced : Nat, named : BOOLEAN]
        BY <2>0 DEF IsSegment
      <4> HIDE DEF left, files
      <4>. QED BY <4>1, <4>2, <4>3, AppendIsConcat
    <3> HIDE DEF left, files
    <3>. QED BY <3>4, <3>6
  <2>4. files # <<>> /\ files[1].first = f1
    <3>1. left \in Seq([first : Nat \ {0}, entries : Seq(Entries), synced : Nat, named : BOOLEAN])
          /\ Len(left) \in Nat
      <4> HIDE DEF left
      <4>. QED BY <2>3 DEF Chained
    <3>2. CASE m < L
      <4>1. files # <<>> /\ files[1] = left[1]
        <5>1. 1 \in 1 .. Len(left)
          BY <1>0, <2>3, <3>2
        <5>2. PICK g : g = left
          OBVIOUS
        <5>3. PICK R : R = [first : Nat \ {0}, entries : Seq(Entries), synced : Nat,
                            named : BOOLEAN]
          OBVIOUS
        <5>4. g \in Seq(R) /\ Len(g) \in Nat /\ 1 \in 1 .. Len(g)
          BY <3>1, <5>1, <5>2, <5>3
        <5>5. PICK x : x = open
          OBVIOUS
        <5>6. Append(g, x)[1] = g[1] /\ Append(g, x) # <<>>
          <6> HIDE DEF left, files, open
          <6>. QED BY <5>4
        <5> HIDE DEF left, files, open
        <5>. QED BY <2>3, <5>2, <5>5, <5>6
      <4> HIDE DEF left, files
      <4>. QED BY <2>2, <2>3, <3>2, <4>1
    <3>3. CASE m = L
      <4>1. files # <<>> /\ files[1] = open
        <5> HIDE DEF left, files
        <5>. QED BY <2>3, <3>3
      <4> HIDE DEF left, files
      <4>. QED BY <2>2, <3>3, <4>1
    <3>4. m < L \/ m = L
      <4> HIDE DEF segs, open, first, last, L, end, ks
      <4>. QED BY <1>0
    <3>. QED BY <3>2, <3>3, <3>4
  <2>5. f = f1
    <3> HIDE DEF files
    <3>. QED BY <2>2, <2>4
  <2>6. f1 < kept => ResetLast(l, f, f - 1) = last
    <3> SUFFICES ASSUME f1 < kept PROVE ResetLast(l, f, f - 1) = last
      OBVIOUS
    <3>1. early
      <4> HIDE DEF files
      <4>. QED BY <2>4
    <3>2. l = ResetLast(last, f, LastIndex(files[1]))
      <4> HIDE DEF early
      <4>. QED BY <3>1
    <3>3. last # 0 /\ ~(last - 1 < f1)
      <4> HIDE DEF segs, open, first, last, L, end, ks
      <4>. QED BY <1>0, <1>6, <2>2
    <3>4. l = last
      <4> HIDE DEF l, f, files
      <4>. QED BY <2>5, <3>2, <3>3 DEF ResetLast
    <3> HIDE DEF l, f
    <3>. QED BY <2>5, <3>3, <3>4 DEF ResetLast
  <2>7. f1 = kept => l = last /\ ResetLast(l, f, f - 1) = IF last = kept THEN kept - 1 ELSE last
    <3> SUFFICES ASSUME f1 = kept
                 PROVE  l = last
                        /\ ResetLast(l, f, f - 1) = IF last = kept THEN kept - 1 ELSE last
      OBVIOUS
    <3>1. ~early
      <4> HIDE DEF files
      <4>. QED BY <2>4
    <3>2. l = last
      <4> HIDE DEF early
      <4>. QED BY <3>1
    <3> HIDE DEF l, f
    <3>. QED BY <1>0, <1>6, <2>5, <3>2, SMTT(30) DEF ResetLast
  <2>8. ~(f1 = kept /\ last = kept)
    <3> SUFFICES ASSUME f1 = kept, last = kept PROVE FALSE
      OBVIOUS
    <3>1. t = StoreOf(left, o, kept, kept - 1, st.set_aside)
      <4> HIDE DEF t, left, o, l, f
      <4>. QED BY <1>3, <2>5, <2>7
    <3>2. t.open = open /\ t.first = kept
      <4> HIDE DEF t, left, o
      <4>. QED BY <2>1, <3>1 DEF StoreOf
    <3>3. LeavesOne(t)
      <4> HIDE DEF t
      <4>. QED BY <2>0, <3>2 DEF LeavesOne
    <3>4. t = st
      BY <1>6, <3>3
    <3> HIDE DEF t
    <3>. QED BY <1>0, <3>2, <3>4
  <2>9. ResetLast(l, f, f - 1) = last
    <3> HIDE DEF l, f
    <3>. QED BY <2>2, <2>6, <2>7, <2>8
  <2>10. t = StoreOf(left, o, f1, last, st.set_aside)
    <3> HIDE DEF t, left, o, l, f
    <3>. QED BY <1>3, <2>5, <2>9
  <2>11. Fits(left, o, f1, last)
    <3>1. left # <<>> => left[1].first = f1
      <4>1. m < L \/ m = L
        <5> HIDE DEF segs, open, first, last, L, end, ks
        <5>. QED BY <1>0
      <4> HIDE DEF left, segs, open, first, last, L, end, ks
      <4>. QED BY <2>2, <2>3, <4>1
    <3>2. open.first = EndOf(left, f1) + 1
      <4>1. CASE m < L
        <5>1. EndOf(left, f1) = LastIndex(segs[L]) /\ segs # <<>>
          <6> HIDE DEF left
          <6>. QED BY <1>0, <2>3, <4>1 DEF EndOf
        <5>2. end = LastIndex(segs[L])
          BY <5>1 DEF EndOf
        <5>. QED BY <2>0, <5>1, <5>2
      <4>2. CASE m = L
        <5>1. EndOf(left, f1) = f1 - 1 /\ f1 = open.first
          <6> HIDE DEF left
          <6>. QED BY <2>2, <2>3, <4>2 DEF EndOf
        <5>. QED BY <2>0, <5>1
      <4>. QED BY <1>0, <4>1, <4>2
    <3> HIDE DEF left, o
    <3>. QED BY <1>0, <2>0, <2>1, <2>2, <2>3, <3>1, <3>2 DEF Fits
  <2>12. /\ GoodStore(t) /\ t.set_aside = st.set_aside /\ t.segments = left /\ t.open = o
         /\ t.first = f1 /\ t.last = last
    <3> HIDE DEF t, left, o
    <3>. QED BY <1>4, <2>10, <2>11
  <2>13. OpenThere(t)
    <3> HIDE DEF t, left, o
    <3>. QED BY <2>1, <2>12 DEF OpenThere
  <2> HIDE DEF t, o
  <2>. QED BY <1>6, <2>0, <2>1, <2>2, <2>12, <2>13 DEF t
<1>. QED BY <1>0, <1>5, <1>6

LEMMA RemoveReads ==
  ASSUME NEW st, GoodStore(st), NEW t, GoodStore(t), t.open = st.open,
         NEW m \in 0 .. Len(st.segments),
         t.segments = SubSeq(st.segments, m + 1, Len(st.segments)),
         NEW i \in Nat, t.first <= i, i <= t.last
  PROVE  GetEntry(t, i) = GetEntry(st, i)
<1>1. CASE Holds(t.open, i)
  BY <1>1, ReadOpen
<1>2. CASE \E k \in 1 .. Len(t.segments) : Holds(t.segments[k], i)
  <2>1. PICK k \in 1 .. Len(t.segments) : Holds(t.segments[k], i)
    BY <1>2
  <2>2. /\ Chained(st.segments) /\ Len(st.segments) \in Nat /\ Len(t.segments) \in Nat
        /\ st.segments \in Seq([first : Nat \ {0}, entries : Seq(Entries), synced : Nat,
                                named : BOOLEAN])
    BY GoodFacts DEF Chained
  <2>3. Len(t.segments) = Len(st.segments) - m
    BY <2>2, BackChained
  <2>4. PICK j \in 1 .. Len(st.segments) : j = m + k
    BY <2>2, <2>3
  <2>5. t.segments[k] = st.segments[j]
    <3>1. /\ m + 1 \in 1 .. Len(st.segments) + 1
          /\ m + 1 <= Len(st.segments) /\ k \in 1 .. Len(st.segments) - (m + 1) + 1
          /\ (m + 1) + k - 1 = j
      BY <2>2, <2>3, <2>4
    <3>2. PICK g, n, ll : g = st.segments /\ n = m + 1 /\ ll = Len(st.segments)
      OBVIOUS
    <3>3. /\ g \in Seq([first : Nat \ {0}, entries : Seq(Entries), synced : Nat,
                        named : BOOLEAN])
          /\ n \in 1 .. Len(g) /\ ll \in 1 .. Len(g) /\ k \in 1 .. ll - n + 1
          /\ n + k - 1 = j
      BY <2>2, <3>1, <3>2
    <3>4. SubSeq(g, n, ll)[k] = g[n + k - 1]
      BY <3>3
    <3>. QED BY <3>2, <3>3, <3>4
  <2>6. Holds(st.segments[j], i)
    BY <2>1, <2>5
  <2>7. /\ GetEntry(t, i) = t.segments[k].entries[i - t.segments[k].first + 1]
        /\ GetEntry(st, i) = st.segments[j].entries[i - st.segments[j].first + 1]
    BY <2>1, <2>6, ReadClosed
  <2>. QED BY <2>5, <2>7
<1>. QED BY <1>1, <1>2, Cover

-----------------------------------------------------------------------------
(* Loading.                                                                *)

Renamed(segs) == [k \in DOMAIN segs |-> [segs[k] EXCEPT !.named = FALSE]]

LEMMA RenamedChained ==
  ASSUME NEW segs, Chained(segs)
  PROVE  /\ Chained(Renamed(segs)) /\ Len(Renamed(segs)) = Len(segs)
         /\ DOMAIN Renamed(segs) = DOMAIN segs /\ DOMAIN segs = 1 .. Len(segs)
         /\ \A k \in 1 .. Len(segs) : /\ Renamed(segs)[k].first = segs[k].first
                                      /\ Renamed(segs)[k].entries = segs[k].entries
                                      /\ Renamed(segs)[k].synced = segs[k].synced
                                      /\ LastIndex(Renamed(segs)[k]) = LastIndex(segs[k])
<1> DEFINE S == [first : Nat \ {0}, entries : Seq(Entries), synced : Nat, named : BOOLEAN]
           r == Renamed(segs)
<1>1. segs \in Seq(S) /\ Len(segs) \in Nat /\ DOMAIN segs = 1 .. Len(segs)
  BY DEF Chained
<1>2. ASSUME NEW k \in 1 .. Len(segs)
      PROVE  /\ IsSegment(r[k]) /\ r[k] \in S /\ r[k].first = segs[k].first
             /\ r[k].entries = segs[k].entries /\ r[k].synced = segs[k].synced
             /\ LastIndex(r[k]) = LastIndex(segs[k])
  <2>1. PICK s : s = segs[k]
    OBVIOUS
  <2>2. IsSegment(s)
    BY <2>1 DEF Chained
  <2>3. r[k] = [s EXCEPT !.named = FALSE]
    BY <1>1, <2>1 DEF Renamed
  <2>4. IsSeg(s)
    BY <2>2, SegmentIs
  <2>5. [s EXCEPT !.named = FALSE] = Seg(s.first, s.entries, s.synced, FALSE)
    BY <2>4, SegExceptNamed
  <2>6. /\ s.first \in Nat \ {0} /\ s.entries \in Seq(Entries) /\ s.synced \in Nat
        /\ Len(s.entries) <= SegmentSize /\ s.synced <= Len(s.entries)
        /\ LastIndex(s) = s.first + Len(s.entries) - 1
    BY <2>2, SegmentIs
  <2> DEFINE u == Seg(s.first, s.entries, s.synced, FALSE)
  <2>7. IsSegment(u) /\ LastIndex(u) = s.first + Len(s.entries) - 1
    BY <2>6, SegmentMade
  <2>8. u.first = s.first /\ u.entries = s.entries /\ u.synced = s.synced
    BY DEF Seg
  <2>9. r[k] = u
    BY <2>3, <2>5
  <2> HIDE DEF u, r, S
  <2>10. u \in S
    BY <2>7 DEF IsSegment, S
  <2>. QED BY <2>1, <2>6, <2>7, <2>8, <2>9, <2>10
<1>3. r \in Seq(S) /\ Len(r) = Len(segs) /\ DOMAIN r = DOMAIN segs
  <2>1. r = [k \in 1 .. Len(segs) |-> r[k]]
    BY <1>1 DEF Renamed
  <2> HIDE DEF r, S
  <2>2. r \in [1 .. Len(segs) -> S]
    BY <1>2, <2>1
  <2>. QED BY <1>1, <2>2
<1>4. Chained(r)
  <2>1. \A k \in 1 .. Len(r) : IsSegment(r[k]) /\ r[k].entries # <<>>
    <3> HIDE DEF r
    <3>. QED BY <1>2, <1>3 DEF Chained
  <2>2. ASSUME NEW k \in 1 .. Len(r) - 1 PROVE r[k + 1].first = LastIndex(r[k]) + 1
    <3>1. k \in 1 .. Len(segs) /\ k + 1 \in 1 .. Len(segs) /\ k \in 1 .. Len(segs) - 1
      <4> HIDE DEF r, S
      <4>. QED BY <1>1, <1>3
    <3>2. segs[k + 1].first = LastIndex(segs[k]) + 1
      BY <3>1 DEF Chained
    <3> HIDE DEF r, S
    <3>. QED BY <1>2, <3>1, <3>2
  <2>3. ASSUME NEW j \in 1 .. Len(r), NEW k \in 1 .. Len(r), j < k
        PROVE  LastIndex(r[j]) < r[k].first
    <3>1. j \in 1 .. Len(segs) /\ k \in 1 .. Len(segs)
      <4> HIDE DEF r, S
      <4>. QED BY <1>3
    <3>2. LastIndex(segs[j]) < segs[k].first
      BY <2>3, <3>1 DEF Chained
    <3> HIDE DEF r, S
    <3>. QED BY <1>2, <3>1, <3>2
  <2> HIDE DEF r
  <2>. QED BY <1>3, <2>1, <2>2, <2>3 DEF Chained
<1> HIDE DEF r
<1>. QED BY <1>1, <1>2, <1>3, <1>4 DEF r

(* What is loaded from files that fit together does, and a segment is open. *)
LEMMA LoadIs ==
  ASSUME NEW st, NEW first, NEW last, Fits(st.segments, st.open, first, last),
         OpenThere(st), st.set_aside \in BOOLEAN
  PROVE  LET t == Load(st)
         IN  /\ GoodStore(t) /\ t.open # NoSegment
             /\ st.open # NoSegment => t.first = first /\ t.last = last
             /\ st.open = NoSegment => t.first = 1 /\ t.last = 0
             /\ st.open # NoSegment =>
                    \/ last = first - 1
                    \/ t.segments = Renamed(st.segments) /\ t.open = st.open
                    \/ /\ t.segments = Append(Renamed(st.segments), st.open)
                       /\ t.open = NewSegment(last + 1)
             /\ ClosedSynced(st) /\ st.open.synced = Len(st.open.entries)
                   => ClosedSynced(t) /\ t.open.synced = Len(t.open.entries)
<1> DEFINE segs == st.segments
           open == st.open
           r == Renamed(segs)
           f == IF open = NoSegment THEN 1 ELSE IF r # <<>> THEN r[1].first ELSE open.first
           l == IF open # NoSegment THEN LastIndex(open)
                ELSE IF r # <<>> THEN LastIndex(Last(r)) ELSE 0
           o == IF Discards(st) THEN NoSegment ELSE open
           ll == IF l = 0 THEN f - 1 ELSE l
           b == StoreOf(r, o, f, ll, st.set_aside \/ Discards(st))
           t == Load(st)
<1>1. t = OpenSegment(b)
  BY DEF Load, StoreOf, Renamed
<1>2. /\ Chained(segs) /\ first \in Nat \ {0} /\ last \in Nat
      /\ Len(segs) \in Nat
      /\ segs # <<>> => segs[1].first = first
      /\ open = NoSegment => segs = <<>>
      /\ open # NoSegment => /\ IsSegment(open) /\ last = LastIndex(open)
                             /\ open.first = EndOf(segs, first) + 1
  BY DEF Fits, OpenThere, Chained
<1>3. EndOf(segs, first) \in Nat /\ EndOf(segs, first) >= first - 1
  BY <1>2, EndBounds
<1>4. Chained(r) /\ Len(r) = Len(segs) /\ (r = <<>> <=> segs = <<>>)
  <2>1. Chained(r) /\ Len(r) = Len(segs)
    BY <1>2, RenamedChained
  <2>2. r \in Seq([first : Nat \ {0}, entries : Seq(Entries), synced : Nat, named : BOOLEAN])
        /\ segs \in Seq([first : Nat \ {0}, entries : Seq(Entries), synced : Nat, named : BOOLEAN])
    <3> HIDE DEF r, segs
    <3>. QED BY <1>2, <2>1 DEF Chained
  <2> HIDE DEF r, segs
  <2>. QED BY <2>1, <2>2
<1>5. segs # <<>> => /\ r[1].first = first
                     /\ EndOf(r, first) = EndOf(segs, first)
  <2> SUFFICES ASSUME segs # <<>>
               PROVE  r[1].first = first /\ EndOf(r, first) = EndOf(segs, first)
    OBVIOUS
  <2>1. 1 \in 1 .. Len(segs) /\ Len(segs) \in 1 .. Len(segs)
    <3>1. segs \in Seq([first : Nat \ {0}, entries : Seq(Entries), synced : Nat, named : BOOLEAN])
      BY <1>2 DEF Chained
    <3> HIDE DEF segs
    <3>. QED BY <1>2, <3>1
  <2>2. r[1].first = segs[1].first /\ LastIndex(r[Len(segs)]) = LastIndex(segs[Len(segs)])
    BY <1>2, <2>1, RenamedChained
  <2> HIDE DEF r, segs
  <2>. QED BY <1>2, <1>4, <2>2 DEF EndOf
<1>6. EndOf(r, first) = EndOf(segs, first)
  <2> HIDE DEF r, segs
  <2>. QED BY <1>4, <1>5 DEF EndOf
<1> DEFINE aside == st.set_aside \/ Discards(st)
<1>7. aside \in BOOLEAN
  BY DEF Discards
<1>8. ASSUME NEW ff, NEW la, f = ff, ll = la, Fits(r, o, ff, la)
      PROVE  GoodStore(b) /\ b.first = ff /\ b.last = la /\ b.segments = r /\ b.open = o
  <2>1. b = StoreOf(r, o, ff, la, aside)
    <3> HIDE DEF r, o, f, ll
    <3>. QED BY <1>8
  <2> HIDE DEF b, r, o, f, ll, aside
  <2>2. b.segments = r /\ b.open = o /\ b.first = ff /\ b.last = la /\ b.set_aside = aside
    BY <2>1 DEF StoreOf
  <2>3. IsStore(b)
    BY <2>1, <2>2 DEF IsStore
  <2>. QED BY <1>7, <1>8, <2>2, <2>3 DEF GoodStore
<1>9. CASE open = NoSegment
  <2>1. r = <<>> /\ segs = <<>> /\ o = NoSegment /\ f = 1 /\ l = 0 /\ ll = 0
    <3>1. r = <<>> /\ segs = <<>>
      <4> HIDE DEF r, segs
      <4>. QED BY <1>2, <1>4, <1>9
    <3> HIDE DEF r, segs
    <3>. QED BY <1>9, <3>1 DEF Discards
  <2>2. Fits(<<>>, NoSegment, 1, 0)
    BY DEF Fits, Chained, EndOf
  <2>3. GoodStore(b) /\ b.first = 1 /\ b.last = 0 /\ b.segments = r /\ b.open = o
    <3> HIDE DEF r, o, f, ll, b
    <3>. QED BY <1>8, <2>1, <2>2
  <2>4. /\ GoodStore(t) /\ t.first = 1 /\ t.last = 0 /\ t.open # NoSegment
        /\ t.open = NewSegment(1) /\ t.segments = <<>>
    <3>1. b.open = NoSegment /\ b.segments = <<>>
      <4> HIDE DEF r, o, b
      <4>. QED BY <2>1, <2>3
    <3> HIDE DEF b, r, o, f, ll
    <3>2. /\ GoodStore(OpenSegment(b)) /\ OpenSegment(b).first = b.first
          /\ OpenSegment(b).last = b.last /\ OpenSegment(b).open # NoSegment
          /\ \/ OpenSegment(b) = b
             \/ /\ OpenSegment(b).open = NewSegment(b.last + 1)
                /\ \/ b.open = NoSegment /\ OpenSegment(b).segments = b.segments
                   \/ b.open # NoSegment
      BY <2>3, OpenSegmentIs
    <3> HIDE DEF t
    <3>. QED BY <1>1, <2>3, <3>1, <3>2
  <2>5. ClosedSynced(t) /\ t.open.synced = Len(t.open.entries)
    <3>1. t.open.synced = 0 /\ t.open.entries = <<>>
      <4> HIDE DEF t
      <4>. QED BY <2>4 DEF NewSegment
    <3>2. ClosedSynced(t)
      <4> HIDE DEF t
      <4>. QED BY <2>4 DEF ClosedSynced
    <3> HIDE DEF t
    <3>. QED BY <3>1, <3>2
  <2> HIDE DEF t
  <2>. QED BY <1>9, <2>4, <2>5 DEF t
<1>10. CASE open # NoSegment
  <2>0. /\ IsSegment(open) /\ last = LastIndex(open) /\ open.first \in Nat \ {0}
        /\ open.first = EndOf(segs, first) + 1 /\ open.first >= first
        /\ Len(open.entries) \in Nat /\ last = open.first + Len(open.entries) - 1
    <3>1. IsSegment(open) /\ last = LastIndex(open) /\ open.first = EndOf(segs, first) + 1
      BY <1>2, <1>10
    <3>2. /\ open.first \in Nat \ {0} /\ Len(open.entries) \in Nat
          /\ LastIndex(open) = open.first + Len(open.entries) - 1
      BY <3>1, SegmentIs
    <3> HIDE DEF open, segs
    <3>. QED BY <1>2, <1>3, <3>1, <3>2
  <2>1. f = first
    <3>1. CASE segs = <<>>
      <4>1. r = <<>> /\ EndOf(segs, first) = first - 1
        <5> HIDE DEF r, segs
        <5>. QED BY <1>4, <3>1 DEF EndOf
      <4> HIDE DEF r, segs, open
      <4>. QED BY <1>2, <1>10, <2>0, <4>1
    <3>2. CASE segs # <<>>
      <4> HIDE DEF r, segs, open
      <4>. QED BY <1>4, <1>5, <1>10, <3>2
    <3>. QED BY <3>1, <3>2
  <2>2. l = last
    <3> HIDE DEF open, r
    <3>. QED BY <1>10, <2>0
  <2>3. ll = last
    <3> HIDE DEF f, l, open, segs
    <3>. QED BY <1>2, <2>0, <2>1, <2>2
  <2>4. CASE Discards(st)
    <3>1. segs = <<>> /\ r = <<>> /\ open.entries = <<>> /\ o = NoSegment
      <4>1. segs = <<>> /\ open.entries = <<>> /\ o = NoSegment
        BY <2>4 DEF Discards
      <4> HIDE DEF segs, r, open, o
      <4>. QED BY <1>4, <4>1
    <3>2. last = first - 1
      <4>1. EndOf(segs, first) = first - 1
        <5> HIDE DEF segs
        <5>. QED BY <3>1 DEF EndOf
      <4>2. Len(open.entries) = 0
        <5> HIDE DEF open
        <5>. QED BY <3>1
      <4> HIDE DEF segs, open
      <4>. QED BY <1>2, <2>0, <4>1, <4>2
    <3>3. Fits(<<>>, NoSegment, first, last)
      BY <1>2, <3>2 DEF Fits, Chained, EndOf
    <3>4. GoodStore(b) /\ b.first = first /\ b.last = last /\ b.segments = r /\ b.open = o
      <4> HIDE DEF r, o, f, ll, b
      <4>. QED BY <1>8, <2>1, <2>3, <3>1, <3>3
    <3>5. b.open = NoSegment /\ b.segments = <<>>
      <4> HIDE DEF r, o, b
      <4>. QED BY <3>1, <3>4
    <3>6. /\ GoodStore(OpenSegment(b)) /\ OpenSegment(b).first = b.first
          /\ OpenSegment(b).last = b.last /\ OpenSegment(b).open # NoSegment
          /\ \/ OpenSegment(b) = b
             \/ /\ OpenSegment(b).open = NewSegment(b.last + 1)
                /\ \/ b.open = NoSegment /\ OpenSegment(b).segments = b.segments
                   \/ b.open # NoSegment
      <4> HIDE DEF b
      <4>. QED BY <3>4, OpenSegmentIs
    <3>7. /\ GoodStore(t) /\ t.first = first /\ t.last = last /\ t.open # NoSegment
          /\ t.open = NewSegment(last + 1) /\ t.segments = <<>>
      <4> HIDE DEF b, t, r, o, f, ll
      <4>. QED BY <1>1, <3>4, <3>5, <3>6
    <3>8. t.open.synced = Len(t.open.entries)
      <4>1. t.open.synced = 0 /\ t.open.entries = <<>>
        <5> HIDE DEF t
        <5>. QED BY <3>7 DEF NewSegment
      <4> HIDE DEF t
      <4>. QED BY <4>1
    <3>9. ClosedSynced(t)
      <4> HIDE DEF t
      <4>. QED BY <3>7 DEF ClosedSynced
    <3> HIDE DEF t
    <3>. QED BY <1>10, <3>2, <3>7, <3>8, <3>9 DEF t
  <2>5. CASE ~Discards(st)
    <3>1. o = open
      BY <2>5
    <3>2. Fits(r, open, first, last)
      <4> HIDE DEF r, segs, open
      <4>. QED BY <1>2, <1>4, <1>5, <1>6, <1>10, <2>0 DEF Fits
    <3>3. GoodStore(b) /\ b.first = first /\ b.last = last /\ b.segments = r /\ b.open = open
      <4> HIDE DEF r, o, f, ll, b, open
      <4>. QED BY <1>8, <2>1, <2>3, <3>1, <3>2
    <3>4. /\ GoodStore(OpenSegment(b)) /\ OpenSegment(b).first = b.first
          /\ OpenSegment(b).last = b.last /\ OpenSegment(b).open # NoSegment
          /\ \/ OpenSegment(b) = b
             \/ /\ OpenSegment(b).open = NewSegment(b.last + 1)
                /\ \/ b.open = NoSegment
                   \/ b.open # NoSegment /\ OpenSegment(b).segments = Append(b.segments, b.open)
      <4> HIDE DEF b
      <4>. QED BY <3>3, OpenSegmentIs
    <3>5. /\ GoodStore(t) /\ t.first = first /\ t.last = last /\ t.open # NoSegment
          /\ \/ t.segments = r /\ t.open = open
             \/ t.segments = Append(r, open) /\ t.open = NewSegment(last + 1)
      <4> HIDE DEF b, t, r, o, f, ll, open
      <4>. QED BY <1>1, <1>10, <3>3, <3>4
    <3>6. ASSUME ClosedSynced(st), st.open.synced = Len(st.open.entries)
          PROVE  ClosedSynced(t) /\ t.open.synced = Len(t.open.entries)
      <4>1. \A k \in 1 .. Len(r) : r[k].synced = Len(r[k].entries)
        <5>1. DOMAIN segs = 1 .. Len(segs) /\ Len(r) = Len(segs)
              /\ \A k \in 1 .. Len(segs) : /\ r[k].entries = segs[k].entries
                                           /\ r[k].synced = segs[k].synced
          BY <1>2, RenamedChained
        <5>2. \A k \in DOMAIN segs : segs[k].synced = Len(segs[k].entries)
          BY <3>6 DEF ClosedSynced
        <5> HIDE DEF r, segs
        <5>. QED BY <5>1, <5>2
      <4>2. r \in Seq([first : Nat \ {0}, entries : Seq(Entries), synced : Nat, named : BOOLEAN])
        <5> HIDE DEF r
        <5>. QED BY <1>4 DEF Chained
      <4>3. CASE t.segments = r /\ t.open = open
        <5>1. ClosedSynced(t)
          <6>1. DOMAIN r = 1 .. Len(r)
            <7> HIDE DEF r
            <7>. QED BY <4>2
          <6> HIDE DEF r, t
          <6>. QED BY <4>1, <4>3, <6>1 DEF ClosedSynced
        <5>2. open.synced = Len(open.entries)
          BY <3>6
        <5> HIDE DEF t, open
        <5>. QED BY <4>3, <5>1, <5>2
      <4>4. CASE t.segments = Append(r, open) /\ t.open = NewSegment(last + 1)
        <5>1. t.open.synced = Len(t.open.entries)
          <6>1. t.open.synced = 0 /\ t.open.entries = <<>>
            <7> HIDE DEF t
            <7>. QED BY <4>4 DEF NewSegment
          <6> HIDE DEF t
          <6>. QED BY <6>1
        <5>2. open.synced = Len(open.entries)
          BY <3>6
        <5>3. open \in [first : Nat \ {0}, entries : Seq(Entries), synced : Nat, named : BOOLEAN]
          <6> HIDE DEF open
          <6>. QED BY <2>0 DEF IsSegment
        <5>4. ASSUME NEW k \in DOMAIN Append(r, open)
              PROVE  Append(r, open)[k].synced = Len(Append(r, open)[k].entries)
          <6>1. PICK g, x, R : /\ g = r /\ x = open
                               /\ R = [first : Nat \ {0}, entries : Seq(Entries), synced : Nat,
                                       named : BOOLEAN]
            OBVIOUS
          <6>2. g \in Seq(R) /\ x \in R /\ k \in DOMAIN Append(g, x)
            <7> HIDE DEF r, open
            <7>. QED BY <4>2, <5>3, <6>1
          <6>3. (k \in 1 .. Len(g) /\ Append(g, x)[k] = g[k]) \/ Append(g, x)[k] = x
            <7> HIDE DEF r, open
            <7>. QED BY <6>2
          <6> HIDE DEF r, open
          <6>. QED BY <4>1, <5>2, <6>1, <6>3
        <5>5. ClosedSynced(t)
          <6> HIDE DEF t, r, open
          <6>. QED BY <4>4, <5>4 DEF ClosedSynced
        <5> HIDE DEF t
        <5>. QED BY <5>1, <5>5
      <4> HIDE DEF t, r, open
      <4>. QED BY <3>5, <4>3, <4>4
    <3> HIDE DEF t
    <3>. QED BY <1>10, <3>5, <3>6 DEF t
  <2>. QED BY <2>4, <2>5
<1>. QED BY <1>9, <1>10

\* The entries of o are the first ones of s.
Beginning(o, s) == \A k \in 1 .. Len(o.entries) : s.entries[k] = o.entries[k]

(* What a power loss leaves of the open segment.                           *)
LEMMA LossIs ==
  ASSUME NEW st, GoodStore(st), st.open # NoSegment,
         NEW n \in st.open.synced .. Len(st.open.entries),
         NEW u, u = [st EXCEPT !.open.entries = SubSeq(@, 1, n), !.open.synced = n]
  PROVE  /\ u.segments = st.segments /\ u.set_aside = st.set_aside /\ u.open # NoSegment
         /\ IsSegment(u.open) /\ u.open.first = st.open.first
         /\ u.open.synced = Len(u.open.entries)
         /\ Fits(u.segments, u.open, st.first, LastIndex(u.open))
         /\ LastIndex(u.open) <= st.last
         /\ Beginning(u.open, st.open)
<1> DEFINE s == st.open
<1>1. /\ IsStore(st) /\ IsSegment(s) /\ st.last = LastIndex(s)
      /\ s.first = EndOf(st.segments, st.first) + 1
      /\ st.first \in Nat \ {0} /\ Chained(st.segments)
      /\ st.segments # <<>> => st.segments[1].first = st.first
  BY GoodFacts
<1>2. /\ IsSeg(s) /\ s.first \in Nat \ {0} /\ s.entries \in Seq(Entries) /\ s.synced \in Nat
      /\ s.named \in BOOLEAN /\ Len(s.entries) \in Nat /\ Len(s.entries) <= SegmentSize
      /\ LastIndex(s) = s.first + Len(s.entries) - 1
  BY <1>1, SegmentIs
<1>3. PICK es : es = SubSeq(s.entries, 1, n)
  OBVIOUS
<1>4. es \in Seq(Entries) /\ Len(es) = n /\ n \in Nat /\ n <= Len(s.entries)
  <2>1. PICK g : g = s.entries
    OBVIOUS
  <2>2. g \in Seq(Entries) /\ n \in 0 .. Len(g)
    <3> HIDE DEF s
    <3>1. n \in s.synced .. Len(s.entries)
      BY DEF s
    <3>. QED BY <1>2, <2>1, <3>1
  <2>3. SubSeq(g, 1, n) \in Seq(Entries) /\ Len(SubSeq(g, 1, n)) = n
    <3>1. \A i \in 1 .. n : g[i] \in Entries
      BY <2>2, ElementOfSeq
    <3>2. CASE n = 0
      BY <2>2, <3>2, SubSeqEmpty
    <3>3. CASE n > 0
      BY <2>2, <3>1, <3>3, SubSeqProperties
    <3>. QED BY <2>2, <3>2, <3>3
  <2> HIDE DEF s
  <2>. QED BY <1>2, <1>3, <2>1, <2>2, <2>3
<1>5. PICK o : o = Seg(s.first, es, n, s.named)
  OBVIOUS
<1>6. u = StoreOf(st.segments, o, st.first, st.last, st.set_aside)
  <2>1. u = [st EXCEPT !.open = [st.open EXCEPT !.entries = es, !.synced = n]]
    BY <1>3
  <2>2. [s EXCEPT !.entries = es, !.synced = n] = Seg(s.first, es, n, s.named)
    <3> HIDE DEF s
    <3>. QED BY <1>2, SegExceptTwo
  <2>3. u = [st EXCEPT !.open = o]
    BY <1>5, <2>1, <2>2
  <2>. QED BY <1>1, <2>3, StoreExceptOpen
<1>7. u.segments = st.segments /\ u.set_aside = st.set_aside /\ u.open = o
  BY ONLY <1>6 DEF StoreOf
<1>8. /\ IsSegment(o) /\ LastIndex(o) = s.first + n - 1 /\ o.first = s.first
      /\ o.synced = n /\ o.entries = es
  <2> HIDE DEF s
  <2>0. Len(es) <= SegmentSize /\ n <= Len(es)
    BY <1>2, <1>4, LogStoreAssumption
  <2>1. IsSegment(Seg(s.first, es, n, s.named))
        /\ LastIndex(Seg(s.first, es, n, s.named)) = s.first + Len(es) - 1
    BY <1>2, <1>4, <2>0, SegmentMade
  <2>2. o.first = s.first /\ o.synced = n /\ o.entries = es
    BY <1>5 DEF Seg
  <2>. QED BY <1>4, <1>5, <2>1, <2>2
<1>9. o # NoSegment /\ LastIndex(o) \in Nat
  BY <1>8, SegmentIs
<1>10. Fits(st.segments, o, st.first, LastIndex(o))
  <2> HIDE DEF s
  <2>. QED BY <1>1, <1>8, <1>9 DEF Fits
<1>11. LastIndex(o) <= st.last
  <2> HIDE DEF s
  <2>. QED BY <1>1, <1>2, <1>4, <1>8
<1>12. Beginning(u.open, st.open)
  <2>1. PICK g : g = s.entries
    OBVIOUS
  <2>2. g \in Seq(Entries) /\ n \in 0 .. Len(g) /\ es = SubSeq(g, 1, n)
    <3> HIDE DEF s
    <3>. QED BY <1>2, <1>3, <1>4, <2>1
  <2>3. Len(es) = n /\ \A k \in 1 .. n : es[k] = g[k]
    BY ONLY <2>2
  <2>. QED BY <1>7, <1>8, <2>1, <2>3 DEF Beginning
<1>. QED BY <1>4, <1>7, <1>8, <1>9, <1>10, <1>11, <1>12

(* Syncing the open segment changes nothing else.                          *)
LEMMA FlushIs ==
  ASSUME NEW st, GoodStore(st), st.open # NoSegment,
         NEW t, t = [st EXCEPT !.open = Synced(@)]
  PROVE  /\ GoodStore(t) /\ t.segments = st.segments /\ t.first = st.first /\ t.last = st.last
         /\ t.open # NoSegment /\ IsSegment(t.open) /\ t.open.first = st.open.first
         /\ t.open.entries = st.open.entries /\ LastIndex(t.open) = LastIndex(st.open)
         /\ t.open.synced = Len(st.open.entries) /\ t.set_aside = st.set_aside
<1> DEFINE s == st.open
<1>1. /\ IsStore(st) /\ IsSegment(s) /\ st.last = LastIndex(s) /\ st.last \in Nat
      /\ s.first = EndOf(st.segments, st.first) + 1 /\ st.set_aside \in BOOLEAN
      /\ st.first \in Nat \ {0} /\ Chained(st.segments)
      /\ st.segments # <<>> => st.segments[1].first = st.first
  BY GoodFacts
<1>2. /\ IsSeg(s) /\ s.first \in Nat \ {0} /\ s.entries \in Seq(Entries)
      /\ s.named \in BOOLEAN /\ Len(s.entries) \in Nat /\ Len(s.entries) <= SegmentSize
      /\ LastIndex(s) = s.first + Len(s.entries) - 1
  BY <1>1, SegmentIs
<1>3. PICK o : o = Seg(s.first, s.entries, Len(s.entries), s.named)
  OBVIOUS
<1>4. t = StoreOf(st.segments, o, st.first, st.last, st.set_aside)
  <2>1. t = [st EXCEPT !.open = [s EXCEPT !.synced = Len(s.entries)]]
    BY DEF Synced
  <2>2. PICK n : n = Len(s.entries)
    OBVIOUS
  <2>3. [s EXCEPT !.synced = n] = Seg(s.first, s.entries, n, s.named)
    <3> HIDE DEF s
    <3>. QED BY <1>2, SegExceptSynced
  <2>4. t = [st EXCEPT !.open = o]
    <3> HIDE DEF s
    <3>. QED BY <1>3, <2>1, <2>2, <2>3
  <2>. QED BY <1>1, <2>4, StoreExceptOpen
<1>5. /\ t.segments = st.segments /\ t.set_aside = st.set_aside /\ t.open = o
      /\ t.first = st.first /\ t.last = st.last /\ IsStore(t)
  <2>1. /\ t.segments = st.segments /\ t.set_aside = st.set_aside /\ t.open = o
        /\ t.first = st.first /\ t.last = st.last
    BY ONLY <1>4 DEF StoreOf
  <2>. QED BY ONLY <1>4, <2>1 DEF IsStore
<1>6. /\ IsSegment(o) /\ LastIndex(o) = LastIndex(s) /\ o.first = s.first
      /\ o.synced = Len(s.entries) /\ o.entries = s.entries
  <2> HIDE DEF s
  <2>1. PICK n : n = Len(s.entries)
    OBVIOUS
  <2>2. IsSegment(Seg(s.first, s.entries, n, s.named))
        /\ LastIndex(Seg(s.first, s.entries, n, s.named)) = s.first + Len(s.entries) - 1
    BY <1>2, <2>1, SegmentMade
  <2>3. o.first = s.first /\ o.synced = Len(s.entries) /\ o.entries = s.entries
    BY <1>3 DEF Seg
  <2>. QED BY <1>2, <1>3, <2>1, <2>2, <2>3
<1>7. o # NoSegment
  BY <1>6, SegmentIs
<1>8. Fits(st.segments, o, st.first, st.last)
  <2> HIDE DEF s
  <2>. QED BY <1>1, <1>6, <1>7 DEF Fits
<1>9. GoodStore(t)
  BY <1>1, <1>5, <1>8 DEF GoodStore
<1>. QED BY <1>5, <1>6, <1>7, <1>9

LEMMA FlushReads ==
  ASSUME NEW st, GoodStore(st), st.open # NoSegment,
         NEW t, t = [st EXCEPT !.open = Synced(@)],
         NEW i \in Nat, st.first <= i, i <= st.last
  PROVE  GetEntry(t, i) = GetEntry(st, i)
<1>1. /\ GoodStore(t) /\ t.segments = st.segments /\ t.first = st.first /\ t.last = st.last
      /\ t.open # NoSegment /\ t.open.first = st.open.first
      /\ t.open.entries = st.open.entries /\ LastIndex(t.open) = LastIndex(st.open)
  BY FlushIs
<1>2. CASE Holds(st.open, i)
  <2>1. Holds(t.open, i)
    BY <1>1, <1>2 DEF Holds
  <2>. QED BY <1>1, <1>2, <2>1, ReadOpen
<1>3. CASE \E k \in 1 .. Len(st.segments) : Holds(st.segments[k], i)
  <2>1. PICK k \in 1 .. Len(st.segments) : Holds(st.segments[k], i)
    BY <1>3
  <2>2. GetEntry(st, i) = st.segments[k].entries[i - st.segments[k].first + 1]
    BY <2>1, ReadClosed
  <2>3. k \in 1 .. Len(t.segments) /\ Holds(t.segments[k], i)
    BY <1>1, <2>1
  <2>4. GetEntry(t, i) = t.segments[k].entries[i - t.segments[k].first + 1]
    BY <1>1, <2>3, ReadClosed, ZenonT(30)
  <2>. QED BY <1>1, <2>2, <2>4
<1>. QED BY <1>2, <1>3, Cover

-----------------------------------------------------------------------------
(* What a power loss cannot take: every index up to d.  Closed segments are *)
(* looked at apart.                                                        *)

SyncedUpTo(st, d) ==
    /\ d <= st.last
    /\ st.open # NoSegment => d < st.open.first + st.open.synced

LEMMA AppendSynced ==
  ASSUME NEW st, GoodStore(st), NEW e \in Entries, NEW d \in Nat, SyncedUpTo(st, d)
  PROVE  SyncedUpTo(AppendEntry(st, e), d)
<1> DEFINE o == OpenSegment(st)
           t == AppendEntry(st, e)
<1>1. /\ t.last = st.last + 1 /\ t.open.first = o.open.first /\ t.open.synced = o.open.synced
      /\ st.last \in Nat
  BY AppendEntryIs, GoodFacts
<1>2. /\ o.open # NoSegment /\ IsSegment(o.open)
      /\ o = st \/ o.open = NewSegment(st.last + 1)
  BY OpenSegmentIs
<1>3. d < o.open.first + o.open.synced
  <2>1. CASE o = st
    <3> HIDE DEF o
    <3>. QED BY <1>2, <2>1 DEF SyncedUpTo
  <2>2. CASE o.open = NewSegment(st.last + 1)
    <3>1. o.open.first = st.last + 1 /\ o.open.synced = 0
      <4> HIDE DEF o
      <4>. QED BY <2>2 DEF NewSegment
    <3> HIDE DEF o
    <3>. QED BY <1>1, <3>1 DEF SyncedUpTo
  <2>. QED BY <1>2, <2>1, <2>2
<1> HIDE DEF o, t
<1>4. SyncedUpTo(t, d)
  BY <1>1, <1>3 DEF SyncedUpTo
<1>. QED BY <1>4 DEF t

LEMMA TruncateSynced ==
  ASSUME NEW st, GoodStore(st), OpenThere(st), ClosedSynced(st), NEW kept, kept \in Nat,
         st.first <= kept + 1, kept < st.last,
         NEW d \in Nat, SyncedUpTo(st, d), d <= kept
  PROVE  SyncedUpTo(TruncateLog(st, kept), d)
<1> DEFINE t == TruncateLog(st, kept)
<1>1. /\ GoodStore(t) /\ t.last = kept
      /\ \E m \in 0 .. Len(st.segments) :
            \/ t.open = NoSegment
            \/ m = Len(st.segments) /\ st.open # NoSegment
               /\ st.open.first <= kept /\ t.open = Truncate(st.open, kept)
            \/ /\ m < Len(st.segments)
               /\ st.segments[m + 1].first <= kept
               /\ kept < LastIndex(st.segments[m + 1])
               /\ t.open = Truncate(st.segments[m + 1], kept)
  BY TruncateLogIs
<1> HIDE DEF t
<1>2. ASSUME NEW s, IsSegment(s), s.first <= kept, kept <= LastIndex(s), d < s.first + s.synced,
             t.open = Truncate(s, kept)
      PROVE  d < t.open.first + t.open.synced
  <2>1. /\ t.open.first = s.first
        /\ t.open.synced = IF kept + 1 - s.first < s.synced THEN kept + 1 - s.first ELSE s.synced
    <3>1. s.first <= kept + 1
      BY <1>2, SegmentIs
    <3>2. /\ Truncate(s, kept).first = s.first
          /\ Truncate(s, kept).synced
               = IF kept + 1 - s.first < s.synced THEN kept + 1 - s.first ELSE s.synced
      BY <1>2, <3>1, TruncateIs
    <3>. QED BY <1>2, <3>2
  <2>2. s.first \in Nat /\ s.synced \in Nat
    BY <1>2, SegmentIs
  <2>. QED BY <1>2, <2>1, <2>2
<1>3. ASSUME t.open # NoSegment PROVE d < t.open.first + t.open.synced
  <2>1. CASE st.open # NoSegment /\ st.open.first <= kept /\ t.open = Truncate(st.open, kept)
    <3>1. IsSegment(st.open) /\ st.last = LastIndex(st.open) /\ st.last \in Nat
      BY <2>1, GoodFacts
    <3>2. d < st.open.first + st.open.synced
      BY <2>1 DEF SyncedUpTo
    <3>3. kept <= LastIndex(st.open)
      BY <3>1
    <3>. QED BY <1>2, <2>1, <3>1, <3>2, <3>3
  <2>2. ASSUME NEW k \in 1 .. Len(st.segments), st.segments[k].first <= kept,
               kept < LastIndex(st.segments[k]), t.open = Truncate(st.segments[k], kept)
        PROVE  d < t.open.first + t.open.synced
    <3>1. PICK s : s = st.segments[k]
      OBVIOUS
    <3>2. /\ IsSegment(s) /\ s.synced = Len(s.entries)
      BY <3>1, GoodFacts, ChainedSegments DEF ClosedSynced
    <3>3. /\ s.first \in Nat /\ Len(s.entries) \in Nat /\ LastIndex(s) \in Nat
          /\ LastIndex(s) = s.first + Len(s.entries) - 1
      BY <3>2, SegmentIs
    <3>4. s.first <= kept /\ kept <= LastIndex(s) /\ d < s.first + s.synced
          /\ t.open = Truncate(s, kept)
      BY <2>2, <3>1, <3>2, <3>3
    <3>. QED BY <1>2, <3>2, <3>4
  <2>3. Len(st.segments) \in Nat
    BY GoodFacts
  <2>4. PICK m \in 0 .. Len(st.segments) :
            \/ st.open # NoSegment /\ st.open.first <= kept /\ t.open = Truncate(st.open, kept)
            \/ /\ m < Len(st.segments)
               /\ st.segments[m + 1].first <= kept
               /\ kept < LastIndex(st.segments[m + 1])
               /\ t.open = Truncate(st.segments[m + 1], kept)
    BY <1>1, <1>3
  <2>5. m < Len(st.segments) => m + 1 \in 1 .. Len(st.segments)
    BY <2>3
  <2>. QED BY <2>1, <2>2, <2>4, <2>5
<1>4. SyncedUpTo(t, d)
  BY <1>1, <1>3 DEF SyncedUpTo
<1>. QED BY <1>4 DEF t

LEMMA WriteSynced ==
  ASSUME NEW st, GoodStore(st), OpenThere(st), NEW e \in Entries,
         NEW i \in Nat, st.first <= i, i <= st.last + 1,
         i <= st.last => ClosedSynced(st),
         NEW d \in Nat, SyncedUpTo(st, d), d < i
  PROVE  SyncedUpTo(WriteEntryAt(st, i, e), d)
<1> DEFINE u == TruncateLog(st, i - 1)
<1>1. st.first \in Nat \ {0} /\ st.last \in Nat
  BY GoodFacts
<1>2. PICK kept : kept = i - 1 /\ kept \in Nat /\ d <= kept /\ st.first <= kept + 1
  BY <1>1
<1>3. GoodStore(u) /\ u.last = i - 1 /\ SyncedUpTo(u, d)
  <2>1. CASE i <= st.last
    <3>1. kept < st.last
      BY <1>1, <1>2, <2>1
    <3>2. GoodStore(TruncateLog(st, kept)) /\ TruncateLog(st, kept).last = kept
      BY <1>2, <3>1, TruncateLogIs
    <3>3. SyncedUpTo(TruncateLog(st, kept), d)
      BY <1>2, <2>1, <3>1, TruncateSynced
    <3>. QED BY <1>2, <3>2, <3>3
  <2>2. CASE i = st.last + 1
    <3>1. st.last <= kept /\ kept = st.last /\ ~(st.last > kept)
      BY <1>1, <1>2, <2>2
    <3>2. TruncateLog(st, kept) = st
      BY <3>1 DEF TruncateLog
    <3>. QED BY <1>2, <3>1, <3>2
  <2>. QED BY <1>1, <2>1, <2>2
<1>4. WriteEntryAt(st, i, e) = AppendEntry(u, e)
  <2>1. i = u.last + 1
    <3> HIDE DEF u
    <3>. QED BY <1>1, <1>3
  <2>. QED BY <2>1 DEF WriteEntryAt
<1> HIDE DEF u
<1>. QED BY <1>3, <1>4, AppendSynced

-----------------------------------------------------------------------------
(* The specification.                                                      *)

\* No compaction leaves exactly one entry, after which last_log_index is wrong.
NeverOneLeft == \A f \in FaultSets : "one_left" \notin f

\* Power is lost only where segments are closed when they are synced, durable
\* entries are not overwritten, and the process is not killed before.
PowerAlone == \A f \in FaultSets : "power" \in f => f \cap {"roll", "rewrite", "kill"} = {}

LogOK == GoodStore(store) /\ OpenThere(store) /\ store.last <= MaxIndex

Others ==
    /\ log_queue.entry_vec \in [0 .. CacheSize - 1 -> Entries \cup {NoEntry}]
    /\ log_queue.max_index \in 0 .. MaxIndex
    /\ last_log_entry \in Entries \cup {NoEntry}
    /\ disk_last_durable_index \in 0 .. MaxIndex
    /\ parallel_fsync_event \in BOOLEAN
    /\ last_flush_index \in 0 .. MaxIndex
    /\ fsync_pc \in {"wait", "publish"}
    /\ snapshot \in 0 .. MaxIndex
    /\ faults \in FaultSets

LogInv == LogOK /\ Others

\* The log is empty and begins behind what a snapshot covers.
Emptied(st) == st.open = NoSegment /\ st.segments = <<>> /\ st.first = st.last + 1

\* A compaction has removed whole segments at the front.
Shortened(st, t) ==
    /\ t.open = st.open /\ t.last = st.last /\ st.first <= t.first
    /\ \E m \in 0 .. Len(st.segments) :
           t.segments = SubSeq(st.segments, m + 1, Len(st.segments))

LEMMA CompactStep ==
  ASSUME NeverOneLeft, LogOK, faults \in FaultSets,
         NEW i \in Nat, i <= MaxIndex, CompactLog(i)
  PROVE  /\ LogOK' /\ store.last <= store'.last
         /\ \/ store' = store
            \/ Shortened(store, store') /\ store'.first <= i + 1
            \/ Emptied(store') /\ store'.last = i
<1>1. "one_left" \notin faults
  BY DEF NeverOneLeft
<1>2. /\ GoodStore(store) /\ OpenThere(store) /\ store.last <= MaxIndex
      /\ store.first \in Nat \ {0} /\ store.last \in Nat /\ MaxIndex \in Nat
  BY GoodFacts, LogStoreAssumption DEF LogOK
<1>3. PICK kept \in Nat : kept = i + 1
  OBVIOUS
<1>4. store' = RemoveSegment(store, kept) /\ (LeavesOne(store') => store' = store)
  BY <1>1, <1>3 DEF CompactLog
<1>5. CASE store.first >= kept
  <2>1. store' = store
    BY <1>4, <1>5 DEF RemoveSegment
  <2>. QED BY <1>2, <2>1 DEF LogOK
<1>6. CASE store.first < kept
  <2>1. PICK t : t = store'
    OBVIOUS
  <2>2. PICK st : st = store
    OBVIOUS
  <2>3. t = RemoveSegment(st, kept) /\ GoodStore(st) /\ OpenThere(st) /\ st.first < kept
        /\ (LeavesOne(RemoveSegment(st, kept)) => RemoveSegment(st, kept) = st)
    BY <1>2, <1>4, <1>6, <2>1, <2>2
  <2>4. /\ GoodStore(t) /\ OpenThere(t)
        /\ \/ /\ st.first <= t.first /\ t.first <= kept
              /\ t.last = st.last /\ t.open = st.open
              /\ \E m \in 0 .. Len(st.segments) :
                     t.segments = SubSeq(st.segments, m + 1, Len(st.segments))
           \/ /\ st.last < kept /\ t.first = kept /\ t.last = kept - 1
              /\ t.open = NoSegment /\ t.segments = <<>>
    BY <2>3, RemoveSegmentIs
  <2>5. CASE Shortened(st, t) /\ t.first <= kept
    <3>1. t.last = st.last /\ t.first <= i + 1
      BY <1>3, <2>5 DEF Shortened
    <3>. QED BY <1>2, <2>1, <2>2, <2>4, <2>5, <3>1 DEF LogOK
  <2>6. CASE st.last < kept /\ t.first = kept /\ t.last = kept - 1
             /\ t.open = NoSegment /\ t.segments = <<>>
    <3>1. t.last = i /\ Emptied(t) /\ st.last <= t.last
      BY <1>2, <1>3, <2>2, <2>6 DEF Emptied
    <3>. QED BY <1>2, <2>1, <2>2, <2>4, <3>1 DEF LogOK
  <2>7. \/ Shortened(st, t) /\ t.first <= kept
        \/ (st.last < kept /\ t.first = kept /\ t.last = kept - 1
                              /\ t.open = NoSegment /\ t.segments = <<>>)
    BY <2>4 DEF Shortened
  <2>. QED BY <2>5, <2>6, <2>7
<1>. QED BY <1>2, <1>5, <1>6

LEMMA StartStep ==
  ASSUME NEW st, NEW first, NEW last, Fits(st.segments, st.open, first, last), last <= MaxIndex,
         OpenThere(st), st.set_aside \in BOOLEAN, snapshot \in 0 .. MaxIndex, Start(st)
  PROVE  /\ LogOK' /\ Load(st).last \in 0 .. MaxIndex /\ Load(st).last <= store'.last
         /\ GoodStore(Load(st)) /\ Load(st).open # NoSegment
         /\ \/ store' = Load(st) /\ ~(Load(st).last + 1 <= snapshot)
            \/ Emptied(store') /\ store'.last = snapshot /\ snapshot >= 1
<1> DEFINE t == Load(st)
<1>1. /\ GoodStore(t) /\ t.open # NoSegment
      /\ st.open # NoSegment => t.first = first /\ t.last = last
      /\ st.open = NoSegment => t.first = 1 /\ t.last = 0
  BY LoadIs, ZenonT(30)
<1>2. store' = IF t.last + 1 <= snapshot THEN RemoveSegment(t, snapshot + 1) ELSE t
  BY DEF Start
<1> HIDE DEF t
<1>3. t.last \in Nat /\ t.last <= MaxIndex /\ MaxIndex \in Nat /\ t.first <= t.last + 1
      /\ t.first \in Nat
  BY <1>1, GoodFacts, LogStoreAssumption
<1>4. OpenThere(t)
  BY <1>1 DEF OpenThere
<1>5. CASE ~(t.last + 1 <= snapshot)
  <2>1. store' = t
    BY <1>2, <1>5
  <2>. QED BY <1>1, <1>3, <1>4, <1>5, <2>1 DEF LogOK, t
<1>6. CASE t.last + 1 <= snapshot
  <2>1. PICK kept \in Nat : kept = snapshot + 1
    OBVIOUS
  <2>2. t.first < kept /\ ~(kept <= t.last)
    BY <1>3, <1>6, <2>1
  <2>3. PICK v : v = store'
    OBVIOUS
  <2>4. v = RemoveSegment(t, kept)
    BY <1>2, <1>6, <2>1, <2>3
  <2>5. /\ GoodStore(v) /\ OpenThere(v)
        /\ \/ kept <= t.last
           \/ v.first = kept /\ v.last = kept - 1 /\ v.open = NoSegment /\ v.segments = <<>>
    BY <1>1, <1>4, <2>2, <2>4, RemoveSegmentIs
  <2>6. v.last = snapshot /\ Emptied(v)
    BY <2>1, <2>2, <2>5 DEF Emptied
  <2>. QED BY <1>1, <1>3, <1>6, <2>3, <2>5, <2>6 DEF LogOK, t
<1>. QED BY <1>5, <1>6

LEMMA EmptyQueueIs ==
  /\ EmptyQueue.entry_vec \in [0 .. CacheSize - 1 -> Entries \cup {NoEntry}]
  /\ EmptyQueue.max_index = 0
BY DEF EmptyQueue

LEMMA ModInRange ==
  ASSUME NEW i \in Nat
  PROVE  i % CacheSize \in 0 .. CacheSize - 1
BY LogStoreAssumption

LEMMA PutEntryIs ==
  ASSUME log_queue.entry_vec \in [0 .. CacheSize - 1 -> Entries \cup {NoEntry}],
         log_queue.max_index \in Nat, NEW i \in Nat, NEW e \in Entries
  PROVE  LET q == PutEntry(log_queue, i, e)
         IN  /\ q.entry_vec \in [0 .. CacheSize - 1 -> Entries \cup {NoEntry}]
             /\ q.entry_vec[i % CacheSize] = e
             /\ q.max_index = IF i > log_queue.max_index THEN i ELSE log_queue.max_index
<1>1. i % CacheSize \in 0 .. CacheSize - 1
  BY ModInRange
<1>2. PICK k : k = i % CacheSize
  OBVIOUS
<1>3. PICK v : v = log_queue.entry_vec
  OBVIOUS
<1>4. /\ [v EXCEPT ![k] = e] \in [0 .. CacheSize - 1 -> Entries \cup {NoEntry}]
      /\ [v EXCEPT ![k] = e][k] = e
  BY <1>1, <1>2, <1>3
<1>. QED BY <1>2, <1>3, <1>4 DEF PutEntry

LEMMA StartInv ==
  ASSUME NEW st, NEW first, NEW last, Fits(st.segments, st.open, first, last), last <= MaxIndex,
         OpenThere(st), st.set_aside \in BOOLEAN, Others, Start(st)
  PROVE  LogInv'
<1>1. snapshot \in 0 .. MaxIndex
  BY DEF Others
<1>2. LogOK' /\ Load(st).last \in 0 .. MaxIndex /\ GoodStore(Load(st))
  BY <1>1, StartStep
<1>3. PICK t : t = Load(st)
  OBVIOUS
<1>4. /\ log_queue' = EmptyQueue
      /\ last_log_entry' = IF t.last < 1 THEN NoEntry ELSE GetEntry(t, t.last)
      /\ disk_last_durable_index' = t.last
      /\ parallel_fsync_event' = FALSE
      /\ last_flush_index' = 0
      /\ fsync_pc' = "wait"
      /\ snapshot' = snapshot /\ faults' = faults
  BY <1>3 DEF Start
<1>5. last_log_entry' \in Entries \cup {NoEntry}
  <2>1. t.last \in Nat /\ t.first \in Nat /\ GoodStore(t)
    BY <1>2, <1>3, GoodFacts
  <2>2. CASE t.first <= t.last
    BY <1>4, <2>1, <2>2, ReadEntries
  <2>3. CASE t.last < t.first
    BY <1>4, <2>3 DEF GetEntry
  <2>. QED BY <2>1, <2>2, <2>3
<1>6. 0 \in 0 .. MaxIndex
  BY LogStoreAssumption
<1>. QED BY <1>2, <1>3, <1>4, <1>5, <1>6, EmptyQueueIs DEF LogInv, Others

LEMMA LogInvInit == Init => LogInv
<1> SUFFICES ASSUME Init PROVE LogInv
  OBVIOUS
<1>1. MaxIndex \in Nat /\ 0 \in 0 .. MaxIndex
  BY LogStoreAssumption
<1>2. /\ IsSegment(NewSegment(1)) /\ NewSegment(1) # NoSegment /\ NewSegment(1).first = 1
      /\ LastIndex(NewSegment(1)) = 0
  <2>1. PICK i \in Nat \ {0} : i = 1
    OBVIOUS
  <2>2. /\ IsSegment(NewSegment(i)) /\ NewSegment(i) # NoSegment /\ NewSegment(i).first = i
        /\ LastIndex(NewSegment(i)) = i - 1
    BY NewSegmentMade
  <2>. QED BY <2>1, <2>2
<1>3. Fits(<<>>, NewSegment(1), 1, 0)
  BY <1>2 DEF Fits, Chained, EndOf
<1>4. PICK o : o = NewSegment(1)
  OBVIOUS
<1>5. store = StoreOf(<<>>, o, 1, 0, FALSE)
  BY <1>4 DEF Init, StoreOf
<1>6. /\ store.segments = <<>> /\ store.open = o /\ store.first = 1 /\ store.last = 0
      /\ store.set_aside = FALSE
  BY ONLY <1>5 DEF StoreOf
<1>7. IsStore(store)
  BY ONLY <1>5, <1>6 DEF IsStore
<1>8. LogOK
  <2>1. Fits(<<>>, o, 1, 0) /\ o # NoSegment
    BY <1>2, <1>3, <1>4
  <2>2. GoodStore(store)
    BY ONLY <1>6, <1>7, <2>1 DEF GoodStore
  <2>3. OpenThere(store) /\ store.last <= MaxIndex
    BY ONLY <1>1, <1>6, <2>1 DEF OpenThere
  <2>. QED BY <2>2, <2>3 DEF LogOK
<1>. QED BY <1>1, <1>8, EmptyQueueIs DEF LogInv, Others, Init

LEMMA LogInvStep ==
  ASSUME NeverOneLeft, LogInv, [Next]_vars
  PROVE  LogInv'
<1>1. /\ LogOK /\ Others /\ GoodStore(store) /\ OpenThere(store) /\ store.last <= MaxIndex
      /\ store.first \in Nat \ {0} /\ store.last \in Nat /\ store.first <= store.last + 1
      /\ MaxIndex \in Nat /\ store.set_aside \in BOOLEAN
      /\ Fits(store.segments, store.open, store.first, store.last)
  BY GoodFacts, LogStoreAssumption DEF LogInv, LogOK, GoodStore
<1>2. CASE UNCHANGED vars
  <2>1. LogOK'
    BY <1>1, <1>2 DEF vars, LogOK
  <2>2. Others'
    BY <1>1, <1>2 DEF vars, fsyncVars, Others
  <2>. QED BY <2>1, <2>2 DEF LogInv
<1>3. ASSUME NEW e \in Entries, AppendLog(e) PROVE LogInv'
  <2>1. PICK t : t = AppendEntry(store, e)
    OBVIOUS
  <2>2. store' = t /\ store.last < MaxIndex
    BY <1>3, <2>1 DEF AppendLog
  <2>3. GoodStore(t) /\ t.last = store.last + 1 /\ t.open # NoSegment
    BY <1>1, <2>1, AppendEntryIs
  <2>4. LogOK'
    BY <1>1, <2>2, <2>3 DEF LogOK, OpenThere
  <2>5. PICK i \in Nat : i = store.last + 1
    BY <1>1
  <2>6. PICK q : q = PutEntry(log_queue, i, e)
    OBVIOUS
  <2>7. log_queue' = q
    BY <1>3, <2>2, <2>3, <2>5, <2>6 DEF AppendLog
  <2>8. log_queue.entry_vec \in [0 .. CacheSize - 1 -> Entries \cup {NoEntry}]
        /\ log_queue.max_index \in 0 .. MaxIndex /\ log_queue.max_index \in Nat
    BY <1>1 DEF Others
  <2>9. /\ q.entry_vec \in [0 .. CacheSize - 1 -> Entries \cup {NoEntry}]
        /\ q.max_index = IF i > log_queue.max_index THEN i ELSE log_queue.max_index
    BY <2>6, <2>8, PutEntryIs
  <2>10. q.max_index \in 0 .. MaxIndex
    BY <1>1, <2>2, <2>5, <2>8, <2>9
  <2>11. Others'
    BY <1>1, <1>3, <2>7, <2>9, <2>10 DEF AppendLog, Others
  <2>. QED BY <2>4, <2>11 DEF LogInv
<1>4. ASSUME NEW i \in store.first .. store.last, NEW e \in Entries, WriteAt(i, e) PROVE LogInv'
  <2>1. PICK t : t = WriteEntryAt(store, i, e)
    OBVIOUS
  <2>2. store' = t
    BY <1>4, <2>1 DEF WriteAt
  <2>3. i \in Nat /\ store.first <= i /\ i <= store.last + 1 /\ i <= MaxIndex
    BY <1>1
  <2>4. GoodStore(t) /\ t.last = i /\ t.open # NoSegment
    BY <1>1, <2>1, <2>3, WriteEntryAtIs
  <2>5. LogOK'
    BY <2>2, <2>3, <2>4 DEF LogOK, OpenThere
  <2>6. log_queue' = EmptyQueue
    BY <1>4, <2>2, <2>4 DEF WriteAt
  <2>7. 0 \in 0 .. MaxIndex
    BY <1>1
  <2>8. Others'
    BY <1>1, <1>4, <2>6, <2>7, EmptyQueueIs DEF WriteAt, Others
  <2>. QED BY <2>5, <2>8 DEF LogInv
<1>5. CASE EndOfAppendBatch
  <2>1. LogOK'
    BY <1>1, <1>5 DEF EndOfAppendBatch, LogOK
  <2>2. Others'
    BY <1>1, <1>5 DEF EndOfAppendBatch, Others
  <2>. QED BY <2>1, <2>2 DEF LogInv
<1>6. ASSUME NEW e \in Entries, NEW f \in Entries, ApplyPack(e, f) PROVE LogInv'
  <2>1. PICK i \in Nat : i = store.last + 1
    BY <1>1
  <2>2. PICK u : u = WriteEntryAt(store, i, e)
    OBVIOUS
  <2>3. GoodStore(u) /\ u.last = i /\ u.open # NoSegment /\ u.first = store.first
    BY <1>1, <2>1, <2>2, WriteEntryAtIs
  <2>4. PICK j \in Nat : j = u.last + 1
    BY <2>3
  <2>5. PICK t : t = WriteEntryAt(u, j, f)
    OBVIOUS
  <2>6. OpenThere(u)
    BY <2>3 DEF OpenThere
  <2>7. GoodStore(t) /\ t.last = j /\ t.open # NoSegment
    BY <1>1, <2>1, <2>3, <2>4, <2>5, <2>6, WriteEntryAtIs
  <2>8. store' = t /\ store.last + 1 < MaxIndex
    BY <1>6, <2>1, <2>2, <2>4, <2>5 DEF ApplyPack
  <2>9. LogOK'
    BY <1>1, <2>1, <2>3, <2>4, <2>7, <2>8 DEF LogOK, OpenThere
  <2>10. Others'
    BY <1>1, <1>6 DEF ApplyPack, Others
  <2>. QED BY <2>9, <2>10 DEF LogInv
<1>7. CASE Fsync
  <2>1. CASE store.open = NoSegment
    <3>1. store' = store /\ last_flush_index' = 0
      BY <1>7, <2>1 DEF Fsync
    <3>2. LogOK'
      BY <1>1, <3>1 DEF LogOK
    <3>3. 0 \in 0 .. MaxIndex /\ fsync_pc' \in {"wait", "publish"}
      BY <1>1, <1>7 DEF Fsync
    <3>4. Others'
      BY <1>1, <1>7, <3>1, <3>3 DEF Fsync, Others
    <3>. QED BY <3>2, <3>4 DEF LogInv
  <2>2. CASE store.open # NoSegment
    <3>1. PICK t : t = [store EXCEPT !.open = Synced(@)]
      OBVIOUS
    <3>2. store' = t /\ last_flush_index' = LastIndex(store.open)
      BY <1>7, <2>2, <3>1 DEF Fsync
    <3>3. /\ GoodStore(t) /\ t.last = store.last /\ t.open # NoSegment
      BY <1>1, <2>2, <3>1, FlushIs
    <3>4. LogOK'
      BY <1>1, <3>2, <3>3 DEF LogOK, OpenThere
    <3>5. LastIndex(store.open) = store.last
      BY <1>1, <2>2, GoodFacts
    <3>6. last_flush_index' \in 0 .. MaxIndex
      BY <1>1, <3>2, <3>5
    <3>7. fsync_pc' \in {"wait", "publish"}
      BY <1>7 DEF Fsync
    <3>8. Others'
      BY <1>1, <1>7, <3>6, <3>7 DEF Fsync, Others
    <3>. QED BY <3>4, <3>8 DEF LogInv
  <2>. QED BY <2>1, <2>2
<1>8. CASE Publish
  <2>1. LogOK'
    BY <1>1, <1>8 DEF Publish, LogOK
  <2>2. Others'
    BY <1>1, <1>8 DEF Publish, Others
  <2>. QED BY <2>1, <2>2 DEF LogInv
<1>9. ASSUME NEW i \in Nat, i <= MaxIndex, CompactLog(i), snapshot' \in 0 .. MaxIndex
      PROVE  LogInv'
  <2>1. LogOK'
    BY <1>1, <1>9, CompactStep DEF Others
  <2>2. Others'
    BY <1>1, <1>9, EmptyQueueIs DEF CompactLog, Others, fsyncVars
  <2>. QED BY <2>1, <2>2 DEF LogInv
<1>10. ASSUME NEW i \in 1 .. MaxIndex, CreateSnapshot(i) PROVE LogInv'
  <2>1. snapshot' \in 0 .. MaxIndex
    BY <1>1, <1>10 DEF CreateSnapshot
  <2>2. CASE i > Reserved
    <3>1. PICK j \in Nat : j = i - Reserved /\ j <= MaxIndex
      BY <1>1, <2>2, LogStoreAssumption
    <3>2. CompactLog(j)
      BY <1>10, <2>2, <3>1 DEF CreateSnapshot
    <3>. QED BY <1>9, <2>1, <3>1, <3>2
  <2>3. CASE ~(i > Reserved)
    <3>1. UNCHANGED <<store, log_queue, last_log_entry, fsyncVars, faults>>
      BY <1>10, <2>3 DEF CreateSnapshot
    <3>2. LogOK'
      BY <1>1, <3>1 DEF LogOK
    <3>3. Others'
      BY <1>1, <2>1, <3>1 DEF Others, fsyncVars
    <3>. QED BY <3>2, <3>3 DEF LogInv
  <2>. QED BY <2>2, <2>3
<1>11. ASSUME NEW i \in 1 .. MaxIndex, ReceiveSnapshot(i) PROVE LogInv'
  <2>1. i \in Nat /\ i <= MaxIndex /\ snapshot' \in 0 .. MaxIndex /\ CompactLog(i)
    BY <1>1, <1>11 DEF ReceiveSnapshot
  <2>. QED BY <1>9, <2>1
<1>12. CASE Restart
  BY <1>1, <1>12, StartInv DEF Restart
<1>13. CASE PowerLoss
  <2>1. CASE store.open = NoSegment
    <3>1. Start(store)
      BY <1>13, <2>1 DEF PowerLoss
    <3>. QED BY <1>1, <3>1, StartInv
  <2>2. CASE store.open # NoSegment
    <3>1. PICK n \in store.open.synced .. Len(store.open.entries) :
              Start([store EXCEPT !.open.entries = SubSeq(@, 1, n), !.open.synced = n])
      BY <1>13, <2>2 DEF PowerLoss
    <3>2. PICK u : u = [store EXCEPT !.open.entries = SubSeq(@, 1, n), !.open.synced = n]
      OBVIOUS
    <3>3. /\ u.segments = store.segments /\ u.set_aside = store.set_aside /\ u.open # NoSegment
          /\ Fits(u.segments, u.open, store.first, LastIndex(u.open))
          /\ IsSegment(u.open) /\ LastIndex(u.open) <= store.last
      <4>1. GoodStore(store)
        BY <1>1
      <4>. QED BY ONLY <2>2, <3>2, <4>1, n \in store.open.synced .. Len(store.open.entries), LossIs, ZenonT(30)
    <3>4. LastIndex(u.open) <= MaxIndex
      <4>1. LastIndex(u.open) \in Nat
        BY <3>3, SegmentIs
      <4>. QED BY <1>1, <3>3, <4>1
    <3>5. OpenThere(u)
      BY <3>3 DEF OpenThere
    <3>6. Start(u)
      BY <3>1, <3>2
    <3>. QED BY <1>1, <3>3, <3>4, <3>5, <3>6, StartInv
  <2>. QED BY <2>1, <2>2
<1>. QED BY <1>2, <1>3, <1>4, <1>5, <1>6, <1>7, <1>8, <1>10, <1>11, <1>12, <1>13 DEF Next

-----------------------------------------------------------------------------
(* Types and files.                                                        *)

LEMMA SegmentType ==
  ASSUME NEW s, IsSegment(s), s.first <= MaxIndex + 1
  PROVE  s \in Segments
<1>1. /\ IsSeg(s) /\ s.first \in Nat \ {0} /\ s.entries \in Seq(Entries) /\ s.synced \in Nat
      /\ s.named \in BOOLEAN /\ Len(s.entries) \in Nat /\ Len(s.entries) <= SegmentSize
      /\ s.synced <= Len(s.entries)
  BY SegmentIs
<1>2. s.first \in 1 .. MaxIndex + 1 /\ s.synced \in 0 .. SegmentSize
      /\ Len(s.entries) \in 0 .. SegmentSize
  BY <1>1, LogStoreAssumption
<1>3. PICK es, n : es = s.entries /\ n = Len(s.entries)
  OBVIOUS
<1>4. es \in [1 .. n -> Entries] /\ n \in 0 .. SegmentSize
  BY <1>1, <1>2, <1>3
<1>5. s.entries \in UNION {[1 .. k -> Entries] : k \in 0 .. SegmentSize}
  BY <1>3, <1>4
<1>6. PICK E : E = UNION {[1 .. k -> Entries] : k \in 0 .. SegmentSize}
  OBVIOUS
<1>7. s \in [first : 1 .. MaxIndex + 1, entries : E, synced : 0 .. SegmentSize, named : BOOLEAN]
  BY <1>1, <1>2, <1>5, <1>6 DEF IsSeg, Seg
<1>. QED BY <1>6, <1>7 DEF Segments

LEMMA LogInvTypes == LogInv => TypeOK
<1> SUFFICES ASSUME LogInv PROVE TypeOK
  OBVIOUS
<1>1. GoodStore(store) /\ store.last <= MaxIndex /\ MaxIndex \in Nat
  BY LogStoreAssumption DEF LogInv, LogOK
<1>2. /\ store.first \in Nat \ {0} /\ store.last \in Nat /\ store.set_aside \in BOOLEAN
      /\ DOMAIN store.segments = 1 .. Len(store.segments)
      /\ store.first <= store.last + 1
      /\ Chained(store.segments)
      /\ \A k \in 1 .. Len(store.segments) : LastIndex(store.segments[k]) <= store.last
  BY <1>1, GoodFacts
<1>3. store.open \in Segments
  <2>1. CASE store.open = NoSegment
    BY <2>1 DEF Segments, NoSegment
  <2>2. CASE store.open # NoSegment
    <3>1. PICK s : s = store.open
      OBVIOUS
    <3>2. IsSegment(s) /\ store.last = LastIndex(s)
      BY <1>1, <2>2, <3>1, GoodFacts
    <3>3. s.first \in Nat /\ Len(s.entries) \in Nat
          /\ LastIndex(s) = s.first + Len(s.entries) - 1
      BY <3>2, SegmentIs
    <3>4. s.first <= MaxIndex + 1
      BY <1>1, <1>2, <3>2, <3>3
    <3>. QED BY <3>1, <3>2, <3>4, SegmentType
  <2>. QED BY <2>1, <2>2
<1>4. ASSUME NEW k \in DOMAIN store.segments PROVE store.segments[k] \in Segments
  <2>1. PICK s : s = store.segments[k]
    OBVIOUS
  <2>2. IsSegment(s) /\ LastIndex(s) <= store.last
    BY <1>2, <2>1, ChainedSegments
  <2>3. s.first \in Nat /\ Len(s.entries) \in Nat
        /\ LastIndex(s) = s.first + Len(s.entries) - 1
    BY <2>2, SegmentIs
  <2>4. s.first <= MaxIndex + 1
    BY <1>1, <1>2, <2>2, <2>3
  <2>. QED BY <2>1, <2>2, <2>4, SegmentType
<1>5. store.first \in 1 .. MaxIndex + 1 /\ store.last \in 0 .. MaxIndex
  BY <1>1, <1>2
<1>. QED BY <1>2, <1>3, <1>4, <1>5 DEF TypeOK, LogInv, Others

LEMMA FilesAre ==
  ASSUME GoodStore(store)
  PROVE  /\ store.open = NoSegment => Files = store.segments
         /\ store.open # NoSegment =>
                /\ Len(Files) = Len(store.segments) + 1
                /\ DOMAIN Files = 1 .. Len(store.segments) + 1
                /\ \A k \in 1 .. Len(store.segments) : Files[k] = store.segments[k]
                /\ Files[Len(store.segments) + 1] = store.open
<1> DEFINE S == [first : Nat \ {0}, entries : Seq(Entries), synced : Nat, named : BOOLEAN]
<1>1. PICK segs : segs = store.segments
  OBVIOUS
<1>2. segs \in Seq(S)
  BY <1>1, GoodFacts DEF Chained
<1>3. CASE store.open = NoSegment
  <2>1. Files = segs \o <<>>
    BY <1>1, <1>3 DEF Files
  <2> HIDE DEF S
  <2>2. segs \o <<>> = segs
    BY <1>2
  <2>. QED BY <1>1, <1>3, <2>1, <2>2
<1>4. CASE store.open # NoSegment
  <2>1. PICK o : o = store.open
    OBVIOUS
  <2>2. o \in S
    BY <1>4, <2>1, GoodFacts DEF IsSegment
  <2>3. Files = segs \o <<o>>
    BY <1>1, <1>4, <2>1 DEF Files
  <2> HIDE DEF S
  <2>4. segs \o <<o>> = Append(segs, o)
    BY <1>2, <2>2, AppendIsConcat
  <2>5. /\ Len(Append(segs, o)) = Len(segs) + 1
        /\ DOMAIN Append(segs, o) = 1 .. Len(segs) + 1
        /\ \A k \in 1 .. Len(segs) : Append(segs, o)[k] = segs[k]
        /\ Append(segs, o)[Len(segs) + 1] = o
    BY <1>2, <2>2
  <2>. QED BY <1>1, <1>4, <2>1, <2>3, <2>4, <2>5
<1>. QED BY <1>3, <1>4

LEMMA LogInvContiguous == LogInv => SegmentsContiguous
<1> SUFFICES ASSUME LogInv PROVE SegmentsContiguous
  OBVIOUS
<1> DEFINE segs == store.segments
           L == Len(segs)
<1>1. GoodStore(store) /\ OpenThere(store)
  BY DEF LogInv, LogOK
<1>2. /\ Chained(segs) /\ L \in Nat /\ DOMAIN segs = 1 .. L
      /\ segs # <<>> => segs[1].first = store.first
      /\ store.first \in Nat \ {0}
  BY <1>1, GoodFacts
<1>3. segs \in Seq([first : Nat \ {0}, entries : Seq(Entries), synced : Nat, named : BOOLEAN])
  BY <1>2 DEF Chained
<1>4. \A k \in DOMAIN segs : segs[k].entries # <<>>
  BY <1>2 DEF Chained
<1>5. CASE store.open = NoSegment
  <2>1. segs = <<>> /\ Files = <<>> /\ store.last = store.first - 1
    <3>1. segs = <<>>
      BY <1>1, <1>5 DEF OpenThere
    <3>2. Files = segs
      BY <1>1, <1>5, FilesAre
    <3>3. store.last = EndOf(segs, store.first)
      BY <1>1, <1>5, GoodFacts
    <3> HIDE DEF segs
    <3>. QED BY <3>1, <3>2, <3>3 DEF EndOf
  <2>2. \A k \in 1 .. Len(Files) - 1 : Files[k + 1].first = LastIndex(Files[k]) + 1
    BY <2>1
  <2>. QED BY <1>4, <2>1, <2>2 DEF SegmentsContiguous
<1>6. CASE store.open # NoSegment
  <2>1. /\ Len(Files) = L + 1 /\ \A k \in 1 .. L : Files[k] = segs[k]
        /\ Files[L + 1] = store.open /\ DOMAIN Files = 1 .. L + 1
    BY <1>1, <1>6, FilesAre
  <2>2. store.open.first = EndOf(segs, store.first) + 1 /\ store.last = LastIndex(store.open)
        /\ EndOf(segs, store.first) \in Nat
    BY <1>1, <1>6, GoodFacts
  <2>3. ASSUME NEW k \in 1 .. Len(Files) - 1 PROVE Files[k + 1].first = LastIndex(Files[k]) + 1
    <3>1. k \in 1 .. L
      <4> HIDE DEF L
      <4>. QED BY <1>2, <2>1
    <3>2. CASE k = L
      <4>1. segs # <<>>
        BY <1>2, <3>1
      <4>2. EndOf(segs, store.first) = LastIndex(segs[L])
        BY <4>1 DEF EndOf
      <4> HIDE DEF L, segs
      <4>. QED BY <2>1, <2>2, <3>1, <3>2, <4>2
    <3>3. CASE k < L
      <4>1. k \in 1 .. L - 1 /\ k + 1 \in 1 .. L
        <5> HIDE DEF L
        <5>. QED BY <1>2, <3>1, <3>3
      <4>2. segs[k + 1].first = LastIndex(segs[k]) + 1
        BY <1>2, <4>1 DEF Chained
      <4> HIDE DEF L, segs
      <4>. QED BY <2>1, <3>1, <4>1, <4>2
    <3> HIDE DEF L
    <3>. QED BY <1>2, <3>1, <3>2, <3>3
  <2>4. Files[1].first = store.first
    <3>1. CASE segs = <<>>
      <4>1. L = 0 /\ EndOf(segs, store.first) = store.first - 1
        BY <3>1 DEF EndOf
      <4> HIDE DEF L, segs
      <4>. QED BY <1>2, <2>1, <2>2, <4>1
    <3>2. CASE segs # <<>>
      <4>1. 1 \in 1 .. L
        <5> HIDE DEF segs
        <5>. QED BY <1>2, <1>3, <3>2 DEF L
      <4> HIDE DEF L, segs
      <4>. QED BY <1>2, <2>1, <3>2, <4>1
    <3>. QED BY <3>1, <3>2
  <2>5. LastIndex(Files[Len(Files)]) = store.last
    <3> HIDE DEF L, segs
    <3>. QED BY <2>1, <2>2
  <2>6. Files # <<>>
    <3> HIDE DEF L, segs
    <3>1. Len(Files) # 0
      BY <1>2, <2>1
    <3>. QED BY <3>1
  <2>. QED BY <1>4, <2>3, <2>4, <2>5, <2>6 DEF SegmentsContiguous
<1>. QED BY <1>5, <1>6

(* The log store keeps its types, whatever is appended, overwritten,       *)
(* compacted, loaded, killed or lost with the power, except when a         *)
(* compaction leaves one entry.                                            *)
THEOREM LogStoreTypeCorrect ==
  ASSUME NeverOneLeft
  PROVE  Spec => []TypeOK
<1>1. LogInv /\ [Next]_vars => LogInv'
  BY LogInvStep
<1>. QED BY <1>1, LogInvInit, LogInvTypes, PTL DEF Spec

(* The segments of NuRaftLogSegment.cpp cover the log without hole or      *)
(* overlap after every append, truncation, compaction and load.            *)
THEOREM SegmentsContiguousHolds ==
  ASSUME NeverOneLeft
  PROVE  Spec => []SegmentsContiguous
<1>1. LogInv /\ [Next]_vars => LogInv'
  BY LogInvStep
<1>. QED BY <1>1, LogInvInit, LogInvContiguous, PTL DEF Spec

-----------------------------------------------------------------------------
(* Durability.                                                             *)

SyncInv ==
    "power" \in faults =>
        /\ ClosedSynced(store)
        /\ SyncedUpTo(store, disk_last_durable_index)
        /\ fsync_pc = "publish" => SyncedUpTo(store, last_flush_index)

LEMMA SyncInvInit == Init => SyncInv
<1> SUFFICES ASSUME Init PROVE SyncInv
  OBVIOUS
<1>1. /\ store.segments = <<>> /\ store.open = NewSegment(1) /\ store.last = 0
      /\ disk_last_durable_index = 0 /\ fsync_pc = "wait"
  BY DEF Init
<1>2. store.open.first = 1 /\ store.open.synced = 0
  BY <1>1 DEF NewSegment
<1>. QED BY <1>1, <1>2 DEF SyncInv, ClosedSynced, SyncedUpTo

LEMMA CompactSynced ==
  ASSUME NeverOneLeft, LogOK, faults \in FaultSets, NEW i \in Nat, i <= MaxIndex, CompactLog(i),
         ClosedSynced(store)
  PROVE  /\ ClosedSynced(store')
         /\ \A d \in Nat : SyncedUpTo(store, d) => SyncedUpTo(store', d)
<1>1. /\ LogOK' /\ store.last <= store'.last
      /\ store' = store \/ Shortened(store, store') \/ Emptied(store')
  BY CompactStep
<1>2. PICK st, t : st = store /\ t = store'
  OBVIOUS
<1>3. GoodStore(st) /\ GoodStore(t) /\ st.last <= t.last /\ st.last \in Nat /\ t.last \in Nat
  BY <1>1, <1>2, GoodFacts DEF LogOK
<1>4. CASE t = st
  BY <1>2, <1>4
<1>5. CASE Shortened(st, t)
  <2>1. PICK m \in 0 .. Len(st.segments) :
            t.segments = SubSeq(st.segments, m + 1, Len(st.segments))
    BY <1>5 DEF Shortened
  <2>2. /\ Chained(st.segments) /\ Len(st.segments) \in Nat
        /\ DOMAIN st.segments = 1 .. Len(st.segments)
        /\ DOMAIN t.segments = 1 .. Len(t.segments)
        /\ st.segments \in Seq([first : Nat \ {0}, entries : Seq(Entries), synced : Nat,
                                named : BOOLEAN])
    BY <1>3, GoodFacts DEF Chained
  <2>3. Len(t.segments) = Len(st.segments) - m
    BY <2>1, <2>2, BackChained
  <2>4. ASSUME NEW k \in 1 .. Len(t.segments)
        PROVE  t.segments[k].synced = Len(t.segments[k].entries)
    <3>1. PICK g, n, ll : g = st.segments /\ n = m + 1 /\ ll = Len(st.segments)
      OBVIOUS
    <3>2. /\ g \in Seq([first : Nat \ {0}, entries : Seq(Entries), synced : Nat,
                        named : BOOLEAN])
          /\ n \in 1 .. Len(g) /\ ll \in 1 .. Len(g) /\ k \in 1 .. ll - n + 1
          /\ n + k - 1 \in 1 .. Len(g)
      <4>1. /\ m + 1 <= Len(st.segments) /\ k \in 1 .. Len(st.segments) - (m + 1) + 1
            /\ (m + 1) + k - 1 \in 1 .. Len(st.segments)
        <5>1. PICK L \in Nat : L = Len(st.segments)
          BY <2>2
        <5>2. m \in 0 .. L /\ k \in 1 .. L - m
          BY <2>3, <5>1
        <5>3. m + 1 <= L /\ k \in 1 .. L - (m + 1) + 1 /\ (m + 1) + k - 1 \in 1 .. L
          BY ONLY <5>2, L \in Nat
        <5>. QED BY ONLY <5>1, <5>3
      <4>2. m + 1 \in 1 .. Len(st.segments) /\ Len(st.segments) \in 1 .. Len(st.segments)
        <5>1. PICK L \in Nat : L = Len(st.segments)
          BY <2>2
        <5>2. m \in 0 .. L /\ m + 1 <= L
          BY <4>1, <5>1
        <5>3. m + 1 \in 1 .. L /\ L \in 1 .. L
          BY ONLY <5>2, L \in Nat
        <5>. QED BY ONLY <5>1, <5>3
      <4>3. st.segments \in Seq([first : Nat \ {0}, entries : Seq(Entries), synced : Nat,
                                 named : BOOLEAN])
        BY ONLY <2>2
      <4>. QED BY ONLY <3>1, <4>1, <4>2, <4>3, Zenon
    <3>3. SubSeq(g, n, ll)[k] = g[n + k - 1]
      BY <3>2
    <3>4. t.segments[k] = st.segments[n + k - 1] /\ n + k - 1 \in DOMAIN st.segments
      BY <2>1, <2>2, <3>1, <3>2, <3>3
    <3>. QED BY <1>2, <3>4 DEF ClosedSynced
  <2>5. ClosedSynced(t)
    BY <2>2, <2>4 DEF ClosedSynced
  <2>6. \A d \in Nat : SyncedUpTo(st, d) => SyncedUpTo(t, d)
    BY <1>5 DEF Shortened, SyncedUpTo
  <2>. QED BY <1>2, <2>5, <2>6
<1>6. CASE Emptied(t)
  <2>1. ClosedSynced(t)
    BY <1>6 DEF Emptied, ClosedSynced
  <2>2. \A d \in Nat : SyncedUpTo(st, d) => SyncedUpTo(t, d)
    BY <1>3, <1>6 DEF Emptied, SyncedUpTo
  <2>. QED BY <1>2, <2>1, <2>2
<1>. QED BY <1>1, <1>2, <1>4, <1>5, <1>6

LEMMA StartSynced ==
  ASSUME NEW st, NEW first, NEW last, Fits(st.segments, st.open, first, last), last <= MaxIndex,
         OpenThere(st), st.set_aside \in BOOLEAN, snapshot \in 0 .. MaxIndex, Start(st),
         ClosedSynced(st), st.open.synced = Len(st.open.entries)
  PROVE  SyncInv'
<1>1. PICK t, v : t = Load(st) /\ v = store'
  OBVIOUS
<1>2. /\ t.last \in 0 .. MaxIndex /\ t.last <= v.last /\ GoodStore(t) /\ t.open # NoSegment
      /\ v = t \/ Emptied(v)
  BY <1>1, StartStep
<1>3. ClosedSynced(t) /\ t.open.synced = Len(t.open.entries)
  BY <1>1, LoadIs
<1>4. disk_last_durable_index' = t.last /\ fsync_pc' = "wait"
  BY <1>1 DEF Start
<1>5. ClosedSynced(v) /\ SyncedUpTo(v, t.last)
  <2>1. CASE v = t
    <3>1. PICK o : o = t.open
      OBVIOUS
    <3>2. IsSegment(o) /\ t.last = LastIndex(o)
      BY <1>2, <3>1, GoodFacts
    <3>3. o.first \in Nat /\ Len(o.entries) \in Nat
          /\ LastIndex(o) = o.first + Len(o.entries) - 1
      BY <3>2, SegmentIs
    <3>4. t.last < t.open.first + t.open.synced
      BY <1>3, <3>1, <3>2, <3>3
    <3>. QED BY <1>2, <1>3, <2>1, <3>4 DEF SyncedUpTo
  <2>2. CASE Emptied(v)
    BY <1>2, <2>2 DEF Emptied, SyncedUpTo, ClosedSynced
  <2>. QED BY <1>2, <2>1, <2>2
<1>. QED BY <1>1, <1>4, <1>5 DEF SyncInv

LEMMA SyncInvStep ==
  ASSUME NeverOneLeft, PowerAlone, LogInv, SyncInv, [Next]_vars
  PROVE  SyncInv'
<1> SUFFICES ASSUME "power" \in faults PROVE SyncInv'
  <2>1. faults' = faults
    BY DEF Next, vars, AppendLog, WriteAt, EndOfAppendBatch, ApplyPack, Fsync, Publish,
           CreateSnapshot, ReceiveSnapshot, CompactLog, Restart, PowerLoss, Start
  <2>. QED BY <2>1 DEF SyncInv
<1> DEFINE D == disk_last_durable_index
           F == last_flush_index
<1>1. /\ LogOK /\ Others /\ GoodStore(store) /\ OpenThere(store) /\ store.last <= MaxIndex
      /\ store.first \in Nat \ {0} /\ store.last \in Nat /\ store.first <= store.last + 1
      /\ MaxIndex \in Nat /\ store.set_aside \in BOOLEAN
      /\ Fits(store.segments, store.open, store.first, store.last)
  BY GoodFacts, LogStoreAssumption DEF LogInv, LogOK, GoodStore
<1>2. /\ D \in Nat /\ F \in Nat /\ faults \in FaultSets /\ snapshot \in 0 .. MaxIndex
      /\ "roll" \notin faults /\ "rewrite" \notin faults /\ "kill" \notin faults
  <2>1. D \in Nat /\ F \in Nat /\ faults \in FaultSets /\ snapshot \in 0 .. MaxIndex
    BY <1>1 DEF Others
  <2>. QED BY <2>1 DEF PowerAlone
<1>3. ClosedSynced(store) /\ SyncedUpTo(store, D) /\ (fsync_pc = "publish" => SyncedUpTo(store, F))
  BY DEF SyncInv
<1>4. CASE UNCHANGED vars
  BY <1>4 DEF vars, fsyncVars, SyncInv
<1>5. ASSUME NEW e \in Entries, AppendLog(e) PROVE SyncInv'
  <2>1. /\ store' = AppendEntry(store, e) /\ ClosedSynced(store')
        /\ D' = D /\ F' = F /\ fsync_pc' = fsync_pc
    BY <1>2, <1>5 DEF AppendLog
  <2>2. SyncedUpTo(store', D) /\ (fsync_pc = "publish" => SyncedUpTo(store', F))
    BY <1>1, <1>2, <1>3, <2>1, AppendSynced
  <2>. QED BY <2>1, <2>2 DEF SyncInv
<1>6. ASSUME NEW i \in store.first .. store.last, NEW e \in Entries, WriteAt(i, e) PROVE SyncInv'
  <2>1. /\ store' = WriteEntryAt(store, i, e) /\ ClosedSynced(store')
        /\ D' = D /\ F' = F /\ fsync_pc' = fsync_pc
        /\ ~(i <= D) /\ (fsync_pc = "publish" => ~(i <= F))
    BY <1>2, <1>6 DEF WriteAt
  <2>2. i \in Nat /\ store.first <= i /\ i <= store.last + 1 /\ D < i
        /\ (fsync_pc = "publish" => F < i)
    BY <1>1, <1>2, <2>1
  <2>3. SyncedUpTo(store', D) /\ (fsync_pc = "publish" => SyncedUpTo(store', F))
    BY <1>1, <1>2, <1>3, <2>1, <2>2, WriteSynced
  <2>. QED BY <2>1, <2>3 DEF SyncInv
<1>7. CASE EndOfAppendBatch
  BY <1>7 DEF EndOfAppendBatch, SyncInv
<1>8. ASSUME NEW e \in Entries, NEW f \in Entries, ApplyPack(e, f) PROVE SyncInv'
  <2>1. PICK i \in Nat : i = store.last + 1
    BY <1>1
  <2>2. PICK u : u = WriteEntryAt(store, i, e)
    OBVIOUS
  <2>3. GoodStore(u) /\ u.last = i /\ u.open # NoSegment /\ u.first = store.first
    BY <1>1, <2>1, <2>2, WriteEntryAtIs
  <2>4. PICK j \in Nat : j = u.last + 1
    BY <2>3
  <2>5. OpenThere(u)
    BY <2>3 DEF OpenThere
  <2>6. /\ store' = WriteEntryAt(u, j, f) /\ ClosedSynced(store')
        /\ D' = D /\ F' = F /\ fsync_pc' = fsync_pc
    BY <1>2, <1>8, <2>1, <2>2, <2>4 DEF ApplyPack
  <2>7. ASSUME NEW d \in Nat, SyncedUpTo(store, d) PROVE SyncedUpTo(store', d)
    <3>1. d < i /\ store.first <= i /\ i <= store.last + 1 /\ ~(i <= store.last)
      BY <1>1, <2>1, <2>7 DEF SyncedUpTo
    <3>2. SyncedUpTo(u, d)
      BY <1>1, <2>2, <2>7, <3>1, WriteSynced
    <3>3. d < j /\ u.first <= j /\ j <= u.last + 1 /\ ~(j <= u.last)
      BY <1>1, <2>1, <2>3, <2>4, <3>1
    <3>. QED BY <2>3, <2>5, <2>6, <3>2, <3>3, WriteSynced
  <2>. QED BY <1>2, <1>3, <2>6, <2>7 DEF SyncInv
<1>9. CASE Fsync
  <2>1. CASE store.open = NoSegment
    <3>1. store' = store /\ fsync_pc' = "wait" /\ D' = D
      BY <1>9, <2>1 DEF Fsync
    <3>. QED BY <1>3, <3>1 DEF SyncInv
  <2>2. CASE store.open # NoSegment
    <3>1. PICK t : t = [store EXCEPT !.open = Synced(@)]
      OBVIOUS
    <3>2. store' = t /\ F' = LastIndex(store.open) /\ D' = D
      BY <1>9, <2>2, <3>1 DEF Fsync
    <3>3. /\ GoodStore(t) /\ t.segments = store.segments /\ t.last = store.last
          /\ t.open # NoSegment /\ IsSegment(t.open) /\ t.open.first = store.open.first
          /\ LastIndex(t.open) = LastIndex(store.open) /\ t.open.synced = Len(t.open.entries)
      <4>1. PICK st : st = store
        OBVIOUS
      <4>2. GoodStore(st) /\ st.open # NoSegment /\ t = [st EXCEPT !.open = Synced(@)]
        BY <1>1, <2>2, <3>1, <4>1
      <4>3. /\ GoodStore(t) /\ t.segments = st.segments /\ t.last = st.last
            /\ t.open # NoSegment /\ IsSegment(t.open)
        BY <4>2, FlushIs
      <4>4. t.open.first = st.open.first
        BY <4>2, FlushIs
      <4>5. LastIndex(t.open) = LastIndex(st.open)
        BY <4>2, FlushIs
      <4>6. t.open.synced = Len(st.open.entries) /\ t.open.entries = st.open.entries
        BY <4>2, FlushIs
      <4>. QED BY ONLY <4>1, <4>3, <4>4, <4>5, <4>6
    <3>4. PICK o : o = t.open
      OBVIOUS
    <3>5. o.first \in Nat /\ Len(o.entries) \in Nat /\ LastIndex(o) = o.first + Len(o.entries) - 1
      BY <3>3, <3>4, SegmentIs
    <3>6. LastIndex(store.open) = store.last
      BY <1>1, <2>2, GoodFacts
    <3>7. store.last < t.open.first + t.open.synced
      <4>1. store.last \in Nat
        BY <1>1
      <4>2. o.synced = Len(o.entries) /\ LastIndex(o) = store.last
        BY ONLY <3>3, <3>4, <3>6
      <4>3. store.last < o.first + o.synced
        BY ONLY <3>5, <4>1, <4>2
      <4>. QED BY ONLY <3>4, <4>3
    <3>8. t.open.first + t.open.synced \in Nat
      BY <3>3, <3>4, <3>5
    <3>9. SyncedUpTo(t, D) /\ SyncedUpTo(t, store.last)
      BY <1>1, <1>2, <1>3, <3>3, <3>7, <3>8 DEF SyncedUpTo
    <3>10. ClosedSynced(t)
      BY <1>3, <3>3 DEF ClosedSynced
    <3>. QED BY <3>2, <3>6, <3>9, <3>10 DEF SyncInv
  <2>. QED BY <2>1, <2>2
<1>10. CASE Publish
  BY <1>3, <1>10 DEF Publish, SyncInv
<1>11. ASSUME NEW i \in Nat, i <= MaxIndex, CompactLog(i) PROVE SyncInv'
  <2>1. D' = D /\ F' = F /\ fsync_pc' = fsync_pc
    BY <1>11 DEF CompactLog, fsyncVars
  <2>2. ClosedSynced(store') /\ \A d \in Nat : SyncedUpTo(store, d) => SyncedUpTo(store', d)
    BY <1>1, <1>2, <1>3, <1>11, CompactSynced
  <2>. QED BY <1>2, <1>3, <2>1, <2>2 DEF SyncInv
<1>12. ASSUME NEW i \in 1 .. MaxIndex, CreateSnapshot(i) PROVE SyncInv'
  <2>1. CASE i > Reserved
    <3>1. PICK j \in Nat : j = i - Reserved /\ j <= MaxIndex
      BY <1>1, <2>1, LogStoreAssumption
    <3>2. CompactLog(j)
      BY <1>12, <2>1, <3>1 DEF CreateSnapshot
    <3>. QED BY <1>11, <3>1, <3>2
  <2>2. CASE ~(i > Reserved)
    BY <1>3, <1>12, <2>2 DEF CreateSnapshot, SyncInv, fsyncVars
  <2>. QED BY <2>1, <2>2
<1>13. ASSUME NEW i \in 1 .. MaxIndex, ReceiveSnapshot(i) PROVE SyncInv'
  <2>1. i \in Nat /\ i <= MaxIndex /\ CompactLog(i)
    BY <1>1, <1>13 DEF ReceiveSnapshot
  <2>. QED BY <1>11, <2>1
<1>14. CASE Restart
  BY <1>2, <1>14 DEF Restart
<1>15. CASE PowerLoss
  <2>1. CASE store.open = NoSegment
    <3>1. Start(store) /\ store.open.synced = Len(store.open.entries)
      BY <1>15, <2>1, NoSegmentIs DEF PowerLoss
    <3>. QED BY <1>1, <1>2, <1>3, <3>1, StartSynced
  <2>2. CASE store.open # NoSegment
    <3>1. PICK n \in store.open.synced .. Len(store.open.entries) :
              Start([store EXCEPT !.open.entries = SubSeq(@, 1, n), !.open.synced = n])
      BY <1>15, <2>2 DEF PowerLoss
    <3>2. PICK u : u = [store EXCEPT !.open.entries = SubSeq(@, 1, n), !.open.synced = n]
      OBVIOUS
    <3>3. /\ u.segments = store.segments /\ u.set_aside = store.set_aside /\ u.open # NoSegment
          /\ Fits(u.segments, u.open, store.first, LastIndex(u.open))
          /\ IsSegment(u.open) /\ LastIndex(u.open) <= store.last
          /\ u.open.synced = Len(u.open.entries)
      <4>1. PICK st : st = store
        OBVIOUS
      <4>2. /\ GoodStore(st) /\ st.open # NoSegment
            /\ n \in st.open.synced .. Len(st.open.entries)
            /\ u = [st EXCEPT !.open.entries = SubSeq(@, 1, n), !.open.synced = n]
        BY ONLY <1>1, <2>2, <3>2, <4>1, n \in store.open.synced .. Len(store.open.entries)
      <4>3. u.open.synced = Len(u.open.entries)
        BY ONLY <4>2, LossIs, ZenonT(30)
      <4>4. /\ u.segments = st.segments /\ u.set_aside = st.set_aside /\ u.open # NoSegment
            /\ Fits(u.segments, u.open, st.first, LastIndex(u.open))
            /\ IsSegment(u.open) /\ LastIndex(u.open) <= st.last
        BY ONLY <4>2, LossIs, ZenonT(30)
      <4>. QED BY ONLY <4>1, <4>3, <4>4
    <3>4. LastIndex(u.open) <= MaxIndex
      <4>1. LastIndex(u.open) \in Nat
        BY <3>3, SegmentIs
      <4>. QED BY <1>1, <3>3, <4>1
    <3>5. OpenThere(u)
      BY <3>3 DEF OpenThere
    <3>6. Start(u)
      BY <3>1, <3>2
    <3>7. ClosedSynced(u)
      BY <1>3, <3>3 DEF ClosedSynced
    <3>. QED BY <1>1, <1>2, <3>3, <3>4, <3>5, <3>6, <3>7, StartSynced
  <2>. QED BY <2>1, <2>2
<1>. QED BY <1>4, <1>5, <1>6, <1>7, <1>8, <1>9, <1>10, <1>12, <1>13, <1>14, <1>15 DEF Next

LEMMA SyncInvDurable == LogInv /\ SyncInv => DurableOnDisk
<1> SUFFICES ASSUME LogInv, SyncInv, "power" \in faults,
                    NEW i \in store.first .. store.last, i <= disk_last_durable_index
             PROVE  OnDisk(i)
  BY DEF DurableOnDisk
<1>1. GoodStore(store) /\ OpenThere(store)
  BY DEF LogInv, LogOK
<1>2. /\ store.first \in Nat \ {0} /\ store.last \in Nat /\ Len(store.segments) \in Nat
      /\ DOMAIN store.segments = 1 .. Len(store.segments) /\ Chained(store.segments)
  BY <1>1, GoodFacts
<1>3. i \in Nat /\ store.first <= i /\ i <= store.last /\ disk_last_durable_index \in Nat
  BY <1>2 DEF LogInv, Others
<1>4. store.open # NoSegment
  BY <1>1, <1>2, <1>3, GoodFacts DEF OpenThere, EndOf
<1>5. /\ DOMAIN Files = 1 .. Len(store.segments) + 1
      /\ \A k \in 1 .. Len(store.segments) : Files[k] = store.segments[k]
      /\ Files[Len(store.segments) + 1] = store.open
  BY <1>1, <1>4, FilesAre
<1>6. CASE Holds(store.open, i)
  <2>1. PICK k : k = Len(store.segments) + 1
    OBVIOUS
  <2>2. k \in DOMAIN Files /\ Files[k] = store.open
    BY <1>2, <1>5, <2>1
  <2>3. i - store.open.first < store.open.synced
    <3>1. disk_last_durable_index < store.open.first + store.open.synced
      BY <1>4 DEF SyncInv, SyncedUpTo
    <3>2. IsSegment(store.open)
      BY <1>1, <1>4, GoodFacts
    <3>3. store.open.first \in Nat /\ store.open.synced \in Nat
      BY <3>2, SegmentIs
    <3>. QED BY <1>3, <3>1, <3>3
  <2>. QED BY <1>6, <2>2, <2>3 DEF OnDisk
<1>7. CASE \E k \in 1 .. Len(store.segments) : Holds(store.segments[k], i)
  <2>1. PICK k \in 1 .. Len(store.segments) : Holds(store.segments[k], i)
    BY <1>7
  <2>2. PICK s : s = store.segments[k]
    OBVIOUS
  <2>3. IsSegment(s) /\ s.synced = Len(s.entries)
    BY <1>2, <2>2, ChainedSegments DEF SyncInv, ClosedSynced
  <2>4. s.first \in Nat /\ Len(s.entries) \in Nat /\ LastIndex(s) = s.first + Len(s.entries) - 1
    BY <2>3, SegmentIs
  <2>5. i - s.first < s.synced
    BY <1>3, <2>1, <2>2, <2>3, <2>4 DEF Holds
  <2>6. k \in DOMAIN Files /\ Files[k] = s
    BY <1>2, <1>5, <2>2
  <2>. QED BY <2>1, <2>2, <2>5, <2>6 DEF OnDisk
<1>. QED BY <1>1, <1>3, <1>6, <1>7, Cover

(* Nothing up to last_durable_index() can be lost with the power, whatever *)
(* else the fsync thread interleaves with, as long as segments are closed  *)
(* when they have been synced and durable entries are not overwritten.     *)
THEOREM DurableOnDiskHolds ==
  ASSUME NeverOneLeft, PowerAlone
  PROVE  Spec => []DurableOnDisk
<1>1. LogInv /\ [Next]_vars => LogInv'
  BY LogInvStep
<1>2. LogInv /\ SyncInv /\ [Next]_vars => SyncInv'
  BY SyncInvStep
<1>. QED BY <1>1, <1>2, LogInvInit, SyncInvInit, SyncInvDurable, PTL DEF Spec

-----------------------------------------------------------------------------
(* The last entry.                                                         *)

\* Where the cache has something, it has the last entry.
LastCached ==
    \/ log_queue = EmptyQueue
    \/ /\ log_queue.max_index = store.last
       /\ log_queue.entry_vec[store.last % CacheSize] = last_log_entry

LastStored == store.first <= store.last => last_log_entry = GetEntry(store, store.last)

FreshInv == "pack" \notin faults => LastStored /\ LastCached

LEMMA FreshInvInit == Init => FreshInv
BY DEF Init, FreshInv, LastStored, LastCached

LEMMA StartFresh ==
  ASSUME NEW st, NEW first, NEW last, Fits(st.segments, st.open, first, last), last <= MaxIndex,
         OpenThere(st), st.set_aside \in BOOLEAN, snapshot \in 0 .. MaxIndex, Start(st)
  PROVE  FreshInv'
<1>1. PICK t, v : t = Load(st) /\ v = store'
  OBVIOUS
<1>2. t.last \in 0 .. MaxIndex /\ GoodStore(t) /\ GoodStore(v) /\ (v = t \/ Emptied(v))
  BY <1>1, StartStep DEF LogOK
<1>3. /\ log_queue' = EmptyQueue
      /\ last_log_entry' = IF t.last < 1 THEN NoEntry ELSE GetEntry(t, t.last)
  BY <1>1 DEF Start
<1>4. v.first \in Nat \ {0} /\ v.last \in Nat
  BY <1>2, GoodFacts
<1>5. v.first <= v.last => last_log_entry' = GetEntry(v, v.last)
  <2>1. CASE v = t
    BY <1>3, <1>4, <2>1
  <2>2. CASE Emptied(v)
    BY <1>4, <2>2 DEF Emptied
  <2>. QED BY <1>2, <2>1, <2>2
<1>. QED BY <1>1, <1>3, <1>5 DEF FreshInv, LastStored, LastCached

LEMMA CompactFresh ==
  ASSUME NeverOneLeft, LogOK, faults \in FaultSets, NEW i \in Nat, i <= MaxIndex, CompactLog(i),
         LastStored
  PROVE  LastStored' /\ LastCached'
<1>1. /\ LogOK' /\ store.last <= store'.last
      /\ store' = store \/ Shortened(store, store') \/ Emptied(store')
  BY CompactStep
<1>2. log_queue' = EmptyQueue /\ last_log_entry' = last_log_entry
  BY DEF CompactLog
<1>3. PICK st, t : st = store /\ t = store'
  OBVIOUS
<1>4. GoodStore(st) /\ GoodStore(t)
  BY <1>1, <1>3 DEF LogOK
<1>5. /\ t.first \in Nat \ {0} /\ t.last \in Nat /\ st.first \in Nat \ {0} /\ st.last \in Nat
  BY <1>4, GoodFacts
<1>6. ASSUME t.first <= t.last PROVE last_log_entry = GetEntry(t, t.last)
  <2>1. CASE t = st
    BY <1>3, <1>6, <2>1 DEF LastStored
  <2>2. CASE Shortened(st, t)
    <3>1. PICK m \in 0 .. Len(st.segments) :
              t.segments = SubSeq(st.segments, m + 1, Len(st.segments))
      BY <2>2 DEF Shortened
    <3>2. t.open = st.open /\ t.last = st.last /\ st.first <= t.first
      BY <2>2 DEF Shortened
    <3>3. GetEntry(t, t.last) = GetEntry(st, t.last)
      <4>1. PICK j \in Nat : j = t.last
        BY <1>5
      <4>2. t.first <= j /\ j <= t.last
        BY <1>5, <1>6, <4>1
      <4>3. GetEntry(t, j) = GetEntry(st, j)
        BY <1>4, <3>1, <3>2, <4>2, RemoveReads
      <4>. QED BY <4>1, <4>3
    <3>4. st.first <= st.last
      BY <1>5, <1>6, <3>2
    <3>. QED BY <1>3, <3>2, <3>3, <3>4 DEF LastStored
  <2>3. CASE Emptied(t)
    BY <1>5, <1>6, <2>3 DEF Emptied
  <2>. QED BY <1>1, <1>3, <2>1, <2>2, <2>3
<1>. QED BY <1>2, <1>3, <1>6 DEF LastStored, LastCached

LEMMA FreshInvStep ==
  ASSUME NeverOneLeft, LogInv, FreshInv, [Next]_vars
  PROVE  FreshInv'
<1> SUFFICES ASSUME "pack" \notin faults PROVE FreshInv'
  <2>1. faults' = faults
    BY DEF Next, vars, AppendLog, WriteAt, EndOfAppendBatch, ApplyPack, Fsync, Publish,
           CreateSnapshot, ReceiveSnapshot, CompactLog, Restart, PowerLoss, Start
  <2>. QED BY <2>1 DEF FreshInv
<1>1. /\ LogOK /\ Others /\ GoodStore(store) /\ OpenThere(store) /\ store.last <= MaxIndex
      /\ store.first \in Nat \ {0} /\ store.last \in Nat /\ store.first <= store.last + 1
      /\ MaxIndex \in Nat /\ store.set_aside \in BOOLEAN
      /\ Fits(store.segments, store.open, store.first, store.last)
  BY GoodFacts, LogStoreAssumption DEF LogInv, LogOK, GoodStore
<1>2. /\ log_queue.entry_vec \in [0 .. CacheSize - 1 -> Entries \cup {NoEntry}]
      /\ log_queue.max_index \in Nat /\ faults \in FaultSets /\ snapshot \in 0 .. MaxIndex
  BY <1>1 DEF Others
<1>3. LastStored /\ LastCached
  BY DEF FreshInv
<1>4. CASE UNCHANGED vars
  BY <1>3, <1>4 DEF vars, FreshInv, LastStored, LastCached
<1>5. ASSUME NEW e \in Entries, AppendLog(e) PROVE FreshInv'
  <2>1. PICK t : t = AppendEntry(store, e)
    OBVIOUS
  <2>2. store' = t /\ last_log_entry' = e
    BY <1>5, <2>1 DEF AppendLog
  <2>3. GoodStore(t) /\ t.last = store.last + 1
    BY <1>1, <2>1, AppendEntryIs
  <2>4. GetEntry(t, store.last + 1) = e
    BY <1>1, <2>1, AppendReads
  <2>5. PICK i \in Nat : i = store.last + 1
    BY <1>1
  <2>6. PICK q : q = PutEntry(log_queue, i, e)
    OBVIOUS
  <2>7. log_queue' = q
    BY <1>5, <2>2, <2>3, <2>5, <2>6 DEF AppendLog
  <2>8. /\ q.entry_vec[i % CacheSize] = e
        /\ q.max_index = IF i > log_queue.max_index THEN i ELSE log_queue.max_index
    BY <1>2, <2>6, PutEntryIs
  <2>9. q.max_index = i
    BY <1>1, <1>3, <2>5, <2>8, EmptyQueueIs DEF LastCached
  <2>. QED BY <2>2, <2>3, <2>4, <2>5, <2>7, <2>8, <2>9 DEF FreshInv, LastStored, LastCached
<1>6. ASSUME NEW i \in store.first .. store.last, NEW e \in Entries, WriteAt(i, e) PROVE FreshInv'
  <2>1. PICK t : t = WriteEntryAt(store, i, e)
    OBVIOUS
  <2>2. store' = t /\ last_log_entry' = e
    BY <1>6, <2>1 DEF WriteAt
  <2>3. i \in Nat /\ store.first <= i /\ i <= store.last + 1
    BY <1>1
  <2>4. t.last = i /\ GetEntry(t, i) = e
    BY <1>1, <2>1, <2>3, WriteEntryAtIs
  <2>5. log_queue' = EmptyQueue
    BY <1>6, <2>2, <2>4 DEF WriteAt
  <2>. QED BY <2>2, <2>4, <2>5 DEF FreshInv, LastStored, LastCached
<1>7. CASE EndOfAppendBatch
  BY <1>3, <1>7 DEF EndOfAppendBatch, FreshInv, LastStored, LastCached
<1>8. ASSUME NEW e \in Entries, NEW f \in Entries, ApplyPack(e, f) PROVE FreshInv'
  BY <1>8 DEF ApplyPack
<1>9. CASE Fsync
  <2>0. log_queue' = log_queue /\ last_log_entry' = last_log_entry
    BY <1>9 DEF Fsync
  <2>1. CASE store.open = NoSegment
    <3>1. store' = store
      BY <1>9, <2>1 DEF Fsync
    <3>. QED BY <1>3, <2>0, <3>1 DEF FreshInv, LastStored, LastCached
  <2>2. CASE store.open # NoSegment
    <3>1. PICK t : t = [store EXCEPT !.open = Synced(@)]
      OBVIOUS
    <3>2. store' = t
      BY <1>9, <2>2, <3>1 DEF Fsync
    <3>3. GoodStore(t) /\ t.first = store.first /\ t.last = store.last
      BY <1>1, <2>2, <3>1, FlushIs
    <3>4. store.first <= store.last => GetEntry(t, store.last) = GetEntry(store, store.last)
      <4>1. PICK j \in Nat : j = store.last
        BY <1>1
      <4>2. ASSUME store.first <= store.last PROVE GetEntry(t, j) = GetEntry(store, j)
        <5>1. store.first <= j /\ j <= store.last
          BY <1>1, <4>1, <4>2
        <5>. QED BY <1>1, <2>2, <3>1, <5>1, FlushReads
      <4>. QED BY <4>1, <4>2
    <3>. QED BY <1>3, <2>0, <3>2, <3>3, <3>4 DEF FreshInv, LastStored, LastCached
  <2>. QED BY <2>1, <2>2
<1>10. CASE Publish
  BY <1>3, <1>10 DEF Publish, FreshInv, LastStored, LastCached
<1>11. ASSUME NEW i \in Nat, i <= MaxIndex, CompactLog(i) PROVE FreshInv'
  BY <1>1, <1>2, <1>3, <1>11, CompactFresh DEF FreshInv
<1>12. ASSUME NEW i \in 1 .. MaxIndex, CreateSnapshot(i) PROVE FreshInv'
  <2>1. CASE i > Reserved
    <3>1. PICK j \in Nat : j = i - Reserved /\ j <= MaxIndex
      BY <1>1, <2>1, LogStoreAssumption
    <3>2. CompactLog(j)
      BY <1>12, <2>1, <3>1 DEF CreateSnapshot
    <3>. QED BY <1>11, <3>1, <3>2
  <2>2. CASE ~(i > Reserved)
    BY <1>3, <1>12, <2>2 DEF CreateSnapshot, FreshInv, LastStored, LastCached
  <2>. QED BY <2>1, <2>2
<1>13. ASSUME NEW i \in 1 .. MaxIndex, ReceiveSnapshot(i) PROVE FreshInv'
  <2>1. i \in Nat /\ i <= MaxIndex /\ CompactLog(i)
    BY <1>1, <1>13 DEF ReceiveSnapshot
  <2>. QED BY <1>11, <2>1
<1>14. CASE Restart
  BY <1>1, <1>2, <1>14, StartFresh DEF Restart
<1>15. CASE PowerLoss
  <2>1. CASE store.open = NoSegment
    <3>1. Start(store)
      BY <1>15, <2>1 DEF PowerLoss
    <3>. QED BY <1>1, <1>2, <3>1, StartFresh
  <2>2. CASE store.open # NoSegment
    <3>1. PICK n \in store.open.synced .. Len(store.open.entries) :
              Start([store EXCEPT !.open.entries = SubSeq(@, 1, n), !.open.synced = n])
      BY <1>15, <2>2 DEF PowerLoss
    <3>2. PICK u : u = [store EXCEPT !.open.entries = SubSeq(@, 1, n), !.open.synced = n]
      OBVIOUS
    <3>3. /\ u.segments = store.segments /\ u.set_aside = store.set_aside /\ u.open # NoSegment
          /\ Fits(u.segments, u.open, store.first, LastIndex(u.open))
          /\ IsSegment(u.open) /\ LastIndex(u.open) <= store.last
      <4>1. GoodStore(store)
        BY <1>1
      <4>. QED BY ONLY <2>2, <3>2, <4>1, n \in store.open.synced .. Len(store.open.entries), LossIs, ZenonT(30)
    <3>4. LastIndex(u.open) <= MaxIndex
      <4>1. LastIndex(u.open) \in Nat
        BY <3>3, SegmentIs
      <4>. QED BY <1>1, <3>3, <4>1
    <3>5. OpenThere(u)
      BY <3>3 DEF OpenThere
    <3>6. Start(u)
      BY <3>1, <3>2
    <3>. QED BY <1>1, <1>2, <3>3, <3>4, <3>5, <3>6, StartFresh
  <2>. QED BY <2>1, <2>2
<1>. QED BY <1>4, <1>5, <1>6, <1>7, <1>8, <1>9, <1>10, <1>12, <1>13, <1>14, <1>15 DEF Next

LEMMA FreshInvLast == LogInv /\ FreshInv => LastEntryFresh
<1> SUFFICES ASSUME LogInv, FreshInv, "pack" \notin faults, store.first <= store.last
             PROVE  last_log_entry = EntryAt(store.last)
  BY DEF LastEntryFresh
<1>1. store.last \in Nat
  BY GoodFacts DEF LogInv, LogOK
<1>2. last_log_entry = GetEntry(store, store.last) /\ LastCached
  BY DEF FreshInv, LastStored
<1>3. PICK i \in Nat : i = store.last
  BY <1>1
<1>4. CASE log_queue = EmptyQueue
  <2>1. i % CacheSize \in 0 .. CacheSize - 1
    BY ModInRange
  <2>2. PICK k \in 0 .. CacheSize - 1 : k = i % CacheSize
    BY <2>1
  <2>3. log_queue.entry_vec[k] = NoEntry
    BY <1>4 DEF EmptyQueue
  <2>4. Cached(log_queue, i) = NoEntry
    BY <2>2, <2>3 DEF Cached
  <2>. QED BY <1>2, <1>3, <2>4 DEF EntryAt
<1>5. CASE log_queue.max_index = i /\ log_queue.entry_vec[i % CacheSize] = last_log_entry
  <2>1. ~(i > i) /\ ~(i - i >= CacheSize)
    BY LogStoreAssumption
  <2>2. Cached(log_queue, i) = last_log_entry
    BY <1>5, <2>1 DEF Cached
  <2>. QED BY <1>2, <1>3, <2>2 DEF EntryAt
<1>. QED BY <1>2, <1>3, <1>4, <1>5 DEF LastCached

(* last_entry(), whose term raft compares in elections, is the entry raft  *)
(* reads at the end of the log after every append, overwriting,            *)
(* compaction and restart; apply_pack, which does not set it, apart.       *)
THEOREM LastEntryFreshHolds ==
  ASSUME NeverOneLeft
  PROVE  Spec => []LastEntryFresh
<1>1. LogInv /\ [Next]_vars => LogInv'
  BY LogInvStep
<1>2. LogInv /\ FreshInv /\ [Next]_vars => FreshInv'
  BY FreshInvStep
<1>. QED BY <1>1, <1>2, LogInvInit, FreshInvInit, FreshInvLast, PTL DEF Spec

-----------------------------------------------------------------------------
(* Refinement: through the files, and through the cache, raft reads the log *)
(* that nuraft::log_store promises.                                        *)

(* What has been loaded reads as the store w it was loaded from, up to     *)
(* where the open segment was cut.                                         *)
LEMMA LoadReads ==
  ASSUME NEW st, NEW first, NEW last, Fits(st.segments, st.open, first, last),
         OpenThere(st), st.set_aside \in BOOLEAN, st.open # NoSegment,
         NEW w, GoodStore(w), w.segments = st.segments, w.open # NoSegment,
         w.open.first = st.open.first, LastIndex(st.open) <= LastIndex(w.open),
         \A k \in 1 .. Len(st.open.entries) : w.open.entries[k] = st.open.entries[k],
         NEW i \in Nat, first <= i, i <= last
  PROVE  GetEntry(Load(st), i) = GetEntry(w, i)
<1>1. PICK t : t = Load(st)
  OBVIOUS
<1>2. /\ GoodStore(t) /\ t.open # NoSegment /\ t.first = first /\ t.last = last
      /\ \/ last = first - 1
         \/ t.segments = Renamed(st.segments) /\ t.open = st.open
         \/ t.segments = Append(Renamed(st.segments), st.open) /\ t.open = NewSegment(last + 1)
  <2>1. GoodStore(t) /\ t.open # NoSegment
    BY ONLY <1>1, Fits(st.segments, st.open, first, last), OpenThere(st),
            st.set_aside \in BOOLEAN, LoadIs
  <2>2. t.first = first /\ t.last = last
    BY ONLY <1>1, Fits(st.segments, st.open, first, last), OpenThere(st),
            st.set_aside \in BOOLEAN, st.open # NoSegment, LoadIs
  <2>3. \/ last = first - 1
        \/ t.segments = Renamed(st.segments) /\ t.open = st.open
        \/ t.segments = Append(Renamed(st.segments), st.open) /\ t.open = NewSegment(last + 1)
    <3>1. \/ last = first - 1
          \/ Load(st).segments = Renamed(st.segments) /\ Load(st).open = st.open
          \/ /\ Load(st).segments = Append(Renamed(st.segments), st.open)
             /\ Load(st).open = NewSegment(last + 1)
      BY ONLY Fits(st.segments, st.open, first, last), OpenThere(st),
              st.set_aside \in BOOLEAN, st.open # NoSegment, LoadIs, ZenonT(90)
    <3>. QED BY ONLY <1>1, <3>1
  <2>. QED BY <2>1, <2>2, <2>3
<1>3. /\ Chained(st.segments) /\ first \in Nat /\ last \in Nat
      /\ IsSegment(st.open) /\ last = LastIndex(st.open) /\ IsSegment(w.open)
  BY GoodFacts DEF Fits
<1>4. /\ Len(st.segments) \in Nat
      /\ Renamed(st.segments) \in Seq([first : Nat \ {0}, entries : Seq(Entries), synced : Nat,
                                       named : BOOLEAN])
      /\ Len(Renamed(st.segments)) = Len(st.segments)
  BY <1>3, RenamedChained, ChainedSegments DEF Chained
<1>5. ASSUME Holds(st.open, i)
      PROVE  /\ Holds(w.open, i)
             /\ w.open.entries[i - w.open.first + 1] = st.open.entries[i - st.open.first + 1]
             /\ GetEntry(w, i) = st.open.entries[i - st.open.first + 1]
  <2>1. LastIndex(st.open) \in Nat /\ LastIndex(w.open) \in Nat /\ st.open.first \in Nat
        /\ Len(st.open.entries) \in Nat
        /\ LastIndex(st.open) = st.open.first + Len(st.open.entries) - 1
    BY <1>3, SegmentIs
  <2>2. st.open.first <= i /\ i <= LastIndex(st.open)
    BY <1>5 DEF Holds
  <2>3. Holds(w.open, i)
    BY <2>1, <2>2 DEF Holds
  <2>4. i - st.open.first + 1 \in 1 .. Len(st.open.entries)
    BY <2>1, <2>2, SMTT(30)
  <2>5. w.open.entries[i - w.open.first + 1] = st.open.entries[i - st.open.first + 1]
    BY <2>4
  <2>6. GetEntry(w, i) = w.open.entries[i - w.open.first + 1]
    BY <2>3, ReadOpen
  <2>. QED BY <2>3, <2>5, <2>6
<1>6. ASSUME NEW k \in 1 .. Len(st.segments), NEW s, s = Renamed(st.segments)[k], Holds(s, i)
      PROVE  GetEntry(w, i) = s.entries[i - s.first + 1]
  <2>1. PICK u : u = st.segments[k]
    OBVIOUS
  <2>2. s.first = u.first /\ s.entries = u.entries /\ LastIndex(s) = LastIndex(u)
    BY <1>3, <1>6, <2>1, RenamedChained
  <2>3. u # NoSegment
    BY <1>3, <2>1, ChainedSegments
  <2>4. Holds(u, i)
    BY <1>6, <2>2, <2>3 DEF Holds
  <2>5. k \in 1 .. Len(w.segments) /\ Holds(w.segments[k], i)
    BY <2>1, <2>4
  <2>6. GetEntry(w, i) = w.segments[k].entries[i - w.segments[k].first + 1]
    BY <2>5, ReadClosed
  <2>. QED BY <2>1, <2>2, <2>6
<1>7. CASE t.segments = Renamed(st.segments) /\ t.open = st.open
  <2>1. CASE Holds(t.open, i)
    <3>1. GetEntry(t, i) = t.open.entries[i - t.open.first + 1]
      BY <1>2, <2>1, ReadOpen
    <3>. QED BY <1>1, <1>5, <1>7, <2>1, <3>1
  <2>2. CASE \E k \in 1 .. Len(t.segments) : Holds(t.segments[k], i)
    <3>1. PICK k \in 1 .. Len(t.segments) : Holds(t.segments[k], i)
      BY <2>2
    <3>2. GetEntry(t, i) = t.segments[k].entries[i - t.segments[k].first + 1]
      BY <1>2, <3>1, ReadClosed
    <3>3. PICK s : s = t.segments[k]
      OBVIOUS
    <3>4. k \in 1 .. Len(st.segments) /\ s = Renamed(st.segments)[k] /\ Holds(s, i)
      BY <1>4, <1>7, <3>1, <3>3
    <3>. QED BY <1>1, <1>6, <3>2, <3>3, <3>4
  <2>. QED BY <1>2, <2>1, <2>2, Cover
<1>8. CASE t.segments = Append(Renamed(st.segments), st.open) /\ t.open = NewSegment(last + 1)
  <2>1. ~Holds(t.open, i)
    <3>1. t.open.first = last + 1
      BY <1>8 DEF NewSegment
    <3>. QED BY <1>3, <3>1 DEF Holds
  <2>2. PICK k \in 1 .. Len(t.segments) : Holds(t.segments[k], i)
    BY <1>2, <2>1, Cover
  <2>3. PICK s : s = t.segments[k]
    OBVIOUS
  <2>4. GetEntry(t, i) = s.entries[i - s.first + 1] /\ Holds(s, i)
    <3>1. GetEntry(t, i) = t.segments[k].entries[i - t.segments[k].first + 1]
      BY <1>2, <2>2, ReadClosed
    <3>. QED BY <2>2, <2>3, <3>1
  <2>5. \/ k \in 1 .. Len(st.segments) /\ s = Renamed(st.segments)[k]
        \/ s = st.open
    <3>1. PICK g, x, R : /\ g = Renamed(st.segments) /\ x = st.open
                         /\ R = [first : Nat \ {0}, entries : Seq(Entries), synced : Nat,
                                 named : BOOLEAN]
      OBVIOUS
    <3>2. g \in Seq(R) /\ x \in R
      BY <1>3, <1>4, <3>1 DEF IsSegment
    <3>3. k \in 1 .. Len(Append(g, x)) /\ s = Append(g, x)[k]
      BY <1>8, <2>3, <3>1
    <3>4. (k \in 1 .. Len(g) /\ s = g[k]) \/ s = x
      BY ONLY <3>2, <3>3
    <3>. QED BY <1>4, <3>1, <3>4
  <2>. QED BY <1>1, <1>5, <1>6, <2>4, <2>5
<1>. QED BY <1>2, <1>3, <1>7, <1>8

(* Two entries at most CacheSize apart have different slots in the ring.   *)
LEMMA DistinctSlots ==
  ASSUME NEW C \in Nat \ {0}, NEW i \in Nat, NEW j \in Nat, i < j, j - i < C
  PROVE  i % C # j % C
<1>1. PICK a \in Nat, b \in Nat : a = i \div C /\ b = j \div C
  OBVIOUS
<1>2. i = C * a + (i % C) /\ j = C * b + (j % C)
  BY <1>1
<1>3. SUFFICES ASSUME i % C = j % C PROVE FALSE
  OBVIOUS
<1>4. j - i = C * b - C * a
  BY <1>2, <1>3
<1>5. CASE b <= a
  <2>1. C * b <= C * a
    BY <1>5
  <2>. QED BY <1>4, <2>1
<1>6. CASE b >= a + 1
  <2>1. C * b >= C * (a + 1)
    BY <1>6
  <2>2. C * (a + 1) = C * a + C
    OBVIOUS
  <2>. QED BY <1>4, <2>1, <2>2
<1>. QED BY <1>5, <1>6

(* The log that the files of a store hold.                                 *)
StoreLog(st) == [k \in 1 .. st.last + 1 - st.first |-> GetEntry(st, st.first + k - 1)]

LEMMA StoreLogIs ==
  ASSUME NEW st, GoodStore(st)
  PROVE  /\ StoreLog(st) \in Seq(Entries) /\ Len(StoreLog(st)) = st.last + 1 - st.first
         /\ \A k \in 1 .. st.last + 1 - st.first :
                StoreLog(st)[k] = GetEntry(st, st.first + k - 1)
<1>1. st.first \in Nat \ {0} /\ st.last \in Nat /\ st.first <= st.last + 1
  BY GoodFacts
<1>2. PICK n \in Nat : n = st.last + 1 - st.first
  BY <1>1
<1>3. \A k \in 1 .. n : GetEntry(st, st.first + k - 1) \in Entries
  <2> SUFFICES ASSUME NEW k \in 1 .. n PROVE GetEntry(st, st.first + k - 1) \in Entries
    OBVIOUS
  <2>1. PICK i \in Nat : i = st.first + k - 1 /\ st.first <= i /\ i <= st.last
    BY <1>1, <1>2
  <2>2. GetEntry(st, i) \in Entries
    BY <2>1, ReadEntries
  <2>. QED BY <2>1, <2>2
<1>4. StoreLog(st) = [k \in 1 .. n |-> GetEntry(st, st.first + k - 1)]
  BY <1>2 DEF StoreLog
<1>5. StoreLog(st) \in [1 .. n -> Entries]
  BY <1>3, <1>4
<1>6. StoreLog(st) \in Seq(Entries) /\ Len(StoreLog(st)) = n
  BY <1>5
<1>. QED BY <1>2, <1>4, <1>6

LEMMA SamePart ==
  ASSUME NEW S, NEW p \in Seq(S), NEW q \in Seq(S), NEW n \in Nat, n <= Len(p), n <= Len(q),
         \A k \in 1 .. n : p[k] = q[k]
  PROVE  SubSeq(p, 1, n) = SubSeq(q, 1, n)
OBVIOUS

LEMMA WholePart ==
  ASSUME NEW S, NEW p \in Seq(S)
  PROVE  SubSeq(p, 1, Len(p)) = p
OBVIOUS

LEMMA LastPart ==
  ASSUME NEW S, NEW p \in Seq(S), NEW q \in Seq(S), NEW m \in 1 .. Len(q) + 1,
         Len(p) = Len(q) - m + 1, \A k \in 1 .. Len(p) : p[k] = q[m + k - 1]
  PROVE  p = SubSeq(q, m, Len(q))
OBVIOUS

LEMMA LogPrefix ==
  ASSUME NEW st, GoodStore(st), NEW t, GoodStore(t), t.first = st.first, NEW n \in Nat,
         st.first + n <= st.last + 1, st.first + n <= t.last + 1,
         \A i \in Nat : st.first <= i /\ i < st.first + n => GetEntry(t, i) = GetEntry(st, i)
  PROVE  SubSeq(StoreLog(t), 1, n) = SubSeq(StoreLog(st), 1, n)
<1>1. st.first \in Nat \ {0} /\ st.last \in Nat /\ t.last \in Nat
  BY GoodFacts
<1>2. PICK p, q : p = StoreLog(t) /\ q = StoreLog(st)
  OBVIOUS
<1>3. /\ p \in Seq(Entries) /\ q \in Seq(Entries)
      /\ Len(p) = t.last + 1 - t.first /\ Len(q) = st.last + 1 - st.first
      /\ \A k \in 1 .. t.last + 1 - t.first : p[k] = GetEntry(t, t.first + k - 1)
      /\ \A k \in 1 .. st.last + 1 - st.first : q[k] = GetEntry(st, st.first + k - 1)
  BY <1>2, StoreLogIs
<1>4. n <= Len(p) /\ n <= Len(q)
  BY <1>1, <1>3, SMTT(30)
<1>5. ASSUME NEW k \in 1 .. n PROVE p[k] = q[k]
  <2>1. PICK i \in Nat : i = st.first + k - 1 /\ st.first <= i /\ i < st.first + n
    BY <1>1
  <2>2. k \in 1 .. t.last + 1 - t.first /\ k \in 1 .. st.last + 1 - st.first
    BY <1>1
  <2>3. p[k] = GetEntry(t, i) /\ q[k] = GetEntry(st, i)
    BY <1>3, <2>1, <2>2
  <2>. QED BY <2>1, <2>3
<1>6. SubSeq(p, 1, n) = SubSeq(q, 1, n)
  BY ONLY <1>3, <1>4, <1>5, n \in Nat, SamePart
<1>. QED BY <1>2, <1>6

LEMMA LogSuffix ==
  ASSUME NEW st, GoodStore(st), NEW t, GoodStore(t), st.first <= t.first,
         t.first <= st.last + 1, t.last = st.last,
         \A i \in Nat : t.first <= i /\ i <= t.last => GetEntry(t, i) = GetEntry(st, i)
  PROVE  StoreLog(t) = SubSeq(StoreLog(st), t.first - st.first + 1, Len(StoreLog(st)))
<1>1. /\ st.first \in Nat \ {0} /\ st.last \in Nat /\ t.last \in Nat /\ t.first \in Nat \ {0}
      /\ st.first <= st.last + 1
  BY GoodFacts
<1>2. PICK p, q : p = StoreLog(t) /\ q = StoreLog(st)
  OBVIOUS
<1>3. PICK a \in Nat, b \in Nat, c \in Nat :
          /\ a = st.first /\ b = t.first /\ c = st.last /\ c = t.last
          /\ a >= 1 /\ a <= b /\ b <= c + 1
  BY <1>1
<1>4. /\ p \in Seq(Entries) /\ q \in Seq(Entries)
      /\ Len(p) = c + 1 - b /\ Len(q) = c + 1 - a
      /\ \A k \in 1 .. c + 1 - b : p[k] = GetEntry(t, b + k - 1)
      /\ \A k \in 1 .. c + 1 - a : q[k] = GetEntry(st, a + k - 1)
  BY <1>2, <1>3, StoreLogIs
<1>5. PICK m : m = b - a + 1
  OBVIOUS
<1>a. Len(p) = c + 1 - b /\ Len(q) = c + 1 - a
  BY <1>4
<1>6. m \in 1 .. Len(q) + 1 /\ Len(p) = Len(q) - m + 1
  <2>1. a >= 1 /\ a <= b /\ b <= c + 1
    BY ONLY <1>3
  <2>2. b - a + 1 \in 1 .. (c + 1 - a) + 1 /\ c + 1 - b = (c + 1 - a) - (b - a + 1) + 1
    BY ONLY <2>1, a \in Nat, b \in Nat, c \in Nat
  <2>. QED BY ONLY <1>5, <1>a, <2>2
<1>7. ASSUME NEW k \in 1 .. Len(p) PROVE p[k] = q[m + k - 1]
  <2>1. PICK i \in Nat : i = b + k - 1 /\ b <= i /\ i <= c
    <3>1. k \in 1 .. c + 1 - b
      BY ONLY <1>a, k \in 1 .. Len(p)
    <3>2. b + k - 1 \in Nat /\ b <= b + k - 1 /\ b + k - 1 <= c
      BY ONLY <3>1, b \in Nat, c \in Nat
    <3>. QED BY ONLY <3>2
  <2>2. k \in 1 .. c + 1 - b /\ m + k - 1 \in 1 .. c + 1 - a /\ a + (m + k - 1) - 1 = i
    <3>1. k \in 1 .. c + 1 - b
      BY ONLY <1>a, k \in 1 .. Len(p)
    <3>2. a >= 1 /\ a <= b /\ b <= c + 1
      BY ONLY <1>3
    <3>. QED BY ONLY <1>5, <2>1, <3>1, <3>2, a \in Nat, b \in Nat, c \in Nat
  <2>3. p[k] = GetEntry(t, i)
    BY <1>4, <2>1, <2>2
  <2>4. q[m + k - 1] = GetEntry(st, i)
    BY <1>4, <2>2
  <2>5. GetEntry(t, i) = GetEntry(st, i)
    BY <1>3, <2>1
  <2>. QED BY <2>3, <2>4, <2>5
<1>8. p = SubSeq(q, m, Len(q))
  BY ONLY <1>4, <1>6, <1>7, LastPart
<1>. QED BY <1>2, <1>3, <1>5, <1>8

\* No pack arrives at a server that has entries in its cache.
NeverRecached == \A f \in FaultSets : "recached" \notin f

\* The cache ends where the log does and disagrees with the files nowhere.
CacheInv ==
    /\ log_queue = EmptyQueue \/ log_queue.max_index = store.last
    /\ \A i \in Nat : store.first <= i /\ i <= store.last
                         => Cached(log_queue, i) \in {NoEntry, GetEntry(store, i)}

\* Only what a snapshot covers is compacted, and only a compaction leaves the
\* store without an open segment.
SnapInv ==
    /\ store.first <= snapshot + 1
    /\ store.open = NoSegment => snapshot >= 1

LEMMA EmptyCached ==
  ASSUME NEW i \in Nat
  PROVE  Cached(EmptyQueue, i) = NoEntry
<1>1. PICK k \in 0 .. CacheSize - 1 : k = i % CacheSize
  BY ModInRange
<1>2. EmptyQueue.entry_vec[k] = NoEntry
  BY DEF EmptyQueue
<1>. QED BY <1>1, <1>2 DEF Cached

LEMMA AppendCached ==
  ASSUME LogInv, CacheInv, NEW e \in Entries, NEW i \in Nat, i = store.last + 1,
         NEW q, q = PutEntry(log_queue, i, e), NEW j \in Nat, store.first <= j, j <= i
  PROVE  /\ Cached(q, j) \in {NoEntry, GetEntry(AppendEntry(store, e), j)}
         /\ q.max_index = i
<1>1. /\ GoodStore(store) /\ store.first \in Nat \ {0} /\ store.last \in Nat
      /\ CacheSize \in Nat \ {0}
  BY GoodFacts, LogStoreAssumption DEF LogInv, LogOK
<1>2. /\ log_queue.entry_vec \in [0 .. CacheSize - 1 -> Entries \cup {NoEntry}]
      /\ log_queue.max_index \in Nat
  BY DEF LogInv, Others
<1>3. /\ q.entry_vec[i % CacheSize] = e
      /\ q.max_index = IF i > log_queue.max_index THEN i ELSE log_queue.max_index
  BY <1>2, PutEntryIs
<1>4. q.max_index = i
  <2>1. log_queue.max_index = 0 \/ log_queue.max_index = store.last
    BY EmptyQueueIs DEF CacheInv
  <2>. QED BY <1>1, <1>3, <2>1
<1>5. PICK t : t = AppendEntry(store, e)
  OBVIOUS
<1>6. /\ \A k \in Nat : store.first <= k /\ k <= store.last => GetEntry(t, k) = GetEntry(store, k)
      /\ GetEntry(t, i) = e
  BY <1>1, <1>5, AppendReads
<1>7. CASE i - j >= CacheSize
  <2>1. Cached(q, j) = NoEntry
    BY <1>4, <1>7 DEF Cached
  <2>. QED BY <1>4, <2>1
<1>8. CASE j = i
  <2>1. ~(i > i) /\ ~(i - i >= CacheSize)
    BY <1>1
  <2>2. Cached(q, i) = e
    BY <1>3, <1>4, <2>1 DEF Cached
  <2>. QED BY <1>4, <1>5, <1>6, <1>8, <2>2
<1>9. CASE j < i /\ i - j < CacheSize
  <2>1. PICK x, y : x = j % CacheSize /\ y = i % CacheSize
    OBVIOUS
  <2>2. x # y /\ x \in 0 .. CacheSize - 1 /\ y \in 0 .. CacheSize - 1
    <3>1. j % CacheSize # i % CacheSize
      BY <1>1, <1>9, DistinctSlots
    <3>. QED BY <2>1, <3>1, ModInRange
  <2>3. q.entry_vec[x] = log_queue.entry_vec[x]
    <3>1. PICK v : v = log_queue.entry_vec
      OBVIOUS
    <3>2. q.entry_vec = [v EXCEPT ![y] = e]
      BY <2>1, <3>1 DEF PutEntry
    <3>3. [v EXCEPT ![y] = e][x] = v[x]
      BY <1>2, <2>2, <3>1
    <3>. QED BY <3>1, <3>2, <3>3
  <2>4. Cached(q, j) = log_queue.entry_vec[x]
    <3>1. ~(j > i) /\ ~(i - j >= CacheSize)
      BY <1>1, <1>9
    <3>. QED BY <1>4, <2>1, <2>3, <3>1 DEF Cached
  <2>5. CASE log_queue = EmptyQueue
    <3>1. log_queue.entry_vec[x] = NoEntry
      BY <2>2, <2>5 DEF EmptyQueue
    <3>. QED BY <1>4, <2>4, <3>1
  <2>6. CASE log_queue.max_index = store.last
    <3>1. j <= store.last /\ ~(j > store.last) /\ ~(store.last - j >= CacheSize)
      BY <1>1, <1>9
    <3>2. Cached(log_queue, j) = log_queue.entry_vec[x]
      BY <2>1, <2>6, <3>1 DEF Cached
    <3>3. Cached(log_queue, j) \in {NoEntry, GetEntry(store, j)}
      BY <3>1 DEF CacheInv
    <3>4. GetEntry(t, j) = GetEntry(store, j)
      BY <1>6, <3>1
    <3>. QED BY <1>4, <1>5, <2>4, <3>2, <3>3, <3>4
  <2>. QED BY <2>5, <2>6 DEF CacheInv
<1>. QED BY <1>1, <1>7, <1>8, <1>9

LEMMA CacheStep ==
  ASSUME NeverOneLeft, NeverRecached, LogInv, CacheInv, [Next]_vars
  PROVE  CacheInv'
<1>1. /\ LogOK /\ Others /\ GoodStore(store) /\ OpenThere(store) /\ store.last <= MaxIndex
      /\ store.first \in Nat \ {0} /\ store.last \in Nat /\ MaxIndex \in Nat
  BY GoodFacts, LogStoreAssumption DEF LogInv, LogOK
<1>2. ASSUME log_queue' = EmptyQueue PROVE CacheInv'
  BY <1>2, EmptyCached DEF CacheInv
<1>3. ASSUME log_queue' = log_queue, store' = store PROVE CacheInv'
  BY <1>3 DEF CacheInv
<1>4. CASE UNCHANGED vars
  BY <1>3, <1>4 DEF vars
<1>5. ASSUME NEW e \in Entries, AppendLog(e) PROVE CacheInv'
  <2>1. PICK t : t = AppendEntry(store, e)
    OBVIOUS
  <2>2. store' = t
    BY <1>5, <2>1 DEF AppendLog
  <2>3. t.first = store.first /\ t.last = store.last + 1
    BY <1>1, <2>1, AppendEntryIs
  <2>4. PICK i \in Nat : i = store.last + 1
    BY <1>1
  <2>5. PICK q : q = PutEntry(log_queue, i, e)
    OBVIOUS
  <2>6. log_queue' = q
    BY <1>5, <2>2, <2>3, <2>4, <2>5 DEF AppendLog
  <2>7. ASSUME NEW j \in Nat, store.first <= j, j <= i
        PROVE  Cached(q, j) \in {NoEntry, GetEntry(t, j)} /\ q.max_index = i
    BY <2>1, <2>4, <2>5, <2>7, AppendCached
  <2>8. q.max_index = i
    <3>1. PICK j \in Nat : store.first <= j /\ j <= i
      BY <1>1, <2>4, GoodFacts
    <3>. QED BY <2>7, <3>1
  <2>. QED BY <2>2, <2>3, <2>4, <2>6, <2>7, <2>8 DEF CacheInv
<1>6. ASSUME NEW i \in store.first .. store.last, NEW e \in Entries, WriteAt(i, e) PROVE CacheInv'
  <2>1. i \in Nat /\ store.first <= i /\ i <= store.last + 1
    BY <1>1
  <2>2. WriteEntryAt(store, i, e).last = i
    BY <1>1, <2>1, WriteEntryAtIs
  <2>3. log_queue' = EmptyQueue
    BY <1>6, <2>2 DEF WriteAt
  <2>. QED BY <1>2, <2>3
<1>7. CASE EndOfAppendBatch
  BY <1>3, <1>7 DEF EndOfAppendBatch
<1>8. ASSUME NEW e \in Entries, NEW f \in Entries, ApplyPack(e, f) PROVE CacheInv'
  <2>1. "recached" \notin faults
    BY <1>1 DEF NeverRecached, Others
  <2>2. log_queue' = EmptyQueue
    BY <1>8, <2>1 DEF ApplyPack
  <2>. QED BY <1>2, <2>2
<1>9. CASE Fsync
  <2>1. log_queue' = log_queue
    BY <1>9 DEF Fsync
  <2>2. CASE store.open = NoSegment
    BY <1>3, <1>9, <2>1, <2>2 DEF Fsync
  <2>3. CASE store.open # NoSegment
    <3>1. PICK t : t = [store EXCEPT !.open = Synced(@)]
      OBVIOUS
    <3>2. store' = t
      BY <1>9, <2>3, <3>1 DEF Fsync
    <3>3. t.first = store.first /\ t.last = store.last
      BY <1>1, <2>3, <3>1, FlushIs
    <3>4. \A j \in Nat : store.first <= j /\ j <= store.last => GetEntry(t, j) = GetEntry(store, j)
      BY <1>1, <2>3, <3>1, FlushReads
    <3>. QED BY <2>1, <3>2, <3>3, <3>4 DEF CacheInv
  <2>. QED BY <2>2, <2>3
<1>10. CASE Publish
  BY <1>3, <1>10 DEF Publish
<1>11. ASSUME NEW i \in 1 .. MaxIndex, CreateSnapshot(i) \/ ReceiveSnapshot(i) PROVE CacheInv'
  BY <1>2, <1>3, <1>11 DEF CreateSnapshot, ReceiveSnapshot, CompactLog
<1>12. CASE Restart
  BY <1>2, <1>12 DEF Restart, Start
<1>13. CASE PowerLoss
  BY <1>2, <1>13 DEF PowerLoss, Start
<1>. QED BY <1>4, <1>5, <1>6, <1>7, <1>8, <1>9, <1>10, <1>11, <1>12, <1>13 DEF Next

(* Through the cache raft reads what the files hold.                       *)
LEMMA ReadLogIs == LogInv /\ CacheInv => ReadLog = StoreLog(store)
<1> SUFFICES ASSUME LogInv, CacheInv PROVE ReadLog = StoreLog(store)
  OBVIOUS
<1>1. store.first \in Nat \ {0} /\ store.last \in Nat
  BY GoodFacts DEF LogInv, LogOK
<1>2. ASSUME NEW k \in 1 .. store.last + 1 - store.first
      PROVE  EntryAt(store.first + k - 1) = GetEntry(store, store.first + k - 1)
  <2>1. PICK i \in Nat : i = store.first + k - 1 /\ store.first <= i /\ i <= store.last
    BY <1>1
  <2>2. Cached(log_queue, i) \in {NoEntry, GetEntry(store, i)}
    BY <2>1 DEF CacheInv
  <2>. QED BY <2>1, <2>2 DEF EntryAt
<1>. QED BY <1>2 DEF ReadLog, StoreLog

LEMMA StartSnap ==
  ASSUME NEW st, NEW first, NEW last, Fits(st.segments, st.open, first, last), last <= MaxIndex,
         OpenThere(st), st.set_aside \in BOOLEAN, snapshot \in 0 .. MaxIndex, Start(st),
         first <= snapshot + 1
  PROVE  SnapInv'
<1>1. PICK t, v : t = Load(st) /\ v = store'
  OBVIOUS
<1>2. /\ t.open # NoSegment
      /\ \/ v = t
         \/ Emptied(v) /\ v.last = snapshot /\ snapshot >= 1
  BY <1>1, StartStep
<1>3. t.first = first \/ t.first = 1
  BY <1>1, LoadIs
<1>4. snapshot' = snapshot
  BY DEF Start
<1>5. CASE v = t
  BY <1>1, <1>2, <1>3, <1>4, <1>5 DEF SnapInv
<1>6. CASE Emptied(v) /\ v.last = snapshot /\ snapshot >= 1
  BY <1>1, <1>4, <1>6 DEF SnapInv, Emptied
<1>. QED BY <1>2, <1>5, <1>6

LEMMA SnapStep ==
  ASSUME NeverOneLeft, LogInv, SnapInv, [Next]_vars
  PROVE  SnapInv'
<1>1. /\ LogOK /\ Others /\ GoodStore(store) /\ OpenThere(store) /\ store.last <= MaxIndex
      /\ store.first \in Nat \ {0} /\ store.last \in Nat /\ store.first <= store.last + 1
      /\ MaxIndex \in Nat /\ store.set_aside \in BOOLEAN
      /\ Fits(store.segments, store.open, store.first, store.last)
  BY GoodFacts, LogStoreAssumption DEF LogInv, LogOK, GoodStore
<1>2. faults \in FaultSets /\ snapshot \in 0 .. MaxIndex /\ snapshot \in Nat
  BY <1>1 DEF Others
<1>3. ASSUME store'.first = store.first, store'.open = store.open \/ store'.open # NoSegment,
             snapshot' = snapshot
      PROVE  SnapInv'
  BY <1>3 DEF SnapInv
<1>4. CASE UNCHANGED vars
  BY <1>3, <1>4 DEF vars
<1>5. ASSUME NEW e \in Entries, AppendLog(e) PROVE SnapInv'
  <2>1. PICK t : t = AppendEntry(store, e)
    OBVIOUS
  <2>2. t.first = store.first /\ t.open # NoSegment
    BY <1>1, <2>1, AppendEntryIs
  <2>. QED BY <1>3, <1>5, <2>1, <2>2 DEF AppendLog
<1>6. ASSUME NEW i \in store.first .. store.last, NEW e \in Entries, WriteAt(i, e) PROVE SnapInv'
  <2>1. i \in Nat /\ store.first <= i /\ i <= store.last + 1
    BY <1>1
  <2>2. PICK t : t = WriteEntryAt(store, i, e)
    OBVIOUS
  <2>3. t.first = store.first /\ t.open # NoSegment
    BY <1>1, <2>1, <2>2, WriteEntryAtIs
  <2>. QED BY <1>3, <1>6, <2>2, <2>3 DEF WriteAt
<1>7. CASE EndOfAppendBatch
  BY <1>3, <1>7 DEF EndOfAppendBatch
<1>8. ASSUME NEW e \in Entries, NEW f \in Entries, ApplyPack(e, f) PROVE SnapInv'
  <2>1. PICK i \in Nat : i = store.last + 1
    BY <1>1
  <2>2. PICK u : u = WriteEntryAt(store, i, e)
    OBVIOUS
  <2>3. GoodStore(u) /\ u.last = i /\ u.open # NoSegment /\ u.first = store.first
    BY <1>1, <2>1, <2>2, WriteEntryAtIs
  <2>4. PICK j \in Nat : j = u.last + 1
    BY <2>3
  <2>5. OpenThere(u)
    BY <2>3 DEF OpenThere
  <2>6. PICK t : t = WriteEntryAt(u, j, f)
    OBVIOUS
  <2>7. t.open # NoSegment /\ t.first = store.first
    BY <1>1, <2>1, <2>3, <2>4, <2>5, <2>6, WriteEntryAtIs
  <2>8. store' = t /\ snapshot' = snapshot
    BY <1>8, <2>1, <2>2, <2>4, <2>6 DEF ApplyPack
  <2>. QED BY <1>3, <2>7, <2>8
<1>9. CASE Fsync
  <2>1. CASE store.open = NoSegment
    BY <1>3, <1>9, <2>1 DEF Fsync
  <2>2. CASE store.open # NoSegment
    <3>1. PICK t : t = [store EXCEPT !.open = Synced(@)]
      OBVIOUS
    <3>2. t.first = store.first /\ t.open # NoSegment
      BY <1>1, <2>2, <3>1, FlushIs
    <3>. QED BY <1>3, <1>9, <2>2, <3>1, <3>2 DEF Fsync
  <2>. QED BY <2>1, <2>2
<1>10. CASE Publish
  BY <1>3, <1>10 DEF Publish
<1>11. ASSUME NEW i \in Nat, NEW j \in Nat, j <= MaxIndex, CompactLog(j), j <= i, i > snapshot,
              snapshot' = i
       PROVE  SnapInv'
  <2>1. PICK t : t = store'
    OBVIOUS
  <2>2. /\ GoodStore(t)
        /\ \/ t = store
           \/ t.first <= j + 1
           \/ Emptied(t) /\ t.last = j
    BY <1>1, <1>2, <1>11, <2>1, CompactStep DEF LogOK
  <2>3. t.first \in Nat /\ t.last \in Nat
    BY <2>2, GoodFacts
  <2>4. t.first <= i + 1
    <3>1. t = store => t.first <= snapshot + 1
      BY DEF SnapInv
    <3>2. Emptied(t) /\ t.last = j => t.first <= j + 1
      BY <2>3 DEF Emptied
    <3>. QED BY <1>2, <1>11, <2>2, <2>3, <3>1, <3>2
  <2>. QED BY <1>2, <1>11, <2>1, <2>4 DEF SnapInv
<1>12. ASSUME NEW i \in 1 .. MaxIndex, CreateSnapshot(i) PROVE SnapInv'
  <2>1. snapshot' = i /\ i > snapshot /\ i \in Nat
    BY <1>1, <1>12 DEF CreateSnapshot
  <2>2. CASE i > Reserved
    <3>1. PICK j \in Nat : j = i - Reserved /\ j <= MaxIndex /\ j <= i
      BY <1>1, <2>2, LogStoreAssumption
    <3>2. CompactLog(j)
      BY <1>12, <2>2, <3>1 DEF CreateSnapshot
    <3>. QED BY <1>11, <2>1, <3>1, <3>2
  <2>3. CASE ~(i > Reserved)
    <3>1. store' = store
      BY <1>12, <2>3 DEF CreateSnapshot
    <3>. QED BY <1>1, <1>2, <2>1, <3>1 DEF SnapInv
  <2>. QED BY <2>2, <2>3
<1>13. ASSUME NEW i \in 1 .. MaxIndex, ReceiveSnapshot(i) PROVE SnapInv'
  <2>1. i \in Nat /\ i <= MaxIndex /\ CompactLog(i) /\ i > snapshot /\ snapshot' = i /\ i <= i
    BY <1>1, <1>13 DEF ReceiveSnapshot
  <2>. QED BY <1>11, <2>1
<1>14. store.first <= snapshot + 1
  BY DEF SnapInv
<1>15. CASE Restart
  BY <1>1, <1>2, <1>14, <1>15, StartSnap DEF Restart
<1>16. CASE PowerLoss
  <2>1. CASE store.open = NoSegment
    <3>1. Start(store)
      BY <1>16, <2>1 DEF PowerLoss
    <3>. QED BY <1>1, <1>2, <1>14, <3>1, StartSnap
  <2>2. CASE store.open # NoSegment
    <3>1. PICK n \in store.open.synced .. Len(store.open.entries) :
              Start([store EXCEPT !.open.entries = SubSeq(@, 1, n), !.open.synced = n])
      BY <1>16, <2>2 DEF PowerLoss
    <3>2. PICK u : u = [store EXCEPT !.open.entries = SubSeq(@, 1, n), !.open.synced = n]
      OBVIOUS
    <3>3. /\ u.segments = store.segments /\ u.set_aside = store.set_aside /\ u.open # NoSegment
          /\ Fits(u.segments, u.open, store.first, LastIndex(u.open))
          /\ IsSegment(u.open) /\ LastIndex(u.open) <= store.last
      <4>1. GoodStore(store)
        BY <1>1
      <4>. QED BY ONLY <2>2, <3>2, <4>1, n \in store.open.synced .. Len(store.open.entries), LossIs, ZenonT(30)
    <3>4. LastIndex(u.open) <= MaxIndex
      <4>1. LastIndex(u.open) \in Nat
        BY <3>3, SegmentIs
      <4>. QED BY <1>1, <3>3, <4>1
    <3>5. OpenThere(u)
      BY <3>3 DEF OpenThere
    <3>6. Start(u)
      BY <3>1, <3>2
    <3>. QED BY <1>1, <1>2, <1>14, <3>3, <3>4, <3>5, <3>6, StartSnap
  <2>. QED BY <2>1, <2>2
<1>. QED BY <1>4, <1>5, <1>6, <1>7, <1>8, <1>9, <1>10, <1>12, <1>13, <1>15, <1>16 DEF Next

(* The steps of the log, in terms of the stores before and after.          *)
LEMMA ExtendLog ==
  ASSUME NEW st, GoodStore(st), NEW t, GoodStore(t), t.first = st.first, st.last < t.last,
         \A i \in Nat : st.first <= i /\ i <= st.last => GetEntry(t, i) = GetEntry(st, i),
         NEW p, NEW q, p = StoreLog(st), q = StoreLog(t)
  PROVE  /\ Len(q) > Len(p) /\ SubSeq(q, 1, Len(p)) = p
         /\ \A k \in Len(p) + 1 .. Len(q) : q[k] \in Entries
<1>1. /\ st.first \in Nat \ {0} /\ st.last \in Nat /\ t.last \in Nat /\ st.first <= st.last + 1
  BY GoodFacts
<1>2. /\ p \in Seq(Entries) /\ q \in Seq(Entries)
      /\ Len(p) = st.last + 1 - st.first /\ Len(q) = t.last + 1 - st.first
  BY StoreLogIs
<1>3. PICK n \in Nat : n = Len(p)
  BY <1>1, <1>2
<1>4. st.first + n = st.last + 1 /\ st.first + n <= t.last + 1 /\ n <= Len(q) /\ Len(q) > n
      /\ Len(q) \in Nat
  BY <1>1, <1>2, <1>3, SMTT(30)
<1>5. \A i \in Nat : st.first <= i /\ i < st.first + n => GetEntry(t, i) = GetEntry(st, i)
  BY <1>1, <1>4
<1>6. SubSeq(q, 1, n) = SubSeq(p, 1, n)
  <2>1. st.first + n <= st.last + 1
    BY <1>1, <1>4
  <2>. QED BY <1>4, <1>5, <2>1, LogPrefix
<1>7. SubSeq(p, 1, n) = p
  BY ONLY <1>2, <1>3, WholePart
<1>8. ASSUME NEW k \in n + 1 .. Len(q) PROVE q[k] \in Entries
  <2>1. k \in 1 .. Len(q)
    BY ONLY <1>4, n \in Nat, k \in n + 1 .. Len(q)
  <2>. QED BY ONLY <1>2, <2>1, ElementOfSeq
<1>. QED BY <1>3, <1>4, <1>6, <1>7, <1>8

\* Below i the two logs read the same.
SameBelow(st, t, i) ==
    \A j \in Nat : st.first <= j /\ j < i => GetEntry(t, j) = GetEntry(st, j)

LEMMA OverwriteLog ==
  ASSUME NEW st, GoodStore(st), NEW t, GoodStore(t), t.first = st.first,
         NEW i \in Nat, st.first <= i, i <= st.last, t.last = i, NEW e \in Entries,
         GetEntry(t, i) = e,
         SameBelow(st, t, i)
  PROVE  /\ st.first + Len(StoreLog(st)) - 1 = st.last /\ t.first + Len(StoreLog(t)) - 1 = i
         /\ SubSeq(StoreLog(t), 1, Len(StoreLog(t)) - 1) = SubSeq(StoreLog(st), 1, i - st.first)
         /\ StoreLog(t)[Len(StoreLog(t))] = e
<1> SUFFICES ASSUME NEW p, NEW q, p = StoreLog(st), q = StoreLog(t)
             PROVE  /\ st.first + Len(p) - 1 = st.last /\ t.first + Len(q) - 1 = i
                    /\ SubSeq(q, 1, Len(q) - 1) = SubSeq(p, 1, i - st.first)
                    /\ q[Len(q)] = e
  OBVIOUS
<1>1. st.first \in Nat \ {0} /\ st.last \in Nat
  BY GoodFacts
<1>2. /\ p \in Seq(Entries) /\ q \in Seq(Entries)
      /\ Len(p) = st.last + 1 - st.first /\ Len(q) = i + 1 - st.first
      /\ \A k \in 1 .. i + 1 - st.first : q[k] = GetEntry(t, st.first + k - 1)
  BY StoreLogIs
<1>3. PICK n \in Nat : n = i - st.first
  BY <1>1
<1>4. /\ st.first + n <= st.last + 1 /\ st.first + n <= t.last + 1 /\ st.first + n = i
      /\ Len(q) = n + 1 /\ st.first + Len(p) - 1 = st.last /\ t.first + Len(q) - 1 = i
  <2>1. PICK a \in Nat, c \in Nat : a = st.first /\ a = t.first /\ c = st.last
    BY <1>1
  <2>2. a <= i /\ i <= c /\ n = i - a /\ Len(p) = c + 1 - a /\ Len(q) = i + 1 - a /\ t.last = i
    BY <1>2, <1>3, <2>1
  <2>3. /\ a + n <= c + 1 /\ a + n <= i + 1 /\ a + n = i /\ i + 1 - a = n + 1
        /\ a + (c + 1 - a) - 1 = c /\ a + (i + 1 - a) - 1 = i
    BY ONLY <2>2, a \in Nat, c \in Nat, i \in Nat, n \in Nat
  <2>. QED BY ONLY <2>1, <2>2, <2>3
<1>5. \A j \in Nat : st.first <= j /\ j < st.first + n => GetEntry(t, j) = GetEntry(st, j)
  BY <1>4 DEF SameBelow
<1>6. SubSeq(q, 1, n) = SubSeq(p, 1, n)
  BY <1>4, <1>5, LogPrefix
<1>7. q[n + 1] = e
  <2>1. n + 1 \in 1 .. i + 1 - st.first /\ st.first + (n + 1) - 1 = i
    BY <1>1, <1>3
  <2>. QED BY <1>2, <2>1
<1>8. Len(q) - 1 = n
  BY <1>4
<1>. QED BY <1>3, <1>4, <1>6, <1>7, <1>8

LEMMA EmptyLog ==
  ASSUME NEW t, GoodStore(t), Emptied(t)
  PROVE  StoreLog(t) = <<>>
<1>1. t.last \in Nat /\ t.first = t.last + 1
  BY GoodFacts DEF Emptied
<1>2. StoreLog(t) \in Seq(Entries) /\ Len(StoreLog(t)) = 0
  BY <1>1, StoreLogIs
<1>. QED BY <1>2

(* What a compaction leaves is the end of the log, or nothing when it ends *)
(* before the snapshot.                                                    *)
LEMMA CompactedLog ==
  ASSUME NeverOneLeft, LogOK, faults \in FaultSets, store.first <= snapshot + 1,
         snapshot \in Nat, snapshot' \in Nat, snapshot' > snapshot,
         NEW j \in Nat, j <= snapshot', j <= MaxIndex,
         CompactLog(j), j = snapshot' \/ j <= store.last
  PROVE  \/ /\ store'.first \in store.first .. store.first + Len(StoreLog(store))
            /\ store'.first <= snapshot' + 1
            /\ StoreLog(store') = SubSeq(StoreLog(store), store'.first - store.first + 1,
                                        Len(StoreLog(store)))
         \/ /\ snapshot' >= store.first + Len(StoreLog(store))
            /\ store'.first = snapshot' + 1 /\ StoreLog(store') = <<>>
<1> SUFFICES ASSUME NEW i \in Nat, j <= i, i > snapshot, j = i \/ j <= store.last,
                    NEW p, NEW q, p = StoreLog(store), q = StoreLog(store')
             PROVE  \/ /\ store'.first \in store.first .. store.first + Len(p)
                       /\ store'.first <= i + 1
                       /\ q = SubSeq(p, store'.first - store.first + 1, Len(p))
                    \/ i >= store.first + Len(p) /\ store'.first = i + 1 /\ q = <<>>
  OBVIOUS
<1>1. PICK st, t : st = store /\ t = store'
  OBVIOUS
<1>2. /\ GoodStore(st) /\ GoodStore(t) /\ st.last <= t.last
      /\ \/ t = st
         \/ Shortened(st, t) /\ t.first <= j + 1
         \/ Emptied(t) /\ t.last = j
  BY <1>1, CompactStep DEF LogOK
<1>3. /\ st.first \in Nat \ {0} /\ st.last \in Nat /\ t.last \in Nat /\ t.first \in Nat \ {0}
      /\ st.first <= st.last + 1 /\ t.first <= t.last + 1
  BY <1>2, GoodFacts
<1>4. p \in Seq(Entries) /\ Len(p) = st.last + 1 - st.first /\ st.first + Len(p) = st.last + 1
  BY <1>1, <1>2, <1>3, StoreLogIs, SMTT(30)
<1>5. CASE t = st
  <2>1. t.first - st.first + 1 = 1 /\ t.first \in st.first .. st.last + 1
    BY <1>3, <1>5
  <2>2. SubSeq(p, 1, Len(p)) = p
    BY ONLY <1>4, WholePart
  <2>3. q = p
    BY <1>1, <1>5
  <2>4. t.first <= i + 1
    BY <1>1, <1>3, <1>5
  <2>. QED BY <1>1, <1>4, <2>1, <2>2, <2>3, <2>4
<1>6. CASE Shortened(st, t) /\ t.first <= j + 1
  <2>1. t.open = st.open /\ t.last = st.last /\ st.first <= t.first
    BY <1>6 DEF Shortened
  <2>2. PICK m \in 0 .. Len(st.segments) :
            t.segments = SubSeq(st.segments, m + 1, Len(st.segments))
    BY <1>6 DEF Shortened
  <2>3. \A k \in Nat : t.first <= k /\ k <= t.last => GetEntry(t, k) = GetEntry(st, k)
    BY <1>2, <2>1, <2>2, RemoveReads
  <2>4. t.first <= st.last + 1
    BY <1>3, <2>1
  <2>5. StoreLog(t) = SubSeq(StoreLog(st), t.first - st.first + 1, Len(StoreLog(st)))
    BY <1>2, <2>1, <2>3, <2>4, LogSuffix
  <2>6. q = SubSeq(p, t.first - st.first + 1, Len(p))
    BY <1>1, <2>5
  <2>7. t.first <= i + 1 /\ t.first \in st.first .. st.last + 1
    BY <1>3, <1>6, <2>1, <2>4
  <2>. QED BY <1>1, <1>4, <2>6, <2>7
<1>7. CASE Emptied(t) /\ t.last = j
  <2>1. q = <<>> /\ t.first = j + 1
    BY <1>1, <1>2, <1>7, EmptyLog DEF Emptied
  <2>2. CASE st.last < j
    <3>1. j = i /\ i >= st.last + 1
      BY <1>1, <1>3, <2>2
    <3>. QED BY <1>1, <1>4, <2>1, <3>1
  <2>3. CASE st.last = j
    <3>1. t.first \in st.first .. st.last + 1 /\ t.first <= i + 1
          /\ t.first - st.first + 1 = Len(p) + 1
      BY <1>3, <1>4, <2>1, <2>3
    <3>2. SubSeq(p, Len(p) + 1, Len(p)) = <<>>
      BY ONLY <1>4, SubSeqEmpty
    <3>. QED BY <1>1, <1>4, <2>1, <3>1, <3>2
  <2>. QED BY <1>2, <1>3, <1>7, <2>2, <2>3
<1>. QED BY <1>2, <1>5, <1>6, <1>7

(* The next process finds the log, or a beginning of it, or nothing and    *)
(* goes on behind the snapshot.                                            *)
LEMMA StartLog ==
  ASSUME LogOK, snapshot \in 0 .. MaxIndex, SnapInv,
         NEW st, NEW last, Fits(st.segments, st.open, store.first, last), last <= store.last,
         OpenThere(st), st.set_aside \in BOOLEAN, st.segments = store.segments,
         st.open = NoSegment <=> store.open = NoSegment,
         st.open # NoSegment => store.open.first = st.open.first,
         st.open # NoSegment => Beginning(st.open, store.open),
         Start(st), NEW p, NEW q, p = StoreLog(store), q = StoreLog(store')
  PROVE  \/ Len(q) <= Len(p) /\ q = SubSeq(p, 1, Len(q)) /\ store'.first = store.first
         \/ store'.first = snapshot + 1 /\ q = <<>>
<1>1. PICK w, v, t : w = store /\ v = store' /\ t = Load(st)
  OBVIOUS
<1>2. /\ GoodStore(w) /\ w.last <= MaxIndex
      /\ w.first \in Nat \ {0} /\ w.last \in Nat /\ last \in Nat /\ MaxIndex \in Nat
  BY <1>1, GoodFacts, LogStoreAssumption DEF LogOK, Fits
<1>3. last <= MaxIndex
  BY <1>1, <1>2
<1>4. /\ LogOK' /\ GoodStore(t)
      /\ \/ v = t /\ ~(t.last + 1 <= snapshot)
         \/ Emptied(v) /\ v.last = snapshot
  BY <1>1, <1>3, StartStep
<1>5. GoodStore(v)
  BY <1>1, <1>4 DEF LogOK
<1>6. CASE Emptied(v) /\ v.last = snapshot
  BY <1>1, <1>5, <1>6, EmptyLog DEF Emptied
<1>7. CASE v = t /\ ~(t.last + 1 <= snapshot)
  <2>1. st.open # NoSegment
    <3>1. SUFFICES ASSUME st.open = NoSegment PROVE FALSE
      OBVIOUS
    <3>2. snapshot >= 1
      BY <3>1 DEF SnapInv
    <3>3. t.last = 0
      BY <1>1, <3>1, LoadIs
    <3>. QED BY <1>7, <3>2, <3>3
  <2>2. t.first = w.first /\ t.last = last
    <3>1. PICK f : f = w.first
      OBVIOUS
    <3>2. Fits(st.segments, st.open, f, last)
      BY <1>1, <3>1
    <3>3. t.first = f /\ t.last = last
      BY ONLY <1>1, <2>1, <3>2, OpenThere(st), st.set_aside \in BOOLEAN, LoadIs
    <3>. QED BY <3>1, <3>3
  <2>3. w.open # NoSegment /\ w.open.first = st.open.first /\ w.segments = st.segments
        /\ \A k \in 1 .. Len(st.open.entries) : w.open.entries[k] = st.open.entries[k]
    BY <1>1, <2>1 DEF Beginning
  <2>4. LastIndex(st.open) = last /\ LastIndex(w.open) = w.last
    BY <1>2, <2>1, <2>3, GoodFacts DEF Fits
  <2>5. LastIndex(st.open) <= LastIndex(w.open)
    BY <1>1, <2>4
  <2>6. ASSUME NEW i \in Nat, w.first <= i, i <= last
        PROVE  GetEntry(t, i) = GetEntry(w, i)
    <3>1. PICK f : f = w.first
      OBVIOUS
    <3>2. Fits(st.segments, st.open, f, last) /\ f <= i
      BY <1>1, <2>6, <3>1
    <3>3. GetEntry(Load(st), i) = GetEntry(w, i)
      BY <1>2, <2>1, <2>3, <2>5, <2>6, <3>2, LoadReads
    <3>4. t = Load(st)
      BY ONLY <1>1
    <3>. QED BY ONLY <3>3, <3>4, Zenon
  <2>7. t.first <= t.last + 1
    BY <1>4, GoodFacts
  <2>8. PICK n \in Nat : n = last + 1 - w.first
    BY <1>2, <2>2, <2>7
  <2>9. q \in Seq(Entries) /\ Len(q) = n /\ Len(p) = w.last + 1 - w.first
    BY <1>1, <1>2, <1>4, <1>7, <2>2, <2>8, StoreLogIs
  <2>10. w.first + n <= w.last + 1 /\ w.first + n <= t.last + 1 /\ n <= w.last + 1 - w.first
    BY <1>1, <1>2, <2>2, <2>8
  <2>11. \A i \in Nat : w.first <= i /\ i < w.first + n => GetEntry(t, i) = GetEntry(w, i)
    BY <1>2, <2>6, <2>8
  <2>12. SubSeq(StoreLog(t), 1, n) = SubSeq(StoreLog(w), 1, n)
    BY <1>2, <1>4, <2>2, <2>10, <2>11, LogPrefix
  <2>13. SubSeq(q, 1, n) = q
    BY ONLY <2>9, WholePart
  <2>. QED BY <1>1, <1>7, <2>2, <2>9, <2>10, <2>12, <2>13
<1>. QED BY <1>4, <1>6, <1>7

LEMMA CacheSnapInit == Init => CacheInv /\ SnapInv
<1> SUFFICES ASSUME Init PROVE CacheInv /\ SnapInv
  OBVIOUS
<1>1. PICK o : o = NewSegment(1)
  OBVIOUS
<1>2. store = StoreOf(<<>>, o, 1, 0, FALSE) /\ log_queue = EmptyQueue /\ snapshot = 0
  BY <1>1 DEF Init, StoreOf
<1>3. store.open = o /\ store.first = 1
  BY ONLY <1>2 DEF StoreOf
<1>4. o.first = 1 /\ NoSegment.first = 0
  BY <1>1 DEF NewSegment, NoSegment
<1>5. o # NoSegment
  BY <1>4
<1>6. CacheInv
  BY <1>2, EmptyCached DEF CacheInv
<1>7. SnapInv
  <2>1. 1 <= 0 + 1
    OBVIOUS
  <2>2. store.first <= snapshot + 1
    BY ONLY <1>2, <1>3, <2>1
  <2>. QED BY ONLY <1>3, <1>5, <2>2 DEF SnapInv
<1>. QED BY <1>6, <1>7

(* Every step of the store is a step of the log, or changes nothing of it. *)
LEMMA RefStep ==
  ASSUME NeverOneLeft, LogInv, SnapInv, LogInv', [Next]_vars,
         NEW p, NEW q, p = StoreLog(store), q = StoreLog(store'),
         ReadLog = p, ReadLog' = q
  PROVE  [RL!Next]_(RL!vars)
<1>1. /\ LogOK /\ Others /\ GoodStore(store) /\ OpenThere(store) /\ store.last <= MaxIndex
      /\ store.first \in Nat \ {0} /\ store.last \in Nat /\ store.first <= store.last + 1
      /\ MaxIndex \in Nat /\ store.set_aside \in BOOLEAN
      /\ Fits(store.segments, store.open, store.first, store.last)
  BY GoodFacts, LogStoreAssumption DEF LogInv, LogOK, GoodStore
<1>2. /\ faults \in FaultSets /\ snapshot \in 0 .. MaxIndex /\ snapshot \in Nat
      /\ store.first <= snapshot + 1
  BY <1>1 DEF Others, SnapInv
<1>3. GoodStore(store') /\ store'.first \in Nat \ {0} /\ store'.last \in Nat
  BY GoodFacts DEF LogInv, LogOK
<1>4. p \in Seq(Entries) /\ Len(p) = store.last + 1 - store.first /\ q \in Seq(Entries)
      /\ Len(p) \in Nat /\ Len(q) \in Nat /\ SubSeq(p, 1, Len(p)) = p
  <2>1. p \in Seq(Entries) /\ Len(p) = store.last + 1 - store.first /\ q \in Seq(Entries)
    BY <1>1, <1>3, StoreLogIs
  <2>. QED BY <1>1, <2>1, WholePart
<1>5. ASSUME store' = store, snapshot' = snapshot PROVE UNCHANGED RL!vars
  BY <1>5 DEF RL!vars
<1>6. ASSUME NEW t, t = store', t.first = store.first, store.last < t.last,
             \A i \in Nat : store.first <= i /\ i <= store.last
                               => GetEntry(t, i) = GetEntry(store, i),
             snapshot' = snapshot
      PROVE  RL!Extend
  <2>1. PICK st : st = store
    OBVIOUS
  <2>2. /\ Len(q) > Len(p) /\ SubSeq(q, 1, Len(p)) = p
        /\ \A k \in Len(p) + 1 .. Len(q) : q[k] \in Entries
    <3>1. /\ GoodStore(st) /\ GoodStore(t) /\ t.first = st.first /\ st.last < t.last
          /\ \A i \in Nat : st.first <= i /\ i <= st.last => GetEntry(t, i) = GetEntry(st, i)
          /\ p = StoreLog(st) /\ q = StoreLog(t)
      BY <1>1, <1>3, <1>6, <2>1
    <3>. QED BY ONLY <3>1, ExtendLog
  <2>. QED BY <1>6, <2>2 DEF RL!Extend
<1>7. CASE UNCHANGED vars
  BY <1>5, <1>7 DEF vars
<1>8. ASSUME NEW e \in Entries, AppendLog(e) PROVE RL!Next
  <2>1. PICK t : t = AppendEntry(store, e)
    OBVIOUS
  <2>2. t.first = store.first /\ t.last = store.last + 1
    BY <1>1, <2>1, AppendEntryIs
  <2>3. \A i \in Nat : store.first <= i /\ i <= store.last => GetEntry(t, i) = GetEntry(store, i)
    BY <1>1, <2>1, AppendReads
  <2>4. store' = t /\ snapshot' = snapshot
    BY <1>8, <2>1 DEF AppendLog
  <2>5. store.last < t.last
    BY <1>1, <2>2
  <2>. QED BY <1>6, <2>2, <2>3, <2>4, <2>5 DEF RL!Next
<1>9. CASE EndOfAppendBatch
  BY <1>5, <1>9 DEF EndOfAppendBatch
<1>10. CASE Publish
  BY <1>5, <1>10 DEF Publish
<1>11. ASSUME NEW i \in Nat, NEW j \in Nat, j <= i, j <= MaxIndex, i > snapshot,
              CompactLog(j), j = i \/ j <= store.last, snapshot' = i
       PROVE  RL!Next
  <2>1. \/ /\ store'.first \in store.first .. store.first + Len(p)
           /\ store'.first <= i + 1
           /\ q = SubSeq(p, store'.first - store.first + 1, Len(p))
        \/ i >= store.first + Len(p) /\ store'.first = i + 1 /\ q = <<>>
    <3>1. /\ j <= snapshot' /\ snapshot' > snapshot /\ snapshot' \in Nat
          /\ j = snapshot' \/ j <= store.last
      BY <1>11
    <3>2. \/ /\ store'.first \in store.first .. store.first + Len(StoreLog(store))
             /\ store'.first <= snapshot' + 1
             /\ StoreLog(store') = SubSeq(StoreLog(store), store'.first - store.first + 1,
                                         Len(StoreLog(store)))
          \/ /\ snapshot' >= store.first + Len(StoreLog(store))
             /\ store'.first = snapshot' + 1 /\ StoreLog(store') = <<>>
      BY ONLY NeverOneLeft, <1>1, <1>2, <1>11, <3>1, CompactedLog
    <3>. QED BY <1>11, <3>2
  <2>. QED BY <1>11, <2>1 DEF RL!Next, RL!Snapshot, RL!NextSlot, RL!From
<1>12. ASSUME NEW i \in 1 .. MaxIndex, CreateSnapshot(i) PROVE RL!Next
  <2>1. snapshot' = i /\ i > snapshot /\ i \in Nat /\ i <= store.last
    BY <1>1, <1>12 DEF CreateSnapshot
  <2>2. CASE i > Reserved
    <3>1. PICK j \in Nat : j = i - Reserved /\ j <= MaxIndex /\ j <= i /\ j <= store.last
      BY <1>1, <2>1, <2>2, LogStoreAssumption
    <3>2. CompactLog(j)
      BY <1>12, <2>2, <3>1 DEF CreateSnapshot
    <3>. QED BY <1>11, <2>1, <3>1, <3>2
  <2>3. CASE ~(i > Reserved)
    <3>1. store' = store
      BY <1>12, <2>3 DEF CreateSnapshot
    <3>2. q = p
      BY <3>1
    <3>3. store.first - store.first + 1 = 1 /\ store.first \in store.first .. store.first + Len(p)
      BY <1>1, <1>4
    <3>4. store.first <= i + 1
      BY <1>1, <1>2, <2>1
    <3>. QED BY <1>4, <2>1, <3>1, <3>2, <3>3, <3>4
             DEF RL!Next, RL!Snapshot, RL!NextSlot, RL!From
  <2>. QED BY <2>2, <2>3
<1>13. ASSUME NEW i \in 1 .. MaxIndex, ReceiveSnapshot(i) PROVE RL!Next
  <2>1. i \in Nat /\ i <= MaxIndex /\ CompactLog(i) /\ i > snapshot /\ snapshot' = i /\ i <= i
    BY <1>1, <1>13 DEF ReceiveSnapshot
  <2>. QED BY <1>11, <2>1
<1>14. ASSUME NEW i \in store.first .. store.last, NEW e \in Entries, WriteAt(i, e)
       PROVE  RL!Next
  <2>1. i \in Nat /\ store.first <= i /\ i <= store.last + 1 /\ i <= store.last
    BY <1>1
  <2>2. PICK st, t : st = store /\ t = WriteEntryAt(st, i, e)
    OBVIOUS
  <2>3. t.first = st.first /\ t.last = i /\ GetEntry(t, i) = e
    BY <1>1, <2>1, <2>2, WriteEntryAtIs
  <2>4. SameBelow(st, t, i)
    BY <1>1, <2>1, <2>2, WriteEntryAtIs DEF SameBelow
  <2>5. store' = t /\ snapshot' = snapshot /\ i > snapshot
    BY <1>14, <2>2 DEF WriteAt
  <2>6. /\ st.first + Len(p) - 1 = st.last /\ t.first + Len(q) - 1 = i
        /\ SubSeq(q, 1, Len(q) - 1) = SubSeq(p, 1, i - st.first)
        /\ q[Len(q)] = e
    <3>1. GoodStore(st) /\ GoodStore(t) /\ p = StoreLog(st) /\ q = StoreLog(t)
          /\ st.first <= i /\ i <= st.last
      BY <1>1, <1>3, <2>1, <2>2, <2>5
    <3>2. /\ st.first + Len(StoreLog(st)) - 1 = st.last /\ t.first + Len(StoreLog(t)) - 1 = i
          /\ SubSeq(StoreLog(t), 1, Len(StoreLog(t)) - 1)
                = SubSeq(StoreLog(st), 1, i - st.first)
          /\ StoreLog(t)[Len(StoreLog(t))] = e
      BY ONLY <2>1, <2>3, <2>4, <3>1, e \in Entries, OverwriteLog
    <3>. QED BY ONLY <3>1, <3>2
  <2>7. SubSeq(q, 1, Len(q) - 1) = SubSeq(p, 1, i - store.first) /\ q[Len(q)] \in Entries
    BY <2>2, <2>6
  <2>8. store.first + Len(p) - 1 = store.last /\ store'.first + Len(q) - 1 = i
    BY <2>2, <2>5, <2>6
  <2>9. i \in store.first .. store.first + Len(p) - 1
    BY <2>8
  <2>10. store'.first = store.first
    BY <2>2, <2>3, <2>5
  <2>11. RL!Front(q) = SubSeq(p, 1, i - store.first) /\ RL!Last(q) \in Entries
    BY <2>7 DEF RL!Front, RL!Last
  <2>12. RL!Overwrite
    <3>1. UNCHANGED <<store.first, snapshot>>
      BY <2>5, <2>10
    <3>2. (store'.first + Len(ReadLog')) - 1 = i
      <4>1. PICK a \in Nat, b \in Nat : a = store'.first /\ b = Len(q)
        BY <1>3, <1>4
      <4>2. a + b - 1 = i
        BY <2>8, <4>1
      <4>. QED BY <4>1, <4>2
    <3>3. i \in store.first .. (store.first + Len(ReadLog)) - 1 /\ i > snapshot
      <4>1. PICK a \in Nat, b \in Nat : a = store.first /\ b = Len(p)
        BY <1>1, <1>4
      <4>2. i \in a .. a + b - 1
        BY <2>9, <4>1
      <4>. QED BY <2>5, <4>1, <4>2
    <3>4. RL!Front(ReadLog') = SubSeq(ReadLog, 1, i - store.first) /\ RL!Last(ReadLog') \in Entries
      BY <2>11
    <3>. QED BY ONLY <3>1, <3>2, <3>3, <3>4 DEF RL!Overwrite, RL!NextSlot, RL!Below
  <2>. QED BY <2>12 DEF RL!Next
<1>15. ASSUME NEW e \in Entries, NEW f \in Entries, ApplyPack(e, f) PROVE RL!Next
  <2>1. PICK i \in Nat : i = store.last + 1
    BY <1>1
  <2>2. PICK u : u = WriteEntryAt(store, i, e)
    OBVIOUS
  <2>3. GoodStore(u) /\ u.last = i /\ u.open # NoSegment /\ u.first = store.first
    BY <1>1, <2>1, <2>2, WriteEntryAtIs
  <2>4. \A k \in Nat : store.first <= k /\ k < i => GetEntry(u, k) = GetEntry(store, k)
    BY <1>1, <2>1, <2>2, WriteEntryAtIs
  <2>5. PICK j \in Nat : j = u.last + 1
    BY <2>3
  <2>6. OpenThere(u)
    BY <2>3 DEF OpenThere
  <2>7. PICK t : t = WriteEntryAt(u, j, f)
    OBVIOUS
  <2>8. u.first <= j /\ j <= u.last + 1
    BY <1>1, <2>1, <2>3, <2>5
  <2>9. t.last = j /\ t.first = u.first
    BY <2>3, <2>5, <2>6, <2>7, <2>8, WriteEntryAtIs
  <2>10. \A k \in Nat : u.first <= k /\ k < j => GetEntry(t, k) = GetEntry(u, k)
    BY <2>3, <2>5, <2>6, <2>7, <2>8, WriteEntryAtIs
  <2>11. store' = t /\ snapshot' = snapshot
    BY <1>15, <2>1, <2>2, <2>5, <2>7 DEF ApplyPack
  <2>12. ASSUME NEW k \in Nat, store.first <= k, k <= store.last
         PROVE  GetEntry(t, k) = GetEntry(store, k)
    <3>1. k < i /\ k < j
      BY <1>1, <2>1, <2>3, <2>5, <2>12
    <3>. QED BY <2>3, <2>4, <2>10, <2>12, <3>1
  <2>13. t.first = store.first /\ store.last < t.last
    BY <1>1, <2>1, <2>3, <2>5, <2>9
  <2>. QED BY <1>6, <2>11, <2>12, <2>13 DEF RL!Next
<1>16. CASE Fsync
  <2>1. CASE store.open = NoSegment
    <3>1. store' = store /\ snapshot' = snapshot
      BY <1>16, <2>1 DEF Fsync
    <3>. QED BY <1>5, <3>1
  <2>2. CASE store.open # NoSegment
    <3>1. PICK st, t : st = store /\ t = [st EXCEPT !.open = Synced(@)]
      OBVIOUS
    <3>2. store' = t /\ snapshot' = snapshot
      BY <1>16, <2>2, <3>1 DEF Fsync
    <3>3. GoodStore(t) /\ t.first = st.first /\ t.last = st.last
      BY <1>1, <2>2, <3>1, FlushIs
    <3>4. \A j \in Nat : st.first <= j /\ j <= st.last => GetEntry(t, j) = GetEntry(st, j)
      BY <1>1, <2>2, <3>1, FlushReads
    <3>5. PICK n \in Nat : n = Len(p)
      BY <1>4
    <3>6. st.first + n = st.last + 1
      BY <1>1, <1>4, <3>1, <3>5
    <3>7. \A j \in Nat : st.first <= j /\ j < st.first + n => GetEntry(t, j) = GetEntry(st, j)
      BY <1>1, <3>1, <3>4, <3>6
    <3>8. st.first + n <= st.last + 1 /\ st.first + n <= t.last + 1
      BY <1>1, <3>1, <3>3, <3>6
    <3>9. SubSeq(StoreLog(t), 1, n) = SubSeq(StoreLog(st), 1, n)
      <4>1. GoodStore(st)
        BY <1>1, <3>1
      <4>. QED BY ONLY <3>3, <3>7, <3>8, <4>1, n \in Nat, LogPrefix
    <3>10. Len(q) = n
      BY <1>4, <3>1, <3>2, <3>3, <3>5, StoreLogIs
    <3>11. SubSeq(q, 1, n) = q
      BY ONLY <1>4, <3>10, WholePart
    <3>12. q = p
      BY <1>4, <3>1, <3>2, <3>5, <3>9, <3>11
    <3>. QED BY <3>1, <3>2, <3>3, <3>12 DEF RL!vars
  <2>. QED BY <2>1, <2>2
<1>17. ASSUME NEW st, NEW last, Fits(st.segments, st.open, store.first, last), last <= store.last,
              OpenThere(st), st.set_aside \in BOOLEAN, st.segments = store.segments,
              st.open = NoSegment <=> store.open = NoSegment,
              st.open # NoSegment => store.open.first = st.open.first,
              st.open # NoSegment => Beginning(st.open, store.open), Start(st)
       PROVE  RL!Next
  <2>1. \/ Len(q) <= Len(p) /\ q = SubSeq(p, 1, Len(q)) /\ store'.first = store.first
        \/ store'.first = snapshot + 1 /\ q = <<>>
    BY <1>1, <1>2, <1>17, StartLog
  <2>2. snapshot' = snapshot
    BY <1>17 DEF Start
  <2>. QED BY <2>1, <2>2 DEF RL!Next, RL!LoseTail
<1>18. ASSUME Start(store) PROVE RL!Next
  <2>1. store.last <= store.last
    BY <1>1
  <2>2. Beginning(store.open, store.open)
    BY DEF Beginning
  <2>. QED BY <1>1, <1>17, <1>18, <2>1, <2>2
<1>19. CASE Restart
  BY <1>18, <1>19 DEF Restart
<1>20. CASE PowerLoss
  <2>1. CASE store.open = NoSegment
    BY <1>18, <1>20, <2>1 DEF PowerLoss
  <2>2. CASE store.open # NoSegment
    <3>1. PICK n \in store.open.synced .. Len(store.open.entries) :
              Start([store EXCEPT !.open.entries = SubSeq(@, 1, n), !.open.synced = n])
      BY <1>20, <2>2 DEF PowerLoss
    <3>2. PICK u : u = [store EXCEPT !.open.entries = SubSeq(@, 1, n), !.open.synced = n]
      OBVIOUS
    <3>a. GoodStore(store)
      BY <1>1
    <3>3. /\ u.segments = store.segments /\ u.set_aside = store.set_aside /\ u.open # NoSegment
          /\ u.open.first = store.open.first
          /\ Fits(u.segments, u.open, store.first, LastIndex(u.open))
          /\ LastIndex(u.open) <= store.last
      BY ONLY <2>2, <3>2, <3>a, n \in store.open.synced .. Len(store.open.entries), LossIs, ZenonT(30)
    <3>4. Beginning(u.open, store.open)
      BY ONLY <2>2, <3>2, <3>a, n \in store.open.synced .. Len(store.open.entries), LossIs
    <3>5. OpenThere(u)
      BY <3>3 DEF OpenThere
    <3>6. Start(u)
      BY <3>1, <3>2
    <3>. QED BY <1>1, <1>17, <2>2, <3>3, <3>4, <3>5, <3>6
  <2>. QED BY <2>1, <2>2
<1>. QED BY <1>7, <1>8, <1>9, <1>10, <1>12, <1>13, <1>14, <1>15, <1>16, <1>19, <1>20 DEF Next

(* Raft reads, through the cache and the files of the store, the log that  *)
(* nuraft::log_store promises: every step of NuRaftFileLogStore, of its    *)
(* fsync thread and of a crash and restart is a step of the log or leaves  *)
(* it alone.  NeverOneLeft excludes the compaction that leaves one entry,  *)
(* NeverRecached the pack applied over a filled cache; both are known to   *)
(* break what raft reads.                                                  *)
THEOREM LogStoreImplementsLog ==
  ASSUME NeverOneLeft, NeverRecached
  PROVE  Spec => ImplementsLog
<1>1. Init => RL!Init
  <2> SUFFICES ASSUME Init PROVE RL!Init
    OBVIOUS
  <2>1. PICK o : o = NewSegment(1)
    OBVIOUS
  <2>2. store = StoreOf(<<>>, o, 1, 0, FALSE) /\ snapshot = 0
    BY <2>1 DEF Init, StoreOf
  <2>3. store.first = 1 /\ store.last = 0
    BY ONLY <2>2 DEF StoreOf
  <2>4. ReadLog = StoreLog(store) /\ GoodStore(store)
    BY LogInvInit, CacheSnapInit, ReadLogIs DEF LogInv, LogOK
  <2>5. ReadLog \in Seq(Entries) /\ Len(ReadLog) = 0
    BY <2>3, <2>4, StoreLogIs
  <2>6. ReadLog = <<>>
    BY <2>5
  <2>. QED BY <2>2, <2>3, <2>6 DEF RL!Init
<1>2. Init => LogInv /\ CacheInv /\ SnapInv
  BY LogInvInit, CacheSnapInit
<1>3. LogInv /\ CacheInv /\ SnapInv /\ [Next]_vars => (LogInv /\ CacheInv /\ SnapInv)'
  BY LogInvStep, CacheStep, SnapStep
<1>4. LogInv /\ CacheInv => ReadLog = StoreLog(store)
  BY ReadLogIs
<1>5. /\ LogInv /\ SnapInv /\ LogInv' /\ [Next]_vars
      /\ ReadLog = StoreLog(store) /\ (ReadLog = StoreLog(store))'
      => [RL!Next]_(RL!vars)
  BY RefStep
<1>. QED BY <1>1, <1>2, <1>3, <1>4, <1>5, PTL DEF Spec, ImplementsLog, RL!Spec
=============================================================================
