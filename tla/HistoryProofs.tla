--------------------------- MODULE HistoryProofs ---------------------------
(***************************************************************************)
(* Proofs about History for any caps, bounds and faults.                   *)
(*                                                                         *)
(* The inductive invariant says where every entry is: the queue holds the  *)
(* entries after the handled ones, in order, around at most one Stop; ring *)
(* and file hold handled ones, in order; every line that is damaged and    *)
(* every entry that is lost, or would be lost if the torn last line were   *)
(* continued, is on the account of a failed file operation.                *)
(***************************************************************************)
EXTENDS History, FiniteSetTheorems, SequenceTheorems, TLAPS

(* The lines that load() keeps.                                            *)
Kept(lines) == {i \in DOMAIN lines : lines[i] # Junk}

(* q holds the entries after h, and Stop at k when k <= Len(q).            *)
Follows(q, h, k) ==
  \A i \in 1 .. Len(q) :
    q[i] = IF i = k THEN Stop ELSE IF i < k THEN h + i ELSE h + i - 1

(* A queue q, when h of r recorded entries are handled.                    *)
HoldsRest(q, h, r) ==
  \E k \in 1 .. Len(q) + 1 :
    Follows(q, h, k) /\ r = h + Len(q) - (IF k <= Len(q) THEN 1 ELSE 0)

(* s holds the last entries up to h: ten at least, or all.                 *)
Latest(s, h) == /\ Len(s) <= h
                /\ \A i \in 1 .. Len(s) : s[i] = h - Len(s) + i
                /\ Len(s) >= 10 \/ Len(s) = h

Ascending(s, h) ==
  /\ \A i \in DOMAIN s : s[i] <= h
  /\ \A i, j \in DOMAIN s : i < j /\ s[i] # Junk /\ s[j] # Junk => s[i] < s[j]

(* A line is damaged that load() drops, or that lacks its newline.         *)
Damaged == {i \in DOMAIN file : file[i] = Junk \/ (~closed /\ i = Len(file))}

(* The entries that the next append adds to the lost ones.                 *)
AtStake == IF closed THEN 0 ELSE IF file[Len(file)] = Junk THEN 1 ELSE 2

TornLast == closed \/ file # <<>>

QueueInOrder == Handled \in Nat /\ HoldsRest(queue, Handled, recorded)

EndsEmpty == /\ writer \in {"ended", "down"} => queue = <<>>
             /\ writer = "down" => ring = <<>>

HandledInOrder == Ascending(file, Handled) /\ Ascending(ring, Handled)

(* Entries the ring shows and the file has not.                            *)
Lost == Range(ring) \ Range(file)

LossesExplained == Cardinality(Lost) + AtStake <= 2 * faults

DamageExplained == /\ Cardinality(Damaged) <= faults
                   /\ writer # "down" => Len(file) <= counted + faults

FaultlessLatest ==
  faults = 0 => /\ closed /\ Latest(file, Handled)
                /\ writer # "down" => Latest(ring, Handled)

IInv == /\ TypeOK /\ TornLast /\ EndsEmpty /\ QueueInOrder /\ HandledInOrder
        /\ LossesExplained /\ DamageExplained /\ FaultlessLatest

-----------------------------------------------------------------------------
LEMMA IntervalCounts ==
  ASSUME NEW h \in Nat, NEW n \in Nat
  PROVE  /\ IsFiniteSet(h + 1 .. h + n)
         /\ Cardinality(h + 1 .. h + n) = n
<1>1. ASSUME NEW a \in Int, NEW b \in Int, b = a + n - 1
      PROVE  IsFiniteSet(a .. b) /\ Cardinality(a .. b) = n
  BY <1>1, FS_Interval
<1> QED
  BY <1>1

(* A queue of n entries after h: the Stop in it does not count.            *)
LEMMA FollowsCounts ==
  ASSUME NEW S, NEW q \in Seq(S), NEW h \in Nat, NEW k \in 1 .. Len(q) + 1,
         Follows(q, h, k),
         NEW n \in Nat, n = Len(q) - (IF k <= Len(q) THEN 1 ELSE 0)
  PROVE  Cardinality(Range(q) \ {Stop}) = n
<1> DEFINE l == Len(q)
<1>0. l \in Nat /\ DOMAIN q = 1 .. l /\ k \in 1 .. l + 1
      /\ n = l - (IF k <= l THEN 1 ELSE 0)
      /\ \A i \in 1 .. l : q[i] = IF i = k THEN Stop ELSE IF i < k THEN h + i ELSE h + i - 1
  BY LenProperties DEF Follows
<1> HIDE DEF l
<1>1. Range(q) \ {Stop} = h + 1 .. h + n
  <2>1. ASSUME NEW e \in Range(q), e # Stop
        PROVE  e \in h + 1 .. h + n
    <3>1. PICK i \in 1 .. l : e = q[i]
      BY <1>0 DEF Range
    <3>2. i # k /\ e = IF i < k THEN h + i ELSE h + i - 1
      BY <1>0, <2>1, <3>1
    <3> QED
      BY <1>0, <3>2
  <2>2. ASSUME NEW e \in h + 1 .. h + n
        PROVE  e \in Range(q) /\ e # Stop
    <3> DEFINE i == IF e - h < k THEN e - h ELSE e - h + 1
    <3>1. i \in 1 .. l /\ i # k /\ e = IF i < k THEN h + i ELSE h + i - 1
      BY <1>0
    <3>2. q[i] = e
      BY <1>0, <3>1
    <3>3. e # Stop
      BY DEF Stop
    <3> HIDE DEF i
    <3> QED
      BY <1>0, <3>1, <3>2, <3>3 DEF Range
  <2> QED
    BY <2>1, <2>2
<1>2. Cardinality(h + 1 .. h + n) = n
  BY IntervalCounts
<1> QED
  BY <1>1, <1>2, Zenon

LEMMA RestCounts ==
  ASSUME NEW S, NEW q \in Seq(S), NEW h \in Nat, NEW r \in Nat, HoldsRest(q, h, r)
  PROVE  h = r - Cardinality(Range(q) \ {Stop}) /\ h <= r
<1> DEFINE l == Len(q)
<1>0. l \in Nat
  BY LenProperties
<1>1. PICK k \in 1 .. l + 1 : Follows(q, h, k) /\ r = h + l - (IF k <= l THEN 1 ELSE 0)
  BY DEF HoldsRest
<1> DEFINE n == l - (IF k <= l THEN 1 ELSE 0)
<1>2. Cardinality(Range(q) \ {Stop}) = n
  <2>1. n \in Nat
    <3> HIDE DEF l
    <3> QED
      BY <1>0
  <2> QED
    BY <1>1, <2>1, FollowsCounts
<1> HIDE DEF l
<1>3. r = h + n /\ n \in Nat
  BY <1>0, <1>1
<1> HIDE DEF n
<1> QED
  BY <1>2, <1>3

LEMMA RestEmpty ==
  ASSUME NEW h \in Nat
  PROVE  HoldsRest(<<>>, h, h)
BY DEF HoldsRest, Follows

(* A record(), and the None of stop_writer(), at the end of the queue.     *)
LEMMA RestAppend ==
  ASSUME NEW S, NEW q \in Seq(S), NEW h \in Nat, NEW r \in Nat, HoldsRest(q, h, r),
         r + 1 \in S
  PROVE  HoldsRest(Append(q, r + 1), h, r + 1)
<1> DEFINE l == Len(q)
           t == Append(q, r + 1)
<1>0. /\ l \in Nat /\ Len(t) = l + 1 /\ t[l + 1] = r + 1
      /\ \A i \in 1 .. l : t[i] = q[i]
  BY LenProperties, AppendProperties
<1>1. PICK k \in 1 .. l + 1 : /\ r = h + l - (IF k <= l THEN 1 ELSE 0)
                              /\ \A i \in 1 .. l :
                                   q[i] = IF i = k THEN Stop
                                          ELSE IF i < k THEN h + i ELSE h + i - 1
  BY DEF HoldsRest, Follows
<1> HIDE DEF l, t
<1> DEFINE m == IF k <= l THEN k ELSE l + 2
<1>2. /\ m \in 1 .. (l + 1) + 1
      /\ r + 1 = h + (l + 1) - (IF m <= l + 1 THEN 1 ELSE 0)
  BY <1>0, <1>1
<1>3. ASSUME NEW i \in 1 .. l + 1
      PROVE  t[i] = IF i = m THEN Stop ELSE IF i < m THEN h + i ELSE h + i - 1
  <2>1. CASE i = l + 1
    <3>1. r + 1 = IF i = m THEN Stop ELSE IF i < m THEN h + i ELSE h + i - 1
      <4>1. CASE k <= l
        BY <1>0, <1>1, <2>1, <4>1
      <4>2. CASE ~(k <= l)
        BY <1>0, <1>1, <2>1, <4>2
      <4> QED
        BY <4>1, <4>2
    <3> HIDE DEF m
    <3> QED
      BY <1>0, <2>1, <3>1
  <2>2. CASE i # l + 1
    <3>1. i \in 1 .. l
      BY <1>0, <2>2
    <3>2. (i = m <=> i = k) /\ (i < m <=> i < k)
      BY <1>0, <3>1
    <3>3. t[i] = q[i]
      BY <1>0, <3>1
    <3> HIDE DEF m
    <3> QED
      BY <1>1, <3>1, <3>2, <3>3
  <2> QED
    BY <2>1, <2>2
<1> HIDE DEF m
<1>4. HoldsRest(t, h, r + 1)
  BY <1>0, <1>2, <1>3 DEF HoldsRest, Follows
<1> QED
  BY <1>4 DEF t

LEMMA RestStop ==
  ASSUME NEW S, NEW q \in Seq(S), NEW h \in Nat, NEW r \in Nat, HoldsRest(q, h, r),
         Stop \in S, Stop \notin Range(q)
  PROVE  HoldsRest(Append(q, Stop), h, r)
<1> DEFINE l == Len(q)
           t == Append(q, Stop)
<1>0. /\ l \in Nat /\ Len(t) = l + 1 /\ t[l + 1] = Stop
      /\ \A i \in 1 .. l : t[i] = q[i]
      /\ \A i \in 1 .. l : q[i] # Stop
  BY LenProperties, AppendProperties DEF Range
<1>1. PICK k \in 1 .. l + 1 : /\ r = h + l - (IF k <= l THEN 1 ELSE 0)
                              /\ \A i \in 1 .. l :
                                   q[i] = IF i = k THEN Stop
                                          ELSE IF i < k THEN h + i ELSE h + i - 1
  BY DEF HoldsRest, Follows
<1> HIDE DEF l, t
<1>2. k = l + 1
  <2>1. k \notin 1 .. l
    BY <1>0, <1>1
  <2> QED
    BY <1>0, <2>1
<1>3. ASSUME NEW i \in 1 .. l + 1
      PROVE  t[i] = IF i = l + 1 THEN Stop ELSE IF i < l + 1 THEN h + i ELSE h + i - 1
  <2>1. CASE i = l + 1
    BY <1>0, <2>1
  <2>2. CASE i # l + 1
    <3>1. i \in 1 .. l
      BY <1>0, <2>2
    <3> QED
      BY <1>0, <1>1, <1>2, <3>1
  <2> QED
    BY <2>1, <2>2
<1>4. l + 1 \in 1 .. (l + 1) + 1 /\ r = h + (l + 1) - 1 /\ l + 1 <= l + 1
  BY <1>0, <1>1, <1>2
<1>5. HoldsRest(t, h, r)
  BY <1>0, <1>3, <1>4 DEF HoldsRest, Follows
<1> QED
  BY <1>5 DEF t

(* The head of the queue is the next entry to handle, or Stop.             *)
LEMMA RestTail ==
  ASSUME NEW S, NEW q \in Seq(S), NEW h \in Nat, NEW r \in Nat, HoldsRest(q, h, r),
         q # <<>>
  PROVE  /\ Head(q) = Stop => HoldsRest(Tail(q), h, r)
         /\ Head(q) # Stop => Head(q) = h + 1 /\ HoldsRest(Tail(q), h + 1, r)
<1> DEFINE l == Len(q)
           t == Tail(q)
<1>0. /\ l \in Nat \ {0} /\ Len(t) = l - 1 /\ Head(q) = q[1]
      /\ \A i \in 1 .. l - 1 : t[i] = q[i + 1]
  BY EmptySeq, HeadTailProperties
<1>1. PICK k \in 1 .. l + 1 : /\ r = h + l - (IF k <= l THEN 1 ELSE 0)
                              /\ \A i \in 1 .. l :
                                   q[i] = IF i = k THEN Stop
                                          ELSE IF i < k THEN h + i ELSE h + i - 1
  BY DEF HoldsRest, Follows
<1> HIDE DEF l, t
<1>2. Head(q) = IF k = 1 THEN Stop ELSE h + 1
  BY <1>0, <1>1
<1>3. ASSUME NEW i \in 1 .. l - 1
      PROVE  t[i] = IF i + 1 = k THEN Stop ELSE IF i + 1 < k THEN h + (i + 1) ELSE h + i
  <2>1. i + 1 \in 1 .. l /\ t[i] = q[i + 1] /\ (i + 1) - 1 = i
    BY <1>0
  <2> QED
    BY <1>1, <2>1
<1>4. CASE k = 1
  <2>1. \A i \in 1 .. l - 1 : t[i] = IF i = l THEN Stop ELSE IF i < l THEN h + i ELSE h + i - 1
    BY <1>0, <1>3, <1>4
  <2>2. /\ l \in 1 .. (l - 1) + 1
        /\ r = h + (l - 1) - (IF l <= l - 1 THEN 1 ELSE 0)
    BY <1>0, <1>1, <1>4
  <2>3. HoldsRest(t, h, r)
    BY <1>0, <2>1, <2>2 DEF HoldsRest, Follows
  <2> QED
    BY <1>2, <1>4, <2>3 DEF t, Stop
<1>5. CASE k # 1
  <2>1. \A i \in 1 .. l - 1 : t[i] = IF i = k - 1 THEN Stop
                                     ELSE IF i < k - 1 THEN (h + 1) + i ELSE (h + 1) + i - 1
    BY <1>0, <1>3
  <2>2. /\ k - 1 \in 1 .. (l - 1) + 1
        /\ r = (h + 1) + (l - 1) - (IF k - 1 <= l - 1 THEN 1 ELSE 0)
    BY <1>0, <1>1, <1>5
  <2>3. HoldsRest(t, h + 1, r)
    BY <1>0, <2>1, <2>2 DEF HoldsRest, Follows
  <2> QED
    BY <1>2, <1>5, <2>3 DEF t, Stop
<1> QED
  BY <1>4, <1>5

(* A bounded deque holds the end of what was put in it.                    *)
LEMMA NewestIsEnd ==
  ASSUME NEW S, NEW s \in Seq(S), NEW n \in Nat
  PROVE  /\ Newest(s, n) \in Seq(S)
         /\ Len(Newest(s, n)) = IF Len(s) > n THEN n ELSE Len(s)
         /\ \A i \in 1 .. Len(Newest(s, n)) :
              Newest(s, n)[i] = s[i + Len(s) - Len(Newest(s, n))]
<1>0. Len(s) \in Nat /\ s \in [1 .. Len(s) -> S]
  BY LenProperties
<1>1. CASE Len(s) > n
  <2> DEFINE m == Len(s) - n + 1
             l == Len(s)
             t == SubSeq(s, m, l)
  <2>1. m \in Int /\ l \in Int /\ \A i \in m .. l : s[i] \in S
    BY <1>0, <1>1
  <2>2. /\ t \in Seq(S) /\ Len(t) = IF m <= l THEN l - m + 1 ELSE 0
        /\ \A i \in 1 .. l - m + 1 : t[i] = s[m + i - 1]
    <3> HIDE DEF m, l
    <3> QED
      BY <2>1, SubSeqProperties
  <2>3. Newest(s, n) = t
    BY <1>1 DEF Newest
  <2> HIDE DEF t
  <2>4. Len(t) = n /\ l - m + 1 = n
    BY <1>0, <1>1, <2>2
  <2>5. ASSUME NEW i \in 1 .. n
        PROVE  t[i] = s[i + l - n]
    <3>1. t[i] = s[m + i - 1] /\ m + i - 1 = i + l - n
      BY <1>0, <2>2, <2>4
    <3> QED
      BY <3>1
  <2> QED
    BY <1>0, <1>1, <2>2, <2>3, <2>4, <2>5
<1>2. CASE ~(Len(s) > n)
  <2>1. Newest(s, n) = s
    BY <1>2 DEF Newest
  <2>2. ASSUME NEW i \in 1 .. Len(s)
        PROVE  i + Len(s) - Len(s) = i
    BY <1>0
  <2> QED
    BY <1>2, <2>1, <2>2
<1> QED
  BY <1>1, <1>2

(* The lines load() keeps are lines of the file, in their order, and none  *)
(* that can be read is left out.                                           *)
LEMMA ReadableLines ==
  ASSUME NEW S, NEW lines \in Seq(S)
  PROVE  /\ IsFiniteSet(Kept(lines))
         /\ Readable(lines) \in Seq(S \ {Junk})
         /\ Len(Readable(lines)) = Cardinality(Kept(lines))
         /\ \E pos \in [1 .. Len(Readable(lines)) -> Kept(lines)] :
              /\ \A n \in 1 .. Len(Readable(lines)) : Readable(lines)[n] = lines[pos[n]]
              /\ \A m, n \in 1 .. Len(Readable(lines)) : m < n => pos[m] < pos[n]
<1> DEFINE kept == Kept(lines)
           N == Cardinality(kept)
           front(i) == {j \in kept : j < i}
           before(i) == Cardinality(front(i))
           pos == [n \in 1 .. N |-> CHOOSE i \in kept : before(i) = n - 1]
<1>1. kept \subseteq 1 .. Len(lines) /\ Len(lines) \in Nat
      /\ lines \in [1 .. Len(lines) -> S]
  BY LenProperties DEF Kept
<1>2. IsFiniteSet(kept) /\ N \in Nat
  <2>1. IsFiniteSet(1 .. Len(lines))
    BY <1>1, FS_Interval
  <2> QED
    BY <1>1, <2>1, FS_Subset, FS_CardinalityType
<1>3. Readable(lines) = [n \in 1 .. N |-> lines[pos[n]]]
  BY DEF Readable, Kept
<1>4. kept \subseteq Nat /\ \A i \in kept : lines[i] \in S \ {Junk}
  BY <1>1 DEF Kept
<1> HIDE DEF kept, N
<1>5. ASSUME NEW i \in kept
      PROVE  IsFiniteSet(front(i)) /\ before(i) \in Nat /\ before(i) < N
  <2>1. front(i) \subseteq kept \ {i}
    BY <1>4
  <2>2. IsFiniteSet(kept \ {i}) /\ Cardinality(kept \ {i}) = N - 1
    BY <1>2, FS_RemoveElement DEF N
  <2> HIDE DEF front
  <2>3. IsFiniteSet(front(i)) /\ before(i) <= N - 1
    BY <2>1, <2>2, FS_Subset
  <2> QED
    BY <1>2, <2>3, FS_CardinalityType
<1>6. ASSUME NEW i \in kept, NEW k \in kept, i < k
      PROVE  before(i) < before(k)
  <2>1. front(i) \cup {i} \subseteq front(k) /\ i \notin front(i)
    <3>1. i \in Nat /\ k \in Nat /\ \A j \in kept : j \in Nat
      BY <1>4
    <3>2. \A j \in kept : j < i => j < k
      BY <1>6, <3>1
    <3>3. ~(i < i)
      BY <3>1
    <3> QED
      BY <1>6, <3>2, <3>3
  <2>2. /\ IsFiniteSet(front(i)) /\ before(i) \in Nat
        /\ IsFiniteSet(front(k)) /\ before(k) \in Nat
    BY <1>5
  <2> HIDE DEF front
  <2>3. Cardinality(front(i) \cup {i}) = before(i) + 1
    BY <2>1, <2>2, FS_AddElement
  <2>4. Cardinality(front(i) \cup {i}) <= before(k)
    BY <2>1, <2>2, FS_Subset
  <2> QED
    BY <2>2, <2>3, <2>4
<1> HIDE DEF before
<1>7. ASSUME NEW n \in 1 .. N
      PROVE  \E i \in kept : before(i) = n - 1
  <2> DEFINE rank == [i \in kept |-> before(i) + 1]
  <2>1. rank \in [kept -> 1 .. N]
    <3>1. ASSUME NEW i \in kept
          PROVE  before(i) + 1 \in 1 .. N
      <4>1. before(i) \in Nat /\ before(i) < N
        BY <1>5
      <4> QED
        BY <1>2, <4>1
    <3> QED
      BY <3>1
  <2>2. rank \in Injection(kept, 1 .. N)
    <3>1. ASSUME NEW i \in kept, NEW k \in kept, i # k
          PROVE  rank[i] # rank[k]
      <4>1. i < k \/ k < i
        BY <1>4, <3>1
      <4>2. before(i) \in Nat /\ before(k) \in Nat
        BY <1>5
      <4> QED
        BY <1>6, <4>1, <4>2
    <3> QED
      BY <2>1, <3>1 DEF Injection, IsInjective
  <2>3. IsFiniteSet(1 .. N) /\ Cardinality(1 .. N) = N
    BY <1>2, FS_Interval
  <2> HIDE DEF rank
  <2>4. rank \in Surjection(kept, 1 .. N)
    BY <2>2, <2>3, FS_Injection DEF N
  <2>5. PICK i \in kept : rank[i] = n
    BY <2>4 DEF Surjection
  <2>6. before(i) = n - 1
    <3>1. before(i) \in Nat /\ before(i) + 1 = n
      BY <1>5, <2>5 DEF rank
    <3> QED
      BY <3>1
  <2> QED
    BY <2>6
<1>8. \A n \in 1 .. N : pos[n] \in kept /\ before(pos[n]) = n - 1
  BY <1>7
<1> HIDE DEF pos
<1>9. ASSUME NEW m \in 1 .. N, NEW n \in 1 .. N, m < n
      PROVE  pos[m] < pos[n]
  <2>1. /\ pos[m] \in kept /\ before(pos[m]) = m - 1
        /\ pos[n] \in kept /\ before(pos[n]) = n - 1
    BY <1>8
  <2>2. ~(before(pos[n]) < before(pos[m])) /\ before(pos[n]) # before(pos[m])
    BY <1>2, <1>9, <2>1
  <2>3. ~(pos[n] < pos[m]) /\ pos[n] # pos[m]
    BY <1>6, <2>1, <2>2
  <2>4. pos[m] \in Nat /\ pos[n] \in Nat
    BY <1>4, <2>1
  <2> QED
    BY <2>3, <2>4
<1>10. pos \in [1 .. N -> kept]
  BY <1>8 DEF pos
<1>11. /\ Readable(lines) \in Seq(S \ {Junk}) /\ Len(Readable(lines)) = N
       /\ \A n \in 1 .. N : Readable(lines)[n] = lines[pos[n]]
  <2>1. \A n \in 1 .. N : lines[pos[n]] \in S \ {Junk}
    BY <1>4, <1>8
  <2> QED
    BY <1>2, <1>3, <2>1
<1> QED
  BY <1>2, <1>9, <1>10, <1>11 DEF kept, N

(* A file without junk is kept as it is.                                   *)
LEMMA ReadableWhole ==
  ASSUME NEW S, NEW lines \in Seq(S), \A i \in DOMAIN lines : lines[i] # Junk
  PROVE  Readable(lines) = lines
<1> DEFINE l == Len(lines)
           before(i) == Cardinality({j \in 1 .. l : j < i})
<1>1. l \in Nat /\ DOMAIN lines = 1 .. l /\ lines \in [1 .. l -> S]
  BY LenProperties
<1> HIDE DEF l
<1>2. {i \in DOMAIN lines : lines[i] # Junk} = 1 .. l
  BY <1>1
<1>3. Cardinality(1 .. l) = l
  BY <1>1, FS_Interval
<1>4. Readable(lines) = [n \in 1 .. l |-> lines[CHOOSE i \in 1 .. l : before(i) = n - 1]]
  <2> DEFINE kept == {i \in DOMAIN lines : lines[i] # Junk}
  <2>1. Readable(lines) =
          [n \in 1 .. Cardinality(kept) |->
             lines[CHOOSE i \in kept : Cardinality({j \in kept : j < i}) = n - 1]]
    BY DEF Readable
  <2>2. kept = 1 .. l
    BY <1>2
  <2> HIDE DEF kept
  <2> QED
    BY <1>3, <2>1, <2>2, Zenon
<1>5. ASSUME NEW i \in 1 .. l
      PROVE  before(i) = i - 1
  <2>1. {j \in 1 .. l : j < i} = 1 .. i - 1
    BY <1>1
  <2>2. i - 1 \in Nat
    OBVIOUS
  <2>3. \A b \in Nat : Cardinality(1 .. b) = b
    BY FS_Interval
  <2>4. Cardinality(1 .. i - 1) = i - 1
    BY <2>2, <2>3
  <2> QED
    BY <2>1, <2>4, Zenon
<1> HIDE DEF before
<1>6. ASSUME NEW n \in 1 .. l
      PROVE  (CHOOSE i \in 1 .. l : before(i) = n - 1) = n
  <2>1. \A i \in 1 .. l : before(i) = n - 1 <=> i = n
    BY <1>5
  <2> QED
    BY <2>1
<1>7. Readable(lines) = [n \in 1 .. l |-> lines[n]]
  BY <1>4, <1>6
<1> QED
  BY <1>1, <1>7

LEMMA ReadableRange ==
  ASSUME NEW S, NEW lines \in Seq(S)
  PROVE  Range(Readable(lines)) \subseteq Range(lines)
<1> DEFINE N == Len(Readable(lines))
<1>1. PICK pos \in [1 .. N -> Kept(lines)] :
        \A n \in 1 .. N : Readable(lines)[n] = lines[pos[n]]
  BY ReadableLines
<1>2. DOMAIN Readable(lines) = 1 .. N
  BY ReadableLines, LenProperties
<1>3. Kept(lines) \subseteq DOMAIN lines
  BY DEF Kept
<1> HIDE DEF N
<1> QED
  BY <1>1, <1>2, <1>3 DEF Range

LEMMA NewestRange ==
  ASSUME NEW S, NEW s \in Seq(S), NEW n \in Nat
  PROVE  Range(Newest(s, n)) \subseteq Range(s)
<1> DEFINE l == Len(s)
           t == Newest(s, n)
           m == Len(t)
<1>1. /\ DOMAIN s = 1 .. l /\ DOMAIN t = 1 .. m /\ l \in Nat
      /\ m = IF l > n THEN n ELSE l
      /\ \A i \in 1 .. m : t[i] = s[i + l - m]
  BY NewestIsEnd, LenProperties
<1> HIDE DEF l, t, m
<1>2. ASSUME NEW e \in Range(t)
      PROVE  e \in Range(s)
  <2>1. PICK i \in 1 .. m : e = t[i]
    BY <1>1 DEF Range
  <2>2. i + l - m \in 1 .. l
    BY <1>1
  <2> QED
    BY <1>1, <2>1, <2>2 DEF Range
<1> QED
  BY <1>2 DEF t

-----------------------------------------------------------------------------
(* What the deque, load() and the append do to entries in order.           *)
LEMMA AscendingNewest ==
  ASSUME NEW s \in Seq(Nat), NEW n \in Nat, NEW h \in Nat, Ascending(s, h)
  PROVE  Ascending(Newest(s, n), h)
<1> DEFINE l == Len(s)
           t == Newest(s, n)
           m == Len(t)
<1>1. /\ DOMAIN s = 1 .. l /\ DOMAIN t = 1 .. m /\ l \in Nat
      /\ m = IF l > n THEN n ELSE l
      /\ \A i \in 1 .. m : t[i] = s[i + l - m]
  BY NewestIsEnd, LenProperties
<1> HIDE DEF l, t, m
<1>2. \A i \in 1 .. m : i + l - m \in 1 .. l
  BY <1>1
<1>3. \A i, j \in 1 .. m : i < j => i + l - m < j + l - m
  BY <1>1
<1>4. Ascending(t, h)
  BY <1>1, <1>2, <1>3 DEF Ascending
<1> QED
  BY <1>4 DEF t

LEMMA AscendingReadable ==
  ASSUME NEW S, NEW lines \in Seq(S), NEW h \in Nat, Ascending(lines, h)
  PROVE  Ascending(Readable(lines), h)
<1> DEFINE N == Len(Readable(lines))
<1>1. PICK pos \in [1 .. N -> Kept(lines)] :
        /\ \A n \in 1 .. N : Readable(lines)[n] = lines[pos[n]]
        /\ \A m, n \in 1 .. N : m < n => pos[m] < pos[n]
  BY ReadableLines
<1>2. DOMAIN Readable(lines) = 1 .. N
  BY ReadableLines, LenProperties
<1>3. Kept(lines) \subseteq DOMAIN lines
  BY DEF Kept
<1> HIDE DEF N
<1> QED
  BY <1>1, <1>2, <1>3 DEF Ascending

LEMMA AscendingAppend ==
  ASSUME NEW s \in Seq(Nat), NEW h \in Nat, Ascending(s, h), NEW e \in {h + 1, Junk}
  PROVE  Ascending(Append(s, e), h + 1)
<1> DEFINE l == Len(s)
           t == Append(s, e)
<1>1. /\ l \in Nat /\ DOMAIN s = 1 .. l /\ DOMAIN t = 1 .. l + 1
      /\ t[l + 1] = e
      /\ \A i \in 1 .. l : t[i] = s[i] /\ s[i] \in Nat
  BY LenProperties, AppendProperties DEF Junk
<1> HIDE DEF l, t
<1>2. \A i \in 1 .. l : s[i] <= h
  BY <1>1 DEF Ascending
<1>3. ASSUME NEW i \in 1 .. l + 1
      PROVE  t[i] <= h + 1
  BY <1>1, <1>2 DEF Junk
<1>4. ASSUME NEW i \in 1 .. l + 1, NEW j \in 1 .. l + 1,
             i < j, t[i] # Junk, t[j] # Junk
      PROVE  t[i] < t[j]
  <2>1. i \in 1 .. l
    BY <1>1, <1>4
  <2>2. CASE j = l + 1
    BY <1>1, <1>2, <1>4, <2>1, <2>2
  <2>3. CASE j # l + 1
    <3>1. j \in 1 .. l
      BY <1>1, <2>3
    <3> QED
      BY <1>1, <1>4, <2>1, <3>1 DEF Ascending
  <2> QED
    BY <2>2, <2>3
<1>5. Ascending(t, h + 1)
  BY <1>1, <1>3, <1>4 DEF Ascending
<1> QED
  BY <1>5 DEF t

LEMMA AscendingJoined ==
  ASSUME NEW s \in Seq(Nat), s # <<>>, NEW h \in Nat, Ascending(s, h)
  PROVE  Ascending([s EXCEPT ![Len(s)] = Junk], h + 1)
<1>1. DOMAIN s = 1 .. Len(s) /\ \A i \in 1 .. Len(s) : s[i] \in Nat
  BY LenProperties
<1>2. \A i \in DOMAIN s : s[i] <= h + 1 /\ 0 <= h + 1
  BY <1>1 DEF Ascending
<1> QED
  BY <1>2 DEF Ascending, Junk

LEMMA LatestNewest ==
  ASSUME NEW s \in Seq(Nat), NEW h \in Nat, Latest(s, h), NEW n \in Nat, n >= 10
  PROVE  Latest(Newest(s, n), h)
<1> DEFINE l == Len(s)
           t == Newest(s, n)
           m == Len(t)
<1>1. /\ l \in Nat /\ m = IF l > n THEN n ELSE l
      /\ \A i \in 1 .. m : t[i] = s[i + l - m]
  BY NewestIsEnd, LenProperties
<1>2. l <= h /\ (l >= 10 \/ l = h) /\ \A i \in 1 .. l : s[i] = h - l + i
  BY DEF Latest
<1> HIDE DEF l, t
<1>3. m <= h /\ (m >= 10 \/ m = h)
  <2> HIDE DEF m
  <2> QED
    BY <1>1, <1>2
<1>4. ASSUME NEW i \in 1 .. m
      PROVE  t[i] = h - m + i
  <2> HIDE DEF m
  <2>1. i + l - m \in 1 .. l /\ h - l + (i + l - m) = h - m + i
    BY <1>1
  <2> QED
    BY <1>1, <1>2, <2>1
<1>5. Latest(t, h)
  BY <1>3, <1>4 DEF Latest
<1> QED
  BY <1>5 DEF t

LEMMA LatestAppend ==
  ASSUME NEW s \in Seq(Nat), NEW h \in Nat, Latest(s, h)
  PROVE  Latest(Append(s, h + 1), h + 1)
<1> DEFINE l == Len(s)
           t == Append(s, h + 1)
<1>1. /\ l \in Nat /\ Len(t) = l + 1 /\ t[l + 1] = h + 1
      /\ \A i \in 1 .. l : t[i] = s[i]
  BY LenProperties, AppendProperties
<1>2. l <= h /\ (l >= 10 \/ l = h) /\ \A i \in 1 .. l : s[i] = h - l + i
  BY DEF Latest
<1> HIDE DEF l, t
<1>3. ASSUME NEW i \in 1 .. l + 1
      PROVE  t[i] = (h + 1) - (l + 1) + i
  <2>1. CASE i = l + 1
    BY <1>1, <2>1
  <2>2. CASE i # l + 1
    <3>1. i \in 1 .. l
      BY <1>1, <2>2
    <3> QED
      BY <1>1, <1>2, <3>1
  <2> QED
    BY <2>1, <2>2
<1>4. l + 1 <= h + 1 /\ (l + 1 >= 10 \/ l + 1 = h + 1)
  BY <1>1, <1>2
<1>5. Latest(t, h + 1)
  BY <1>1, <1>3, <1>4 DEF Latest
<1> QED
  BY <1>5 DEF t

LEMMA LatestReadable ==
  ASSUME NEW s \in Seq(Nat), NEW h \in Nat, Latest(s, h)
  PROVE  Readable(s) = s
<1> DEFINE l == Len(s)
<1>1. l \in Nat /\ DOMAIN s = 1 .. l
  BY LenProperties
<1>2. l <= h /\ \A i \in 1 .. l : s[i] = h - l + i
  BY DEF Latest
<1> HIDE DEF l
<1>3. ASSUME NEW i \in 1 .. l
      PROVE  s[i] # Junk
  BY <1>1, <1>2 DEF Junk
<1> QED
  BY <1>1, <1>3, ReadableWhole

-----------------------------------------------------------------------------
LEMMA OneMore ==
  ASSUME NEW S, IsFiniteSet(S), NEW a, NEW T, T \subseteq S \cup {a}
  PROVE  /\ IsFiniteSet(T) /\ Cardinality(T) \in Nat /\ Cardinality(S) \in Nat
         /\ Cardinality(T) <= Cardinality(S) + 1
<1>1. IsFiniteSet(S \cup {a}) /\ Cardinality(S) \in Nat
      /\ (Cardinality(S \cup {a}) = Cardinality(S) \/ Cardinality(S \cup {a}) = Cardinality(S) + 1)
  BY FS_AddElement, FS_CardinalityType
<1>2. IsFiniteSet(T) /\ Cardinality(T) <= Cardinality(S \cup {a}) /\ Cardinality(T) \in Nat
  BY <1>1, FS_Subset, FS_CardinalityType
<1> QED
  BY <1>1, <1>2

LEMMA NoMore ==
  ASSUME NEW S, IsFiniteSet(S), NEW T, T \subseteq S
  PROVE  /\ IsFiniteSet(T) /\ Cardinality(T) \in Nat /\ Cardinality(S) \in Nat
         /\ Cardinality(T) <= Cardinality(S)
BY FS_Subset, FS_CardinalityType

LEMMA RangeFinite ==
  ASSUME NEW S, NEW s \in Seq(S)
  PROVE  IsFiniteSet(Range(s))
<1>1. IsFiniteSet(1 .. Len(s)) /\ DOMAIN s = 1 .. Len(s)
  BY LenProperties, FS_Interval
<1>2. s \in Surjection(DOMAIN s, Range(s))
  <2>1. s \in [DOMAIN s -> Range(s)]
    BY LenProperties DEF Range
  <2> QED
    BY <2>1 DEF Surjection, Range
<1> QED
  BY <1>1, <1>2, FS_Surjection

(* What load() does not count of a file is junk.                           *)
LEMMA KeptCounts ==
  ASSUME NEW S, NEW lines \in Seq(S), NEW D, IsFiniteSet(D),
         \A i \in DOMAIN lines : lines[i] = Junk => i \in D
  PROVE  Len(lines) <= Len(Readable(lines)) + Cardinality(D)
<1> DEFINE l == Len(lines)
           K == Kept(lines)
<1>1. l \in Nat /\ DOMAIN lines = 1 .. l
  BY LenProperties
<1>2. IsFiniteSet(K) /\ Len(Readable(lines)) = Cardinality(K) /\ Cardinality(K) \in Nat
  BY ReadableLines, FS_CardinalityType
<1>3. 1 .. l \subseteq K \cup D
  BY <1>1 DEF Kept
<1> HIDE DEF l, K
<1>4. Cardinality(1 .. l) = l
  BY <1>1, FS_Interval
<1>5. /\ IsFiniteSet(K \cup D) /\ Cardinality(D) \in Nat /\ Cardinality(K \cap D) \in Nat
      /\ Cardinality(K \cup D) = Cardinality(K) + Cardinality(D) - Cardinality(K \cap D)
  <2>1. IsFiniteSet(K \cap D)
    BY <1>2, FS_Subset
  <2> QED
    BY <1>2, <2>1, FS_Union, FS_CardinalityType
<1>6. Cardinality(1 .. l) <= Cardinality(K \cup D)
  BY <1>3, <1>5, FS_Subset
<1> QED
  BY <1>1, <1>2, <1>4, <1>5, <1>6 DEF l

-----------------------------------------------------------------------------
LEMMA Types ==
  ASSUME TypeOK
  PROVE  /\ Entries \subseteq Nat \ {0} /\ MaxRecords \in Nat /\ MaxFaults \in Nat
         /\ file \in Seq(Nat) /\ ring \in Seq(Nat) /\ queue \in Seq(Nat)
         /\ max \in Nat /\ max >= 10 /\ Len(file) \in Nat /\ Len(ring) \in Nat
         /\ DOMAIN file = 1 .. Len(file) /\ DOMAIN ring = 1 .. Len(ring)
         /\ \A i \in DOMAIN ring : ring[i] \in Nat \ {0}
         /\ faults \in Nat /\ recorded \in Nat /\ counted \in Nat
<1>1. MaxRecords \in Nat /\ MaxFaults \in Nat /\ Entries \subseteq Nat \ {0}
  BY BoundsAssumption DEF Entries
<1>2. /\ file \in Seq(Entries \cup {Junk}) /\ ring \in Seq(Entries)
      /\ queue \in Seq(Entries \cup {Stop})
      /\ max \in Nat /\ max >= 10
      /\ faults \in Nat /\ recorded \in Nat /\ counted \in Nat
  BY <1>1, CapsAssumption DEF TypeOK
<1>3. file \in Seq(Nat) /\ ring \in Seq(Nat) /\ queue \in Seq(Nat)
  <2>1. Entries \cup {Junk} \subseteq Nat /\ Entries \subseteq Nat /\ Entries \cup {Stop} \subseteq Nat
    BY <1>1 DEF Junk, Stop
  <2> QED
    BY <1>2, <2>1, SeqMonotonic
<1>4. /\ Len(file) \in Nat /\ Len(ring) \in Nat
      /\ DOMAIN file = 1 .. Len(file) /\ DOMAIN ring = 1 .. Len(ring)
      /\ \A i \in 1 .. Len(ring) : ring[i] \in Entries
  BY <1>2, LenProperties
<1> QED
  BY <1>1, <1>2, <1>3, <1>4

LEMMA DamagedFinite ==
  ASSUME TypeOK
  PROVE  IsFiniteSet(Damaged) /\ Cardinality(Damaged) \in Nat
<1>1. IsFiniteSet(1 .. Len(file)) /\ Damaged \subseteq 1 .. Len(file)
  BY Types, FS_Interval DEF Damaged
<1> QED
  BY <1>1, FS_Subset, FS_CardinalityType

LEMMA LostFinite ==
  ASSUME TypeOK
  PROVE  IsFiniteSet(Lost) /\ Cardinality(Lost) \in Nat
<1>1. IsFiniteSet(Range(ring))
  BY Types, RangeFinite
<1> QED
  BY <1>1, FS_Subset, FS_CardinalityType DEF Lost

-----------------------------------------------------------------------------
(* What an append of e may do: line x is added, or the torn last line is   *)
(* joined and so damaged for good, or nothing is written.                  *)
Charged == IF closed' THEN counted' = counted + 1 /\ faults' = faults
                      ELSE counted' = counted /\ faults' = faults + 1

Extends(x) == /\ closed /\ file' = Append(file, x) /\ (x = Junk => ~closed')
              /\ closed' \in BOOLEAN /\ Charged

Joins == /\ ~closed /\ file # <<>> /\ file' = [file EXCEPT ![Len(file)] = Junk]
         /\ closed' \in BOOLEAN /\ Charged

Misses == UNCHANGED <<disk, counted>> /\ faults' = faults + 1

LEMMA AppendCases ==
  ASSUME TypeOK, TornLast, NEW e \in Entries, AppendWorks(e) \/ AppendFails(e)
  PROVE  /\ Extends(e) \/ Extends(Junk) \/ Joins \/ Misses
         /\ faults' \in 0 .. MaxFaults /\ faults' >= faults /\ counted' \in Nat
<1>0. /\ e # Junk /\ closed \in BOOLEAN /\ faults \in 0 .. MaxFaults /\ MaxFaults \in Nat
      /\ counted \in Nat
  BY Types DEF TypeOK, Junk
<1>1. CASE AppendWorks(e)
  <2>1. /\ file' = Written(e) /\ closed' = TRUE /\ counted' = counted + 1 /\ faults' = faults
    BY <1>1 DEF AppendWorks
  <2>2. Charged
    BY <2>1 DEF Charged
  <2>3. CASE closed
    BY <1>0, <2>1, <2>2, <2>3 DEF Written, Extends
  <2>4. CASE ~closed
    BY <1>0, <2>1, <2>2, <2>4 DEF Written, Joins, TornLast
  <2> QED
    BY <1>0, <2>1, <2>3, <2>4
<1>2. CASE AppendFails(e)
  <2>1. faults' = faults + 1 /\ counted' = counted /\ faults' \in 0 .. MaxFaults
    BY <1>0, <1>2 DEF AppendFails
  <2>2. CASE UNCHANGED disk
    BY <1>0, <2>1, <2>2 DEF Misses
  <2>3. CASE file' \in {Written(Junk), Written(e)} /\ closed' = FALSE
    <3>1. Charged /\ ~closed' /\ closed' \in BOOLEAN
      BY <2>1, <2>3 DEF Charged
    <3>2. CASE closed
      <4>1. file' = Append(file, Junk) \/ file' = Append(file, e)
        BY <2>3, <3>2 DEF Written
      <4> QED
        BY <1>0, <2>1, <3>1, <3>2, <4>1 DEF Extends
    <3>3. CASE ~closed
      <4>1. file' = [file EXCEPT ![Len(file)] = Junk] /\ file # <<>>
        BY <2>3, <3>3 DEF Written, TornLast
      <4> QED
        BY <1>0, <2>1, <3>1, <3>3, <4>1 DEF Joins
    <3> QED
      BY <3>2, <3>3
  <2> QED
    BY <1>2, <2>2, <2>3 DEF AppendFails
<1> QED
  BY <1>1, <1>2

LEMMA ExtendedFile ==
  ASSUME TypeOK, NEW x \in Entries \cup {Junk}, file' = Append(file, x)
  PROVE  /\ file' \in Seq(Entries \cup {Junk}) /\ file' # <<>>
         /\ Len(file') = Len(file) + 1 /\ DOMAIN file' = 1 .. Len(file) + 1
         /\ file'[Len(file) + 1] = x
         /\ \A i \in 1 .. Len(file) : file'[i] = file[i]
         /\ Range(file') = Range(file) \cup {x}
<1> DEFINE l == Len(file)
<1>1. file \in Seq(Entries \cup {Junk}) /\ l \in Nat /\ DOMAIN file = 1 .. l
  BY Types DEF TypeOK
<1>2. /\ file' \in Seq(Entries \cup {Junk}) /\ file' # <<>>
      /\ Len(file') = l + 1 /\ file'[l + 1] = x
      /\ \A i \in 1 .. l : file'[i] = file[i]
  BY <1>1, AppendProperties
<1>3. DOMAIN file' = 1 .. l + 1
  BY <1>2, LenProperties
<1> HIDE DEF l
<1>4. Range(file') = Range(file) \cup {x}
  <2>1. 1 .. l + 1 = 1 .. l \cup {l + 1}
    BY <1>1
  <2> QED
    BY <1>1, <1>2, <1>3, <2>1 DEF Range
<1> QED
  BY <1>2, <1>3, <1>4 DEF l

LEMMA JoinedFile ==
  ASSUME TypeOK, file # <<>>, file' = [file EXCEPT ![Len(file)] = Junk]
  PROVE  /\ file' \in Seq(Entries \cup {Junk}) /\ file' # <<>>
         /\ Len(file') = Len(file) /\ DOMAIN file' = 1 .. Len(file)
         /\ Len(file) \in 1 .. Len(file) /\ file'[Len(file)] = Junk
         /\ \A i \in 1 .. Len(file) : i # Len(file) => file'[i] = file[i]
         /\ Range(file) \subseteq Range(file') \cup {file[Len(file)]}
<1> DEFINE l == Len(file)
<1>1. file \in Seq(Entries \cup {Junk}) /\ l \in Nat \ {0} /\ DOMAIN file = 1 .. l
  BY Types, EmptySeq DEF TypeOK
<1>2. l \in 1 .. l
  BY <1>1
<1>3. /\ file' \in Seq(Entries \cup {Junk}) /\ Len(file') = l
      /\ \A i \in 1 .. l : file'[i] = IF i = l THEN Junk ELSE file[i]
  BY <1>1, <1>2, ExceptSeq
<1>4. DOMAIN file' = 1 .. l /\ file' # <<>>
  BY <1>1, <1>3, LenProperties, EmptySeq
<1>5. Range(file) \subseteq Range(file') \cup {file[l]}
  <2> HIDE DEF l
  <2> QED
    BY <1>1, <1>3, <1>4 DEF Range
<1> QED
  BY <1>2, <1>3, <1>4, <1>5

(* Every damaged line, and every line not counted, is due to a failure.    *)
LEMMA AppendDamage ==
  ASSUME TypeOK, DamageExplained, NEW e \in Entries,
         Extends(e) \/ Extends(Junk) \/ Joins \/ Misses
  PROVE  /\ Cardinality(Damaged') <= faults'
         /\ Len(file) <= counted + faults => Len(file') <= counted' + faults'
<1> DEFINE l == Len(file)
<1>0. /\ IsFiniteSet(Damaged) /\ Cardinality(Damaged) \in Nat
      /\ Cardinality(Damaged) <= faults /\ faults \in Nat /\ counted \in Nat
      /\ l \in Nat /\ DOMAIN file = 1 .. l /\ e # Junk
  BY DamagedFinite, Types DEF DamageExplained, Junk
<1>1. ASSUME NEW x \in {e, Junk}, Extends(x)
      PROVE  /\ Cardinality(Damaged') <= faults'
             /\ l <= counted + faults => Len(file') <= counted' + faults'
  <2>1. /\ Len(file') = l + 1 /\ DOMAIN file' = 1 .. l + 1 /\ file'[l + 1] = x
        /\ \A i \in 1 .. l : file'[i] = file[i]
    BY <1>1, ExtendedFile DEF Extends
  <2>2. closed /\ (x = Junk => ~closed') /\ Charged /\ closed' \in BOOLEAN
    BY <1>1 DEF Extends
  <2> HIDE DEF l
  <2>3. Damaged' \subseteq Damaged \cup {l + 1} /\ (closed' => Damaged' \subseteq Damaged)
    BY <1>0, <2>1, <2>2 DEF Damaged
  <2>4. CASE closed'
    <3>1. Cardinality(Damaged') \in Nat /\ Cardinality(Damaged') <= Cardinality(Damaged)
      BY <1>0, <2>3, <2>4, NoMore
    <3>2. counted' = counted + 1 /\ faults' = faults
      BY <2>2, <2>4 DEF Charged
    <3> QED
      BY <1>0, <2>1, <3>1, <3>2
  <2>5. CASE ~closed'
    <3>1. Cardinality(Damaged') \in Nat /\ Cardinality(Damaged') <= Cardinality(Damaged) + 1
      BY <1>0, <2>3, OneMore
    <3>2. counted' = counted /\ faults' = faults + 1
      BY <2>2, <2>5 DEF Charged
    <3> QED
      BY <1>0, <2>1, <3>1, <3>2
  <2> QED
    BY <2>4, <2>5
<1>2. ASSUME Joins
      PROVE  /\ Cardinality(Damaged') <= faults'
             /\ l <= counted + faults => Len(file') <= counted' + faults'
  <2>1. /\ Len(file') = l /\ DOMAIN file' = 1 .. l /\ l \in 1 .. l
        /\ \A i \in 1 .. l : i # l => file'[i] = file[i]
    BY <1>2, JoinedFile DEF Joins
  <2>2. ~closed /\ Charged
    BY <1>2 DEF Joins
  <2> HIDE DEF l
  <2>3. Damaged' \subseteq Damaged
    <3>1. ASSUME NEW i \in Damaged'
          PROVE  i \in Damaged
      <4>1. i \in 1 .. l /\ (i # l => file[i] = Junk)
        BY <2>1, <3>1 DEF Damaged
      <4> QED
        BY <1>0, <2>2, <4>1 DEF Damaged, l
    <3> QED
      BY <3>1
  <2>4. Cardinality(Damaged') \in Nat /\ Cardinality(Damaged') <= Cardinality(Damaged)
    BY <1>0, <2>3, NoMore
  <2>5. CASE closed'
    <3>1. counted' = counted + 1 /\ faults' = faults
      BY <2>2, <2>5 DEF Charged
    <3> QED
      BY <1>0, <2>1, <2>4, <3>1
  <2>6. CASE ~closed'
    <3>1. counted' = counted /\ faults' = faults + 1
      BY <2>2, <2>6 DEF Charged
    <3> QED
      BY <1>0, <2>1, <2>4, <3>1
  <2> QED
    BY <2>5, <2>6
<1>3. CASE Misses
  <2>1. Damaged' = Damaged /\ Len(file') = l
    BY <1>3 DEF Misses, disk, Damaged
  <2> QED
    BY <1>0, <1>3, <2>1 DEF Misses
<1> QED
  BY <1>1, <1>2, <1>3

(* A failure costs the entry of its own append, and a torn line, which the *)
(* next append joins, the entry in it and the one of that append.          *)
LEMMA AppendLoss ==
  ASSUME TypeOK, LossesExplained, NEW e \in Entries,
         Extends(e) \/ Extends(Junk) \/ Joins \/ Misses,
         Range(ring') \subseteq Range(ring) \cup {e}, Junk \notin Range(ring')
  PROVE  LossesExplained'
<1> DEFINE c == Cardinality(Lost)
           d == Cardinality(Lost')
           f == faults
<1>0. /\ IsFiniteSet(Lost) /\ c \in Nat /\ f \in Nat /\ e # Junk
      /\ c + AtStake <= 2 * f
  BY LostFinite, Types DEF LossesExplained, Junk
<1>1. ASSUME NEW x \in {e, Junk}, Extends(x)
      PROVE  d + AtStake' <= 2 * faults'
  <2>1. /\ Len(file') = Len(file) + 1 /\ file'[Len(file')] = x
        /\ Range(file') = Range(file) \cup {x}
    BY <1>1, ExtendedFile, Types DEF Extends
  <2>2. closed /\ (x = Junk => ~closed') /\ Charged /\ closed' \in BOOLEAN
    BY <1>1 DEF Extends
  <2>3. AtStake = 0 /\ AtStake' = IF closed' THEN 0 ELSE IF x = Junk THEN 1 ELSE 2
    BY <2>1, <2>2 DEF AtStake
  <2>4. CASE x = e
    <3>1. Lost' \subseteq Lost
      BY <2>1, <2>4 DEF Lost
    <3>2. d \in Nat /\ d <= c
      BY <1>0, <3>1, NoMore
    <3>3. CASE closed'
      <4>1. faults' = f /\ AtStake' = 0
        BY <2>2, <2>3, <3>3 DEF Charged
      <4> HIDE DEF c, d, f
      <4> QED
        BY <1>0, <2>3, <3>2, <4>1
    <3>4. CASE ~closed'
      <4>1. faults' = f + 1 /\ AtStake' = 2
        BY <1>0, <2>2, <2>3, <2>4, <3>4 DEF Charged
      <4> HIDE DEF c, d, f
      <4> QED
        BY <1>0, <2>3, <3>2, <4>1
    <3> QED
      BY <3>3, <3>4
  <2>5. CASE x = Junk
    <3>1. Lost' \subseteq Lost \cup {e}
      BY <2>1, <2>5 DEF Lost
    <3>2. d \in Nat /\ d <= c + 1
      BY <1>0, <3>1, OneMore
    <3>3. faults' = f + 1 /\ AtStake' = 1
      BY <2>2, <2>3, <2>5 DEF Charged
    <3> HIDE DEF c, d, f
    <3> QED
      BY <1>0, <2>3, <3>2, <3>3
  <2> QED
    BY <2>4, <2>5
<1>2. ASSUME Joins
      PROVE  d + AtStake' <= 2 * faults'
  <2> DEFINE last == file[Len(file)]
             a == AtStake
  <2>1. /\ file'[Len(file')] = Junk
        /\ Range(file) \subseteq Range(file') \cup {last}
    BY <1>2, JoinedFile DEF Joins
  <2>2. ~closed /\ Charged /\ closed' \in BOOLEAN
    BY <1>2 DEF Joins
  <2>3. /\ a = IF last = Junk THEN 1 ELSE 2
        /\ AtStake' = IF closed' THEN 0 ELSE 1
    BY <2>1, <2>2 DEF AtStake
  <2>4. d \in Nat /\ d <= c + a
    <3>1. CASE last = Junk
      <4>1. Lost' \subseteq Lost \cup {e}
        BY <2>1, <3>1 DEF Lost
      <4> QED
        BY <1>0, <2>3, <3>1, <4>1, OneMore
    <3>2. CASE last # Junk
      <4> DEFINE E == Lost \cup {e}
      <4>1. IsFiniteSet(E) /\ Cardinality(E) \in Nat /\ Cardinality(E) <= c + 1
        BY <1>0, OneMore
      <4>2. Lost' \subseteq E \cup {last}
        BY <2>1 DEF Lost
      <4> HIDE DEF E
      <4>3. d \in Nat /\ d <= Cardinality(E) + 1
        BY <4>1, <4>2, OneMore
      <4> HIDE DEF c, d, a, last
      <4> QED
        BY <1>0, <2>3, <3>2, <4>1, <4>3
    <3> QED
      BY <3>1, <3>2
  <2>5. c + a <= 2 * f /\ a \in Nat
    BY <1>0, <2>3
  <2> HIDE DEF c, d, a, f, last
  <2>6. CASE closed'
    <3>1. faults' = f /\ AtStake' = 0
      BY <2>2, <2>3, <2>6 DEF Charged, f
    <3> QED
      BY <1>0, <2>4, <2>5, <3>1
  <2>7. CASE ~closed'
    <3>1. faults' = f + 1 /\ AtStake' = 1
      BY <2>2, <2>3, <2>7 DEF Charged, f
    <3> QED
      BY <1>0, <2>4, <2>5, <3>1
  <2> QED
    BY <2>6, <2>7
<1>3. CASE Misses
  <2>1. /\ Lost' \subseteq Lost \cup {e} /\ AtStake' = AtStake /\ faults' = f + 1
        /\ AtStake \in {0, 1, 2}
    BY <1>3 DEF Misses, disk, Lost, AtStake
  <2>2. d \in Nat /\ d <= c + 1
    BY <1>0, <2>1, OneMore
  <2>3. d + AtStake' <= 2 * faults'
    <3> HIDE DEF c, d, f
    <3> QED
      BY <1>0, <2>1, <2>2
  <2> QED
    BY <2>3 DEF LossesExplained
<1> QED
  BY <1>1, <1>2, <1>3 DEF LossesExplained

LEMMA AppendOrder ==
  ASSUME TypeOK, NEW h \in Nat, Ascending(file, h), NEW e \in Entries, e = h + 1,
         Extends(e) \/ Extends(Junk) \/ Joins \/ Misses
  PROVE  Ascending(file', h + 1)
<1>0. file \in Seq(Nat) /\ DOMAIN file = 1 .. Len(file) /\ Len(file) \in Nat
  BY Types
<1>1. ASSUME NEW x \in {h + 1, Junk}, Extends(x)
      PROVE  Ascending(file', h + 1)
  BY <1>0, <1>1, AscendingAppend DEF Extends
<1>2. CASE Joins
  BY <1>0, <1>2, AscendingJoined DEF Joins
<1>3. CASE Misses
  <2>1. file' = file
    BY <1>3 DEF Misses, disk
  <2>2. \A i \in 1 .. Len(file) : file[i] \in Nat
    BY <1>0, LenProperties
  <2> QED
    BY <1>0, <2>1, <2>2 DEF Ascending
<1> QED
  BY <1>1, <1>2, <1>3

LEMMA AppendFile ==
  ASSUME TypeOK, TornLast, NEW e \in Entries,
         Extends(e) \/ Extends(Junk) \/ Joins \/ Misses
  PROVE  /\ file' \in Seq(Entries \cup {Junk}) /\ closed' \in BOOLEAN
         /\ TornLast'
<1>1. ASSUME NEW x \in {e, Junk}, Extends(x)
      PROVE  file' \in Seq(Entries \cup {Junk}) /\ closed' \in BOOLEAN /\ file' # <<>>
  BY <1>1, ExtendedFile DEF Extends
<1>2. CASE Joins
  BY <1>2, JoinedFile DEF Joins, TornLast
<1>3. CASE Misses
  BY <1>3 DEF Misses, disk, TornLast, TypeOK
<1> QED
  BY <1>1, <1>2, <1>3 DEF TornLast

(* Where h of the recorded entries are handled, Handled is h.              *)
LEMMA HandledIs ==
  ASSUME NEW S, queue' \in Seq(S), recorded' \in Nat, NEW h \in Nat,
         HoldsRest(queue', h, recorded')
  PROVE  Handled' = h /\ QueueInOrder' /\ h <= recorded'
<1>1. h = recorded' - Cardinality(Range(queue') \ {Stop}) /\ h <= recorded'
  BY RestCounts
<1>2. Handled' = h
  BY <1>1 DEF Handled
<1> QED
  BY <1>1, <1>2 DEF QueueInOrder

(* The parts of the invariant that are about the file only.                *)
LEMMA DiskKept ==
  ASSUME IInv, UNCHANGED <<disk, faults>>, Handled' = Handled
  PROVE  /\ file' = file /\ closed' = closed /\ faults' = faults
         /\ TornLast' /\ AtStake' = AtStake /\ AtStake \in {0, 1, 2} /\ AtStake <= 2 * faults
         /\ Damaged' = Damaged
         /\ Ascending(file', Handled') /\ Cardinality(Damaged') <= faults'
         /\ faults' = 0 => closed' /\ Latest(file', Handled')
<1>1. file' = file /\ closed' = closed /\ faults' = faults
  BY DEF disk
<1>2. AtStake \in {0, 1, 2}
  BY DEF AtStake
<1>3. AtStake <= 2 * faults
  BY <1>2, LostFinite, Types DEF IInv, LossesExplained
<1> QED
  BY <1>1, <1>2, <1>3
     DEF IInv, TornLast, AtStake, Damaged, HandledInOrder, DamageExplained, FaultlessLatest

(* Steps that touch neither the ring nor the disk.                         *)
LEMMA QuietStep ==
  ASSUME IInv, UNCHANGED <<ring, max, counted, disk, faults>>,
         Handled' = Handled, QueueInOrder', TypeOK', writer # "down", writer' # "down",
         writer' = "ended" => queue' = <<>>
  PROVE  IInv'
<1>1. /\ file' = file /\ closed' = closed /\ faults' = faults /\ ring' = ring
      /\ counted' = counted
      /\ TornLast' /\ AtStake' = AtStake
      /\ Ascending(file', Handled') /\ Cardinality(Damaged') <= faults'
      /\ faults' = 0 => closed' /\ Latest(file', Handled')
  BY DiskKept
<1>2. HandledInOrder'
  BY <1>1 DEF IInv, HandledInOrder
<1>3. LossesExplained'
  BY <1>1 DEF IInv, LossesExplained, Lost
<1>4. DamageExplained'
  BY <1>1 DEF IInv, DamageExplained
<1>5. FaultlessLatest'
  BY <1>1 DEF IInv, FaultlessLatest
<1> QED
  BY <1>1, <1>2, <1>3, <1>4, <1>5 DEF IInv, EndsEmpty

LEMMA QueueTypes ==
  ASSUME IInv
  PROVE  /\ queue \in Seq(Entries \cup {Stop}) /\ Handled \in Nat /\ recorded \in Nat
         /\ HoldsRest(queue, Handled, recorded) /\ Handled <= recorded
         /\ recorded \in 0 .. MaxRecords /\ MaxRecords \in Nat
<1>1. /\ queue \in Seq(Entries \cup {Stop}) /\ Handled \in Nat /\ recorded \in Nat
      /\ HoldsRest(queue, Handled, recorded)
      /\ recorded \in 0 .. MaxRecords /\ MaxRecords \in Nat
  BY Types DEF IInv, TypeOK, QueueInOrder
<1> QED
  BY <1>1, RestCounts

LEMMA RecordStep == IInv /\ Record => IInv'
<1> SUFFICES ASSUME IInv, Record PROVE IInv'
  OBVIOUS
<1>1. /\ writer = "waiting" /\ writer' = writer /\ recorded < MaxRecords
      /\ recorded' = recorded + 1 /\ queue' = Append(queue, recorded + 1)
      /\ UNCHANGED <<ring, max, counted, disk, faults>>
  BY DEF Record
<1>2. recorded + 1 \in Entries /\ recorded' \in 0 .. MaxRecords /\ recorded' \in Nat
  BY <1>1, QueueTypes DEF Entries
<1>3. queue' \in Seq(Entries \cup {Stop})
  BY <1>1, <1>2, QueueTypes, AppendProperties
<1>4. HoldsRest(queue', Handled, recorded')
  BY <1>1, <1>2, QueueTypes, RestAppend
<1>5. Handled' = Handled /\ QueueInOrder'
  BY <1>2, <1>3, <1>4, QueueTypes, HandledIs
<1>6. TypeOK'
  BY <1>1, <1>2, <1>3 DEF IInv, TypeOK, disk
<1> QED
  BY <1>1, <1>5, <1>6, QuietStep

LEMMA StopWriterStep == IInv /\ StopWriter => IInv'
<1> SUFFICES ASSUME IInv, StopWriter PROVE IInv'
  OBVIOUS
<1>1. /\ writer = "waiting" /\ writer' = writer /\ Stop \notin Range(queue)
      /\ recorded' = recorded /\ queue' = Append(queue, Stop)
      /\ UNCHANGED <<ring, max, counted, disk, faults>>
  BY DEF StopWriter
<1>2. queue' \in Seq(Entries \cup {Stop})
  BY <1>1, QueueTypes, AppendProperties
<1>3. HoldsRest(queue', Handled, recorded')
  BY <1>1, QueueTypes, RestStop
<1>4. Handled' = Handled /\ QueueInOrder'
  BY <1>1, <1>2, <1>3, QueueTypes, HandledIs
<1>5. TypeOK'
  BY <1>1, <1>2 DEF IInv, TypeOK, disk
<1> QED
  BY <1>1, <1>4, <1>5, QuietStep

LEMMA TakeStopStep == IInv /\ (TakeStop \/ DrainStop) => IInv'
<1> SUFFICES ASSUME IInv, TakeStop \/ DrainStop PROVE IInv'
  OBVIOUS
<1>1. /\ writer \in {"waiting", "draining"} /\ writer' = "draining"
      /\ queue # <<>> /\ Head(queue) = Stop
      /\ recorded' = recorded /\ queue' = Tail(queue)
      /\ UNCHANGED <<ring, max, counted, disk, faults>>
  BY DEF TakeStop, DrainStop
<1>2. queue' \in Seq(Entries \cup {Stop})
  BY <1>1, QueueTypes, HeadTailProperties
<1>3. HoldsRest(queue', Handled, recorded')
  BY <1>1, QueueTypes, RestTail
<1>4. Handled' = Handled /\ QueueInOrder'
  BY <1>1, <1>2, <1>3, QueueTypes, HandledIs
<1>5. TypeOK'
  BY <1>1, <1>2 DEF IInv, TypeOK, disk
<1> QED
  BY <1>1, <1>4, <1>5, QuietStep

LEMMA PointStep == IInv /\ (Cancel \/ DrainEnd) => IInv'
<1> SUFFICES ASSUME IInv, Cancel \/ DrainEnd PROVE IInv'
  OBVIOUS
<1>1. /\ writer \in {"waiting", "draining"} /\ writer' \in {"draining", "ended"}
      /\ UNCHANGED <<queue, ring, max, counted, disk, recorded, faults>>
      /\ writer' = "ended" => queue' = <<>>
  BY DEF Cancel, DrainEnd, volatile
<1>2. Handled' = Handled /\ QueueInOrder'
  BY <1>1 DEF IInv, Handled, QueueInOrder
<1>3. TypeOK'
  BY <1>1 DEF IInv, TypeOK, disk
<1> QED
  BY <1>1, <1>2, <1>3, QuietStep

LEMMA SetMaxStep == IInv /\ (\E n \in Caps : SetMaxEntries(n)) => IInv'
<1> SUFFICES ASSUME IInv, NEW n \in Caps, SetMaxEntries(n) PROVE IInv'
  OBVIOUS
<1>1. /\ writer \in {"waiting", "ended"} /\ writer' = writer /\ n \in Nat /\ n >= 10
      /\ max' = n /\ ring' = Newest(ring, n)
      /\ UNCHANGED <<queue, counted, disk, recorded, faults>>
  BY CapsAssumption DEF SetMaxEntries
<1>2. Handled' = Handled /\ QueueInOrder'
  BY <1>1 DEF IInv, Handled, QueueInOrder
<1>3. /\ file' = file /\ closed' = closed /\ faults' = faults /\ counted' = counted
      /\ TornLast' /\ AtStake' = AtStake /\ AtStake \in {0, 1, 2}
      /\ Ascending(file', Handled') /\ Cardinality(Damaged') <= faults'
      /\ faults' = 0 => closed' /\ Latest(file', Handled')
  BY <1>1, <1>2, DiskKept
<1>4. TypeOK'
  <2>1. ring' \in Seq(Entries) /\ Len(ring') <= n
    BY <1>1, NewestIsEnd, Types DEF IInv, TypeOK
  <2> QED
    BY <1>1, <1>3, <2>1 DEF IInv, TypeOK
<1>5. HandledInOrder'
  BY <1>1, <1>2, <1>3, QueueTypes, Types, AscendingNewest DEF IInv, HandledInOrder
<1>6. LossesExplained'
  <2>1. Lost' \subseteq Lost
    BY <1>1, <1>3, NewestRange, Types DEF IInv, Lost
  <2>2. /\ Cardinality(Lost') \in Nat /\ Cardinality(Lost') <= Cardinality(Lost)
        /\ Cardinality(Lost) \in Nat /\ faults \in Nat
        /\ Cardinality(Lost) + AtStake <= 2 * faults
    BY <2>1, LostFinite, NoMore, Types DEF IInv, LossesExplained
  <2>3. Cardinality(Lost') + AtStake <= 2 * faults
    BY <1>3, <2>2
  <2> QED
    BY <1>3, <2>3 DEF LossesExplained
<1>7. DamageExplained'
  BY <1>1, <1>3 DEF IInv, DamageExplained
<1>8. FaultlessLatest'
  BY <1>1, <1>2, <1>3, QueueTypes, Types, LatestNewest DEF IInv, FaultlessLatest
<1>9. EndsEmpty'
  BY <1>1 DEF IInv, EndsEmpty
<1> QED
  BY <1>2, <1>3, <1>4, <1>5, <1>6, <1>7, <1>8, <1>9 DEF IInv

LEMMA ForgetStep == IInv /\ (Exit \/ Crash) => IInv'
<1> SUFFICES ASSUME IInv, Exit \/ Crash PROVE IInv'
  OBVIOUS
<1>1. /\ writer' = "down" /\ queue' = <<>> /\ ring' = <<>> /\ counted' = 0 /\ max' = max
      /\ UNCHANGED <<disk, faults>>
  BY DEF Exit, Crash, Forget
<1>2. recorded' = Handled
  <2>1. CASE Exit
    <3>1. queue = <<>> /\ recorded' = recorded
      BY <2>1 DEF Exit, IInv, EndsEmpty
    <3> QED
      BY <3>1, QueueTypes DEF HoldsRest
  <2> QED
    BY <2>1 DEF Crash
<1>3. <<>> \in Seq(Entries \cup {Stop}) /\ <<>> \in Seq(Entries) /\ Len(<<>>) = 0
      /\ DOMAIN <<>> = {} /\ Range(<<>>) = {}
  BY DEF Range
<1>4. Handled' = Handled /\ QueueInOrder'
  <2>1. HoldsRest(queue', Handled, recorded')
    BY <1>1, <1>2, QueueTypes, RestEmpty
  <2> QED
    BY <1>1, <1>2, <1>3, <2>1, QueueTypes, HandledIs
<1>5. /\ file' = file /\ closed' = closed /\ faults' = faults
      /\ TornLast' /\ AtStake' = AtStake /\ AtStake \in {0, 1, 2} /\ AtStake <= 2 * faults
      /\ Ascending(file', Handled') /\ Cardinality(Damaged') <= faults'
      /\ faults' = 0 => closed' /\ Latest(file', Handled')
  BY <1>1, <1>4, DiskKept
<1>6. TypeOK'
  <2>1. recorded' \in 0 .. MaxRecords
    BY <1>2, QueueTypes
  <2>2. max \in Caps /\ Len(ring') <= max
    BY <1>1, <1>3, Types DEF IInv, TypeOK
  <2> QED
    BY <1>1, <1>3, <1>5, <2>1, <2>2 DEF IInv, TypeOK
<1>7. HandledInOrder'
  BY <1>1, <1>3, <1>5 DEF HandledInOrder, Ascending
<1>8. LossesExplained'
  <2>1. Lost' = {}
    BY <1>1, <1>3 DEF Lost
  <2>2. Cardinality(Lost') = 0
    BY <2>1, FS_EmptySet
  <2> QED
    BY <1>5, <2>2 DEF LossesExplained
<1>9. DamageExplained' /\ FaultlessLatest' /\ EndsEmpty'
  BY <1>1, <1>5 DEF DamageExplained, FaultlessLatest, EndsEmpty
<1> QED
  BY <1>4, <1>5, <1>6, <1>7, <1>8, <1>9 DEF IInv

(* What load() takes from the file explains it as far as it is damaged.    *)
LEMMA BootStep == IInv /\ Boot => IInv'
<1> SUFFICES ASSUME IInv, Boot PROVE IInv'
  OBVIOUS
<1> DEFINE read == Readable(file)
<1>1. /\ writer = "down" /\ writer' = "waiting" /\ max' \in Caps /\ recorded < MaxRecords
      /\ counted' = Len(read) /\ ring' = Newest(read, max')
      /\ recorded' = recorded + 1 /\ queue' = <<recorded + 1>>
      /\ UNCHANGED <<disk, faults>>
  BY DEF Boot
<1>2. max' \in Nat /\ max' >= 10
  BY <1>1, CapsAssumption
<1>3. /\ recorded + 1 \in Entries /\ recorded' \in 0 .. MaxRecords /\ recorded' \in Nat
      /\ Handled \in Nat
  BY <1>1, QueueTypes DEF Entries
<1>4. Handled = recorded /\ queue' = Append(<<>>, recorded + 1) /\ HoldsRest(<<>>, recorded, recorded)
  <2>1. queue = <<>>
    BY <1>1 DEF IInv, EndsEmpty
  <2>2. Handled = recorded
    BY <2>1, QueueTypes DEF HoldsRest
  <2> QED
    BY <1>1, <2>2, QueueTypes, RestEmpty
<1>5. queue' \in Seq(Entries \cup {Stop}) /\ <<>> \in Seq(Entries \cup {Stop})
  BY <1>1, <1>3
<1>6. Handled' = Handled /\ QueueInOrder'
  <2>1. HoldsRest(queue', recorded, recorded')
    BY <1>1, <1>3, <1>4, <1>5, QueueTypes, RestAppend
  <2> QED
    BY <1>3, <1>4, <1>5, <2>1, QueueTypes, HandledIs
<1>7. /\ file' = file /\ closed' = closed /\ faults' = faults
      /\ TornLast' /\ AtStake' = AtStake /\ AtStake \in {0, 1, 2} /\ AtStake <= 2 * faults
      /\ Damaged' = Damaged
      /\ Ascending(file', Handled') /\ Cardinality(Damaged') <= faults'
      /\ faults' = 0 => closed' /\ Latest(file', Handled')
  BY <1>1, <1>6, DiskKept
<1>8. /\ file \in Seq(Entries \cup {Junk}) /\ file \in Seq(Nat) /\ faults \in Nat
      /\ Entries \subseteq Nat \ {0}
  BY Types DEF IInv, TypeOK
<1>9. read \in Seq(Entries) /\ read \in Seq(Nat) /\ Len(read) \in Nat
  <2>1. read \in Seq((Entries \cup {Junk}) \ {Junk})
    BY <1>8, ReadableLines
  <2>2. (Entries \cup {Junk}) \ {Junk} \subseteq Entries /\ Entries \subseteq Nat
    BY <1>8
  <2>3. read \in Seq(Entries)
    BY <2>1, <2>2, SeqMonotonic
  <2> HIDE DEF read
  <2> QED
    BY <2>2, <2>3, SeqMonotonic, LenProperties
<1>10. TypeOK'
  <2>1. ring' \in Seq(Entries) /\ Len(ring') <= max'
    BY <1>1, <1>2, <1>9, NewestIsEnd
  <2> QED
    BY <1>1, <1>3, <1>5, <1>7, <1>9, <2>1 DEF IInv, TypeOK
<1>11. HandledInOrder'
  <2>1. Ascending(read, Handled)
    BY <1>3, <1>6, <1>7, <1>8, AscendingReadable
  <2> HIDE DEF read
  <2>2. Ascending(ring', Handled)
    BY <1>1, <1>2, <1>3, <1>9, <2>1, AscendingNewest
  <2> QED
    BY <1>6, <1>7, <2>2 DEF HandledInOrder
<1>12. LossesExplained'
  <2>1. Range(ring') \subseteq Range(read) /\ Range(read) \subseteq Range(file)
    BY <1>1, <1>2, <1>8, <1>9, NewestRange, ReadableRange
  <2>2. Lost' = {}
    BY <1>7, <2>1 DEF Lost
  <2>3. Cardinality(Lost') = 0
    BY <2>2, FS_EmptySet
  <2> QED
    BY <1>7, <2>3 DEF LossesExplained
<1>13. DamageExplained'
  <2>1. IsFiniteSet(Damaged) /\ Cardinality(Damaged) \in Nat
    BY DamagedFinite DEF IInv
  <2>2. \A i \in DOMAIN file : file[i] = Junk => i \in Damaged
    BY DEF Damaged
  <2>3. Len(file) <= Len(read) + Cardinality(Damaged)
    BY <1>8, <2>1, <2>2, KeptCounts
  <2>4. Cardinality(Damaged) <= faults /\ Len(file) \in Nat
    BY <1>7, Types DEF IInv
  <2> HIDE DEF read
  <2>5. Len(file) <= Len(read) + faults
    BY <1>8, <1>9, <2>1, <2>3, <2>4
  <2> QED
    BY <1>1, <1>7, <2>5 DEF DamageExplained
<1>14. FaultlessLatest'
  <2>1. ASSUME faults = 0
        PROVE  Latest(ring', Handled)
    <3>1. Latest(file, Handled)
      BY <2>1 DEF IInv, FaultlessLatest
    <3>2. read = file
      BY <1>3, <1>8, <3>1, LatestReadable
    <3> HIDE DEF read
    <3> QED
      BY <1>1, <1>2, <1>3, <1>8, <3>1, <3>2, LatestNewest
  <2> QED
    BY <1>6, <1>7, <2>1 DEF FaultlessLatest
<1> QED
  BY <1>1, <1>6, <1>7, <1>10, <1>11, <1>12, <1>13, <1>14 DEF IInv, EndsEmpty

(* A compaction replaces the file by what the ring knows; one that fails   *)
(* leaves it.                                                              *)
LEMMA CompactStep == IInv /\ Compact => IInv'
<1> SUFFICES ASSUME IInv, Compact PROVE IInv'
  OBVIOUS
<1>1. /\ writer = "compacting" /\ writer' = "waiting"
      /\ UNCHANGED <<queue, ring, max, recorded>>
  BY DEF Compact
<1>2. Handled' = Handled /\ QueueInOrder' /\ EndsEmpty'
  BY <1>1 DEF IInv, Handled, QueueInOrder, EndsEmpty
<1>3. /\ ring \in Seq(Entries) /\ ring \in Seq(Nat) /\ Len(ring) \in Nat
      /\ DOMAIN ring = 1 .. Len(ring) /\ \A i \in DOMAIN ring : ring[i] # Junk
      /\ faults \in Nat /\ counted \in Nat /\ Len(file) \in Nat
  BY Types DEF IInv, TypeOK, Junk
<1>4. CASE CompactWorks
  <2>1. file' = ring /\ closed' = TRUE /\ counted' = Len(ring) /\ faults' = faults
    BY <1>4 DEF CompactWorks
  <2>2. TypeOK'
    <3>1. ring \in Seq(Entries \cup {Junk})
      BY <1>3, SeqMonotonic
    <3> QED
      BY <1>1, <1>3, <2>1, <3>1 DEF IInv, TypeOK
  <2>3. TornLast' /\ HandledInOrder' /\ FaultlessLatest'
    BY <1>1, <1>2, <2>1 DEF IInv, TornLast, HandledInOrder, FaultlessLatest
  <2>4. LossesExplained'
    <3>1. Lost' = {} /\ AtStake' = 0
      BY <1>1, <2>1 DEF Lost, AtStake
    <3>2. Cardinality(Lost') = 0
      BY <3>1, FS_EmptySet
    <3> QED
      BY <1>3, <2>1, <3>1, <3>2 DEF LossesExplained
  <2>5. DamageExplained'
    <3>1. Damaged' = {}
      BY <1>3, <2>1 DEF Damaged
    <3>2. Cardinality(Damaged') = 0
      BY <3>1, FS_EmptySet
    <3> QED
      BY <1>3, <2>1, <3>2 DEF DamageExplained
  <2> QED
    BY <1>2, <2>2, <2>3, <2>4, <2>5 DEF IInv
<1>5. CASE CompactFails
  <2>1. /\ file' = file /\ closed' = closed /\ counted' = counted
        /\ faults < MaxFaults /\ faults' = faults + 1
    BY <1>5 DEF CompactFails, disk
  <2>2. TypeOK'
    <3>1. faults' \in 0 .. MaxFaults
      BY <2>1, Types DEF IInv
    <3> QED
      BY <1>1, <2>1, <3>1 DEF IInv, TypeOK
  <2>3. TornLast' /\ HandledInOrder'
    BY <1>1, <1>2, <2>1 DEF IInv, TornLast, HandledInOrder
  <2>4. LossesExplained'
    <3>1. Lost' = Lost /\ AtStake' = AtStake /\ AtStake \in {0, 1, 2}
      BY <1>1, <2>1 DEF Lost, AtStake
    <3>2. Cardinality(Lost) \in Nat /\ Cardinality(Lost) + AtStake <= 2 * faults
      BY LostFinite DEF IInv, LossesExplained
    <3>3. Cardinality(Lost) + AtStake <= 2 * (faults + 1)
      BY <1>3, <3>1, <3>2
    <3> QED
      BY <2>1, <3>1, <3>3 DEF LossesExplained
  <2>5. DamageExplained'
    <3>1. Damaged' = Damaged
      BY <2>1 DEF Damaged
    <3>2. /\ Cardinality(Damaged) \in Nat /\ Cardinality(Damaged) <= faults
          /\ Len(file) <= counted + faults
      BY <1>1, DamagedFinite DEF IInv, DamageExplained
    <3>3. Cardinality(Damaged) <= faults + 1 /\ Len(file) <= counted + (faults + 1)
      BY <1>3, <3>2
    <3> QED
      BY <2>1, <3>1, <3>3 DEF DamageExplained
  <2>6. FaultlessLatest'
    BY <1>3, <2>1 DEF FaultlessLatest
  <2> QED
    BY <1>2, <2>2, <2>3, <2>4, <2>5, <2>6 DEF IInv
<1> QED
  BY <1>4, <1>5 DEF Compact

(* A loop of the writer handles the next entry.                            *)
LEMMA TakeStep ==
  ASSUME IInv, queue # <<>>, TakeEntry,
         writer \in {"waiting", "draining"}, writer' \in {"waiting", "compacting", "draining"}
  PROVE  IInv'
<1> DEFINE e == Head(queue)
           h == Handled
<1>1. /\ e # Stop /\ queue' = Tail(queue) /\ ring' = Newest(Append(ring, e), max)
      /\ AppendWorks(e) \/ AppendFails(e)
      /\ max' = max /\ recorded' = recorded
  BY DEF TakeEntry
<1>2. /\ queue' \in Seq(Entries \cup {Stop}) /\ e \in Entries
  BY <1>1, QueueTypes, HeadTailProperties
<1>3. h \in Nat /\ h + 1 \in Nat /\ e = h + 1 /\ HoldsRest(queue', h + 1, recorded)
  BY <1>1, QueueTypes, RestTail
<1>4. Handled' = h + 1 /\ QueueInOrder'
  <2>1. recorded' \in Nat /\ HoldsRest(queue', h + 1, recorded')
    BY <1>1, <1>3, QueueTypes
  <2> QED
    BY <1>2, <1>3, <2>1, HandledIs
<1>5. /\ ring \in Seq(Entries) /\ ring \in Seq(Nat) /\ max \in Nat /\ max >= 10
      /\ e \in Nat \ {0} /\ Entries \subseteq Nat \ {0} /\ faults \in Nat
      /\ max \in Caps /\ recorded \in 0 .. MaxRecords
  BY <1>2, Types DEF IInv, TypeOK
<1> HIDE DEF e, h
<1>6. /\ Extends(e) \/ Extends(Junk) \/ Joins \/ Misses
      /\ faults' \in 0 .. MaxFaults /\ faults' >= faults /\ counted' \in Nat
  BY <1>1, <1>2, AppendCases DEF IInv
<1> DEFINE both == Append(ring, e)
<1>7. both \in Seq(Entries) /\ both \in Seq(Nat) /\ Range(both) = Range(ring) \cup {e}
  <2>1. both \in Seq(Entries) /\ both \in Seq(Nat)
    BY <1>2, <1>5, AppendProperties
  <2>2. /\ Len(both) = Len(ring) + 1 /\ both[Len(ring) + 1] = e /\ Len(ring) \in Nat
        /\ \A i \in 1 .. Len(ring) : both[i] = ring[i]
        /\ DOMAIN ring = 1 .. Len(ring)
    BY <1>2, <1>5, AppendProperties, LenProperties
  <2>3. DOMAIN both = 1 .. Len(ring) + 1
    <3> HIDE DEF both
    <3> QED
      BY <2>1, <2>2, LenProperties
  <2>4. Range(both) = Range(ring) \cup {e}
    <3> HIDE DEF both
    <3>1. 1 .. Len(ring) + 1 = 1 .. Len(ring) \cup {Len(ring) + 1}
      BY <2>2
    <3> QED
      BY <2>2, <2>3, <3>1 DEF Range
  <2> QED
    BY <2>1, <2>4
<1>8. Ascending(both, h + 1)
  BY <1>3, <1>5, AscendingAppend DEF IInv, HandledInOrder, h
<1>9. ASSUME faults = 0
      PROVE  Latest(both, h + 1)
  <2>1. Latest(ring, h)
    BY <1>9 DEF IInv, FaultlessLatest, h
  <2> QED
    BY <1>3, <1>5, <2>1, LatestAppend
<1>10. ring' = Newest(both, max)
  BY <1>1
<1> HIDE DEF both
<1>11. /\ ring' \in Seq(Entries) /\ Len(ring') <= max
       /\ Range(ring') \subseteq Range(ring) \cup {e}
  <2>1. Range(ring') \subseteq Range(both)
    BY <1>5, <1>7, <1>10, NewestRange
  <2>2. ring' \in Seq(Entries) /\ Len(ring') <= max
    BY <1>5, <1>7, <1>10, NewestIsEnd
  <2> QED
    BY <1>7, <2>1, <2>2
<1>12. TypeOK' /\ TornLast'
  <2>1. /\ file' \in Seq(Entries \cup {Junk}) /\ closed' \in BOOLEAN
        /\ TornLast'
    BY <1>2, <1>6, AppendFile DEF IInv
  <2> QED
    BY <1>1, <1>2, <1>5, <1>6, <1>11, <2>1 DEF TypeOK
<1>13. HandledInOrder'
  <2>1. Ascending(file', h + 1)
    BY <1>2, <1>3, <1>6, AppendOrder DEF IInv, HandledInOrder, h
  <2>2. Ascending(ring', h + 1)
    BY <1>3, <1>5, <1>7, <1>8, <1>10, AscendingNewest
  <2> QED
    BY <1>4, <2>1, <2>2 DEF HandledInOrder
<1>14. LossesExplained'
  <2>1. Junk \notin Range(ring')
    <3>1. Range(ring') \subseteq Entries
      BY <1>11, RangeOfSeq
    <3> QED
      BY <1>5, <3>1 DEF Junk
  <2> QED
    BY <1>2, <1>6, <1>11, <2>1, AppendLoss DEF IInv
<1>15. DamageExplained'
  <2>1. Len(file) <= counted + faults
    BY DEF IInv, DamageExplained
  <2> QED
    BY <1>2, <1>6, <2>1, AppendDamage DEF IInv, DamageExplained
<1>16. FaultlessLatest'
  <2>1. ASSUME faults' = 0
        PROVE  closed' /\ Latest(file', h + 1) /\ Latest(ring', h + 1)
    <3>1. faults = 0
      BY <1>5, <1>6, <2>1
    <3>2. closed /\ Latest(file, h)
      BY <3>1 DEF IInv, FaultlessLatest, h
    <3>3. closed' /\ file' = Append(file, e)
      <4>1. Extends(e) \/ Extends(Junk)
        BY <1>6, <2>1, <3>1, <3>2 DEF Joins, Misses
      <4>2. Charged
        BY <4>1 DEF Extends
      <4>3. closed'
        BY <2>1, <3>1, <4>2 DEF Charged
      <4> QED
        BY <4>1, <4>3 DEF Extends
    <3>4. Latest(file', h + 1)
      BY <1>3, <3>2, <3>3, Types, LatestAppend DEF IInv
    <3>5. Latest(ring', h + 1)
      BY <1>3, <1>5, <1>7, <1>9, <1>10, <3>1, LatestNewest
    <3> QED
      BY <3>3, <3>4, <3>5
  <2> QED
    BY <1>4, <2>1 DEF FaultlessLatest
<1>17. EndsEmpty'
  BY DEF EndsEmpty
<1> QED
  BY <1>4, <1>12, <1>13, <1>14, <1>15, <1>16, <1>17 DEF IInv

-----------------------------------------------------------------------------
LEMMA InitIInv == Init => IInv
<1> SUFFICES ASSUME Init PROVE IInv
  OBVIOUS
<1>1. /\ writer = "down" /\ recorded \in Earlier /\ file = [i \in 1 .. recorded |-> i]
      /\ closed = TRUE /\ queue = <<>> /\ ring = <<>> /\ max \in Caps /\ counted = 0
      /\ faults = 0
  BY DEF Init
<1>2. /\ recorded \in 0 .. MaxRecords /\ recorded \in Nat /\ MaxRecords \in Nat
      /\ MaxFaults \in Nat /\ max \in Nat /\ max >= 10
  BY <1>1, BoundsAssumption, CapsAssumption
<1>3. /\ file \in Seq(Entries \cup {Junk}) /\ Len(file) = recorded
      /\ DOMAIN file = 1 .. recorded /\ \A i \in 1 .. recorded : file[i] = i
  <2>1. \A i \in 1 .. recorded : i \in Entries
    BY <1>2 DEF Entries
  <2> QED
    BY <1>1, <1>2, <2>1
<1>4. /\ queue \in Seq(Entries \cup {Stop}) /\ ring \in Seq(Entries) /\ Len(ring) = 0
      /\ DOMAIN ring = {} /\ Range(ring) = {}
  BY <1>1 DEF Range
<1>5. TypeOK
  BY <1>1, <1>2, <1>3, <1>4 DEF TypeOK
<1>6. Handled = recorded /\ QueueInOrder
  <2>1. HoldsRest(queue, recorded, recorded)
    BY <1>1, <1>2, RestEmpty
  <2>2. recorded = recorded - Cardinality(Range(queue) \ {Stop})
    BY <1>2, <1>4, <2>1, RestCounts
  <2> QED
    BY <1>2, <2>1, <2>2 DEF Handled, QueueInOrder
<1>7. HandledInOrder
  BY <1>2, <1>3, <1>4, <1>6 DEF HandledInOrder, Ascending
<1>8. LossesExplained
  <2>1. Lost = {} /\ AtStake = 0
    BY <1>1, <1>4 DEF Lost, AtStake
  <2> QED
    BY <1>1, <2>1, FS_EmptySet DEF LossesExplained
<1>9. DamageExplained
  <2>1. Damaged = {}
    BY <1>1, <1>3 DEF Damaged, Junk
  <2> QED
    BY <1>1, <2>1, FS_EmptySet DEF DamageExplained
<1>10. FaultlessLatest
  BY <1>1, <1>2, <1>3, <1>6 DEF FaultlessLatest, Latest
<1> QED
  BY <1>1, <1>5, <1>6, <1>7, <1>8, <1>9, <1>10 DEF IInv, TornLast, EndsEmpty

LEMMA IInvStep == IInv /\ [Next]_vars => IInv'
<1> SUFFICES ASSUME IInv, [Next]_vars PROVE IInv'
  OBVIOUS
<1>1. CASE Write \/ DrainEntry
  <2>1. /\ queue # <<>> /\ TakeEntry /\ writer \in {"waiting", "draining"}
        /\ writer' \in {"waiting", "compacting", "draining"}
    BY <1>1 DEF Write, DrainEntry
  <2> QED
    BY <2>1, TakeStep
<1>2. CASE UNCHANGED vars
  BY <1>2 DEF vars, volatile, disk, IInv, TypeOK, TornLast, EndsEmpty, QueueInOrder, Handled,
     HandledInOrder, LossesExplained, Lost, AtStake, DamageExplained, Damaged,
     FaultlessLatest
<1> QED
  BY <1>1, <1>2, RecordStep, StopWriterStep, TakeStopStep, PointStep, SetMaxStep,
     ForgetStep, BootStep, CompactStep DEF Next

LEMMA Invariant == Spec => []IInv
BY InitIInv, IInvStep, PTL DEF Spec

-----------------------------------------------------------------------------
(* HistoryStore keeps its types, and the ring its bound.                   *)
THEOREM TypeCorrect == Spec => []TypeOK
<1>1. IInv => TypeOK
  BY DEF IInv
<1> QED
  BY <1>1, Invariant, PTL

(* load(), _append_line() and _compact(): without failing file operations  *)
(* the file always ends in the newest handled entries, ten at least.       *)
THEOREM KeepsNewestEver == Spec => []KeepsNewest
<1>1. IInv => KeepsNewest
  BY DEF IInv, FaultlessLatest, Latest, KeepsNewest
<1> QED
  BY <1>1, Invariant, PTL

(* _append_line(): each failed file operation costs the file at most two   *)
(* of the entries that the ring shows.                                     *)
THEOREM FewLinesEverLost == Spec => []FewLinesLost
<1>1. ASSUME IInv
      PROVE  FewLinesLost
  <2>1. /\ Cardinality(Lost) \in Nat /\ Cardinality(Lost) + AtStake <= 2 * faults
        /\ faults \in Nat /\ AtStake \in {0, 1, 2}
    BY <1>1, LostFinite, Types DEF IInv, LossesExplained, AtStake
  <2>2. Cardinality(Lost) <= 2 * faults
    BY <2>1
  <2> QED
    BY <2>2 DEF FewLinesLost, Lost
<1> QED
  BY <1>1, Invariant, PTL

(* What load() reads is in the order of the record() calls, whatever       *)
(* failed.                                                                 *)
THEOREM EverInOrder == Spec => []InOrder
<1>1. IInv => InOrder
  BY DEF IInv, HandledInOrder, Ascending, InOrder
<1> QED
  BY <1>1, Invariant, PTL

(* _writer_loop(): behind an entry it wrote it leaves at most              *)
(* max_entries * 1.2 lines, and one more for each failure before.          *)
THEOREM FileStaysBounded == Spec => BoundedFile
<1>1. IInv /\ IInv' /\ [Next]_vars =>
        [(Write \/ Compact) /\ writer' = "waiting" /\ faults' = faults
           => Len(file') <= Overshoot(max) + faults]_vars
  <2> SUFFICES ASSUME IInv, IInv', writer' = "waiting", faults' = faults, Write \/ Compact
               PROVE  Len(file') <= Overshoot(max) + faults
    OBVIOUS
  <2>1. /\ max \in Nat /\ max >= 10 /\ faults \in Nat /\ Len(ring) \in Nat /\ Len(ring) <= max
    BY Types DEF IInv, TypeOK
  <2>2. CASE Write
    <3>1. counted' <= Overshoot(max) /\ max' = max
      <4>1. counted' \in Nat /\ Overshoot(max) \in Nat
        BY <2>1 DEF IInv, TypeOK, Overshoot
      <4>2. ~(counted' > Overshoot(max))
        BY <2>2 DEF Write, TakeEntry
      <4> QED
        BY <2>2, <4>1, <4>2 DEF Write, TakeEntry
    <3>2. Len(file') <= counted' + faults
      BY DEF IInv, DamageExplained
    <3>3. counted' \in Nat /\ Overshoot(max) \in Nat /\ Len(file') \in Nat
      BY <2>1, LenProperties DEF IInv, TypeOK, Overshoot
    <3> QED
      BY <2>1, <3>1, <3>2, <3>3
  <2>3. CASE Compact
    <3>1. file' = ring
      BY <2>1, <2>3 DEF Compact, CompactWorks, CompactFails
    <3>2. max <= Overshoot(max) /\ Overshoot(max) \in Nat
      BY <2>1 DEF Overshoot
    <3> QED
      BY <2>1, <3>1, <3>2
  <2> QED
    BY <2>2, <2>3
<1> QED
  BY <1>1, Invariant, PTL DEF Spec, BoundedFile
=============================================================================
