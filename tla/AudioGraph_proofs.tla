--------------------------- MODULE AudioGraph_proofs ---------------------------
(***************************************************************************)
(* The dispatch queue and what Run comes to know of the audio graph        *)
(* through it, for any streams and devices, any depth of the channels and  *)
(* the queue, and any number of changes, losses and invocations.           *)
(***************************************************************************)
EXTENDS AudioGraph, SequenceTheorems, WellFoundedInduction, TLAPS

-----------------------------------------------------------------------------
(* Folds, of which the queue's algorithm and its promise are made.         *)

LEMMA LeastNumber ==
    ASSUME NEW S \in SUBSET Nat, S # {}
    PROVE  \E m \in S : \A n \in S : m <= n
  <1> DEFINE R == OpToRel(<, Nat)
  <1>1. IsWellFoundedOn(R, Nat)
    BY NatLessThanWellFounded
  <1>2. PICK m \in S : \A n \in S : <<n, m>> \notin R
    <2> HIDE DEF R
    <2> QED BY <1>1, WFMin
  <1>3. \A n \in S : ~ (n < m)
    BY <1>2 DEF OpToRel
  <1> QED BY <1>3

LEMMA UpTo ==
    ASSUME NEW n \in Nat, NEW S, 0 \in S, \A k \in 1..n : k - 1 \in S => k \in S
    PROVE  0..n \subseteq S
  <1> SUFFICES ASSUME (0..n) \ S # {} PROVE FALSE
    OBVIOUS
  <1> DEFINE T == (0..n) \ S
  <1>0. T \in SUBSET Nat /\ T # {}
    OBVIOUS
  <1>1. PICK m \in T : \A k \in T : m <= k
    <2> HIDE DEF T
    <2> QED BY <1>0, LeastNumber
  <1>2. m \in 1..n /\ m - 1 \in 0..n /\ ~ (m <= m - 1)
    BY <1>1
  <1> QED BY <1>1, <1>2

LEMMA GreatestNumber ==
    ASSUME NEW n \in Nat, NEW t \in SUBSET (1..n), t # {}
    PROVE  Max(t) \in t /\ \A x \in t : x <= Max(t)
  <1> DEFINE T == {n - x : x \in t}
  <1>0. T \in SUBSET Nat /\ T # {}
    OBVIOUS
  <1>1. PICK d \in T : \A c \in T : d <= c
    <2> HIDE DEF T
    <2> QED BY <1>0, LeastNumber
  <1>2. PICK m \in t : d = n - m
    BY <1>1
  <1>3. \A x \in t : m >= x
    BY <1>1, <1>2
  <1> QED BY <1>3 DEF Max

(* The function a fold of s is defined with, on the sets of its indices. *)
FoldsWith(f, n, base, F, s) ==
    \A t \in SUBSET (1..n) :
        f[t] = IF t = {} THEN base ELSE F[<<f[t \ {Max(t)}], s[Max(t)]>>]

LEMMA FoldExists ==
    ASSUME NEW V, NEW X, NEW base \in X, NEW F \in [X \X V -> X], NEW s \in Seq(V)
    PROVE  \E f \in [SUBSET (1..Len(s)) -> X] : FoldsWith(f, Len(s), base, F, s)
  <1> DEFINE n == Len(s)
             S == {k \in Nat : \E f \in [SUBSET (1..k) -> X] : FoldsWith(f, k, base, F, s)}
  <1>1. n \in Nat
    OBVIOUS
  <1>2. 0 \in S
    <2> DEFINE f == [t \in SUBSET (1..0) |-> base]
    <2>1. f \in [SUBSET (1..0) -> X]
      OBVIOUS
    <2>2. \A t \in SUBSET (1..0) : t = {}
      OBVIOUS
    <2>3. FoldsWith(f, 0, base, F, s)
      BY <2>2 DEF FoldsWith
    <2> QED BY <2>1, <2>3
  <1>3. ASSUME NEW k \in 1..n, k - 1 \in S PROVE k \in S
    <2>1. PICK g \in [SUBSET (1..(k-1)) -> X] : FoldsWith(g, k - 1, base, F, s)
      BY <1>3
    <2> DEFINE f == [t \in SUBSET (1..k) |-> IF k \in t THEN F[<<g[t \ {k}], s[k]>>] ELSE g[t]]
    <2>2. \A t \in SUBSET (1..k) : t \ {k} \in SUBSET (1..(k-1))
      OBVIOUS
    <2>3. \A t \in SUBSET (1..k) : k \notin t => t \in SUBSET (1..(k-1))
      OBVIOUS
    <2>4. s[k] \in V
      OBVIOUS
    <2>5. f \in [SUBSET (1..k) -> X]
      BY <2>2, <2>3, <2>4
    <2>6. ASSUME NEW t \in SUBSET (1..k)
          PROVE  f[t] = IF t = {} THEN base ELSE F[<<f[t \ {Max(t)}], s[Max(t)]>>]
      <3>1. CASE k \in t
        <4>1. Max(t) \in t /\ \A x \in t : x <= Max(t)
          BY <3>1, GreatestNumber, k \in Nat
        <4>2. Max(t) \in 1..k /\ k <= Max(t)
          BY <3>1, <4>1
        <4>3. Max(t) = k
          BY <4>2
        <4>4. f[t \ {k}] = g[t \ {k}]
          BY <2>2
        <4> QED BY <3>1, <4>3, <4>4
      <3>2. CASE k \notin t
        <4>1. t \in SUBSET (1..(k-1)) /\ f[t] = g[t]
          BY <2>3, <3>2
        <4>2. t \ {Max(t)} \in SUBSET (1..k) /\ k \notin t \ {Max(t)}
          BY <3>2
        <4>3. f[t \ {Max(t)}] = g[t \ {Max(t)}]
          BY <4>2
        <4>4. g[t] = IF t = {} THEN base ELSE F[<<g[t \ {Max(t)}], s[Max(t)]>>]
          BY <2>1, <4>1 DEF FoldsWith
        <4> QED BY <4>1, <4>3, <4>4
      <3> QED BY <3>1, <3>2
    <2>7. FoldsWith(f, k, base, F, s)
      BY <2>6 DEF FoldsWith
    <2> HIDE DEF f
    <2> QED BY <2>5, <2>7
  <1> HIDE DEF S
  <1>4. \A k \in 1..n : k - 1 \in S => k \in S
    BY <1>3
  <1>5. n \in S
    <2> HIDE DEF n
    <2>1. 0..n \subseteq S
      BY <1>1, <1>2, <1>4, UpTo
    <2> QED BY <1>1, <2>1
  <1> QED BY <1>5 DEF S

(* The fold of the first k items is made from that of the k - 1 before. *)
LEMMA FirstItems ==
    ASSUME NEW n \in Nat, NEW k \in 1..n
    PROVE  /\ 1..k \in SUBSET (1..n) /\ 1..k # {} /\ 1..(k-1) \in SUBSET (1..n)
           /\ Max(1..k) = k /\ (1..k) \ {k} = 1..(k-1)
  <1>1. 1..k \in SUBSET (1..n) /\ 1..k # {} /\ k \in 1..k /\ 1..(k-1) \in SUBSET (1..n)
    OBVIOUS
  <1>2. Max(1..k) \in 1..k /\ \A x \in 1..k : x <= Max(1..k)
    BY <1>1, GreatestNumber
  <1>3. Max(1..k) = k
    BY <1>1, <1>2
  <1>4. (1..k) \ {k} = 1..(k-1)
    OBVIOUS
  <1> QED BY <1>1, <1>3, <1>4

-----------------------------------------------------------------------------
(* The dispatch queue: types *)

Added(done, w) ==
    IF done # <<>> /\ Mergeable(Last(done), w)
    THEN Append(Front(done), Merge(Last(done), w))
    ELSE Append(done, w)

(* Items that stay of their kind when they are merged. *)
MergesWithin(K) == \A v \in K, w \in K : Mergeable(v, w) => Merge(v, w) \in K

LEMMA FrontAndLast ==
    ASSUME NEW K, NEW s \in Seq(K), s # <<>>
    PROVE  Front(s) \in Seq(K) /\ Last(s) \in K /\ s = Append(Front(s), Last(s))
  BY DEF Front, Last

LEMMA AddedType ==
    ASSUME NEW K, MergesWithin(K), NEW done \in Seq(K), NEW w \in K
    PROVE  Added(done, w) \in Seq(K)
  <1>1. CASE done # <<>> /\ Mergeable(Last(done), w)
    <2>1. Front(done) \in Seq(K) /\ Last(done) \in K
      BY <1>1, FrontAndLast
    <2>2. Merge(Last(done), w) \in K
      BY <1>1, <2>1 DEF MergesWithin
    <2> QED BY <1>1, <2>1, <2>2 DEF Added
  <1>2. CASE ~ (done # <<>> /\ Mergeable(Last(done), w))
    BY <1>2 DEF Added
  <1> QED BY <1>1, <1>2

(* coalesce adds its items one after the other. *)
LEMMA Coalesces ==
    ASSUME NEW K, MergesWithin(K), NEW items \in Seq(K)
    PROVE  \E done \in [0..Len(items) -> Seq(K)] :
              /\ done[0] = <<>>
              /\ \A k \in 1..Len(items) : done[k] = Added(done[k-1], items[k])
              /\ Coalesced(items) = done[Len(items)]
  <1> DEFINE n == Len(items)
             F == [p \in Seq(K) \X K |-> Added(p[1], p[2])]
             iter == CHOOSE h : h = [t \in SUBSET DOMAIN items |->
                        IF t = {} THEN <<>> ELSE Added(h[t \ {Max(t)}], items[Max(t)])]
  <1>1. n \in Nat /\ DOMAIN items = 1..n /\ \A k \in 1..n : items[k] \in K
    OBVIOUS
  <1>2. F \in [Seq(K) \X K -> Seq(K)]
    BY AddedType
  <1>3. PICK f \in [SUBSET (1..n) -> Seq(K)] : FoldsWith(f, n, <<>>, F, items)
    <2>1. <<>> \in Seq(K)
      OBVIOUS
    <2> HIDE DEF F
    <2> QED BY <1>2, <2>1, FoldExists
  <1>4. ASSUME NEW t \in SUBSET (1..n), t # {}
        PROVE  f[t] = Added(f[t \ {Max(t)}], items[Max(t)])
    <2>1. Max(t) \in 1..n
      BY <1>1, <1>4, GreatestNumber
    <2>2. f[t \ {Max(t)}] \in Seq(K) /\ items[Max(t)] \in K
      BY <1>1, <2>1
    <2>3. f[t] = F[<<f[t \ {Max(t)}], items[Max(t)]>>]
      BY <1>3, <1>4 DEF FoldsWith
    <2> QED BY <2>2, <2>3
  <1>5. f[{}] = <<>>
    BY <1>3 DEF FoldsWith
  <1>6. f = [t \in SUBSET DOMAIN items |->
                IF t = {} THEN <<>> ELSE Added(f[t \ {Max(t)}], items[Max(t)])]
    BY <1>1, <1>4, <1>5
  <1>7. iter = [t \in SUBSET DOMAIN items |->
                IF t = {} THEN <<>> ELSE Added(iter[t \ {Max(t)}], items[Max(t)])]
    BY <1>6
  <1> DEFINE done == [k \in 0..n |-> iter[1..k]]
  <1>8. Coalesced(items) = iter[DOMAIN items]
    BY DEF Coalesced, FoldLeft, MapThenFoldSet, Added
  <1> HIDE DEF iter
  <1>9. done[0] = <<>>
    <2>1. 1..0 = {} /\ {} \in SUBSET DOMAIN items
      OBVIOUS
    <2> QED BY <1>1, <1>7, <2>1
  <1>10. ASSUME NEW k \in 1..n PROVE done[k] = Added(done[k-1], items[k])
    <2>1. /\ 1..k \in SUBSET (1..n) /\ 1..k # {}
          /\ Max(1..k) = k /\ (1..k) \ {k} = 1..(k-1)
      BY <1>1, FirstItems
    <2>2. iter[1..k] = Added(iter[1..(k-1)], items[k])
      BY <1>1, <1>7, <2>1
    <2> QED BY <2>2
  <1>13. done[n] = iter[DOMAIN items] /\ done = [k \in 0..n |-> done[k]]
    BY <1>1
  <1> HIDE DEF done, n
  <1>11. ASSUME NEW k \in 1..n, done[k-1] \in Seq(K) PROVE done[k] \in Seq(K)
    <2>1. items[k] \in K /\ done[k] = Added(done[k-1], items[k])
      BY <1>1, <1>10
    <2>2. Added(done[k-1], items[k]) \in Seq(K)
      BY <1>11, <2>1, AddedType
    <2> QED BY <2>1, <2>2
  <1>12. \A k \in 0..n : done[k] \in Seq(K)
    <2> DEFINE S == {k \in 0..n : done[k] \in Seq(K)}
    <2>1. 0 \in S
      <3>1. <<>> \in Seq(K) /\ 0 \in 0..n
        BY <1>1
      <3> QED BY <1>9, <3>1
    <2>3. \A k \in 1..n : k - 1 \in S => k \in S
      BY <1>1, <1>11
    <2>2. 0..n \subseteq S
      <3> HIDE DEF S
      <3> QED BY <1>1, <2>1, <2>3, UpTo
    <2> QED BY <2>2
  <1>14. done \in [0..n -> Seq(K)]
    BY <1>12, <1>13
  <1> QED BY <1>8, <1>9, <1>10, <1>13, <1>14 DEF n

LEMMA NoInvocations ==
    /\ Resync.type = "resync" /\ Refresh.type = "refresh"
    /\ \A w \in A!Invocation : w.type \in {"adjust", "follow", "set"}
  BY DEF Resync, Refresh, A!Invocation

LEMMA WorkIs ==
    ASSUME NEW w \in Work
    PROVE  \/ w \in A!Invocation /\ w.type \notin {"resync", "refresh"}
           \/ w \in {Resync, Refresh} /\ w.type \in {"resync", "refresh"}
  BY NoInvocations DEF Work

LEMMA MergedInvocation ==
    ASSUME NEW v \in A!Invocation, NEW w \in A!Invocation
    PROVE  Merge(v, w) \in A!Invocation
  BY DEF A!Invocation, Merge

LEMMA WorkMerges == MergesWithin(Work)
  <1> SUFFICES ASSUME NEW v \in Work, NEW w \in Work, Mergeable(v, w)
               PROVE  Merge(v, w) \in Work
    BY DEF MergesWithin
  <1>1. v \in A!Invocation /\ w \in A!Invocation
    BY WorkIs, NoInvocations DEF Mergeable
  <1> QED BY <1>1, MergedInvocation DEF Work

LEMMA CoalescedType ==
    ASSUME NEW K, MergesWithin(K), NEW items \in Seq(K)
    PROVE  Coalesced(items) \in Seq(K)
  <1>1. Len(items) \in 0..Len(items)
    OBVIOUS
  <1> QED BY <1>1, Coalesces

LEMMA EffectType ==
    ASSUME NEW pos \in [Ref -> Int], NEW w \in Work, w.type \notin {"resync", "refresh"}
    PROVE  A!Effect(pos, w) \in [Ref -> Int]
  <1>1. w.step \in Int /\ w.amount \in Int
    BY WorkIs DEF A!Invocation
  <1>2. w.step * w.amount \in Int
    BY <1>1
  <1> QED BY <1>1, <1>2 DEF A!Effect

LEMMA QueuedType ==
    ASSUME NEW K, queue \in Seq(K), Len(queue) <= QueueDepth, NEW w \in K
    PROVE  Queued(w) \in Seq(K) /\ Len(Queued(w)) <= QueueDepth
  BY DispatchAssumption DEF Queued

LEMMA DispatcherTyped ==
    ASSUME DispatchTypeOK, Receive \/ Drained \/ Executed
    PROVE  DispatchTypeOK'
  <1>1. CASE Receive
    <2>1. /\ Head(queue) \in Work /\ Tail(queue) \in Seq(Work)
          /\ Len(Tail(queue)) <= Len(queue) /\ Len(queue) \in Nat /\ Len(Tail(queue)) \in Nat
      BY <1>1 DEF Receive, DispatchTypeOK
    <2> QED BY <1>1, <2>1, DispatchAssumption DEF Receive, DispatchTypeOK
  <1>2. CASE Drained
    BY <1>2, CoalescedType, WorkMerges DEF Drained, DispatchTypeOK
  <1>3. CASE Executed
    <2>1. Head(batch) \in Work /\ Tail(batch) \in Seq(Work)
      BY <1>3 DEF Executed, DispatchTypeOK
    <2>2. position' \in [Ref -> Int]
      BY <1>3, <2>1, EffectType DEF Executed, DispatchTypeOK
    <2> QED BY <1>3, <2>1, <2>2 DEF Executed, DispatchTypeOK
  <1> QED BY <1>1, <1>2, <1>3

LEMMA DispatchStarts == DispatchInit => DispatchTypeOK
  BY DispatchAssumption DEF DispatchInit, DispatchTypeOK, Work

(* The queue never holds more than it has room for, and only work.         *)
THEOREM DispatchTyped == DispatchSpec => []DispatchTypeOK
  <1>1. DispatchTypeOK /\ [DispatchNext]_dispatchVars => DispatchTypeOK'
    <2> SUFFICES ASSUME DispatchTypeOK, [DispatchNext]_dispatchVars PROVE DispatchTypeOK'
      OBVIOUS
    <2>1. ASSUME NEW w \in Invocations \cup {Resync, Refresh}, Enqueue(w)
          PROVE  DispatchTypeOK'
      <3>1. w \in Work
        BY DispatchAssumption DEF Work
      <3>2. Queued(w) \in Seq(Work) /\ Len(Queued(w)) <= QueueDepth
        BY <3>1, QueuedType DEF DispatchTypeOK
      <3> QED BY <2>1, <3>2, DispatchAssumption DEF Enqueue, DispatchTypeOK
    <2>2. CASE UNCHANGED dispatchVars
      BY <2>2 DEF dispatchVars, DispatchTypeOK
    <2> QED BY <2>1, <2>2, DispatcherTyped DEF DispatchNext
  <1> QED BY <1>1, DispatchStarts, PTL DEF DispatchSpec

-----------------------------------------------------------------------------
(* The dispatch queue: what becomes of the levels *)

Applied(pos, w) ==
    IF w.type \in {"resync", "refresh"} THEN pos ELSE A!Effect(pos, w)

(* The levels when the items of s have been executed one by one. *)
Levels(pos, s) ==
    FoldLeft(LAMBDA p, w : IF w.type \in {"resync", "refresh"} THEN p ELSE A!Effect(p, w),
             pos, s)

Positions == [Ref -> Int]

(* Levels on the way through s. *)
Way(l, pos, s) ==
    /\ l \in [0..Len(s) -> Positions]
    /\ l[0] = pos
    /\ \A k \in 1..Len(s) : l[k] = Applied(l[k-1], s[k])

LEMMA AppliedType ==
    ASSUME NEW pos \in Positions, NEW w \in Work
    PROVE  Applied(pos, w) \in Positions
  BY EffectType DEF Applied, Positions

LEMMA LevelsWay ==
    ASSUME NEW pos \in Positions, NEW s \in Seq(Work)
    PROVE  \E l : Way(l, pos, s) /\ Levels(pos, s) = l[Len(s)]
  <1> DEFINE n == Len(s)
             F == [p \in Positions \X Work |-> Applied(p[1], p[2])]
             iter == CHOOSE h : h = [t \in SUBSET DOMAIN s |->
                        IF t = {} THEN pos ELSE Applied(h[t \ {Max(t)}], s[Max(t)])]
             l == [k \in 0..n |-> iter[1..k]]
  <1>1. n \in Nat /\ DOMAIN s = 1..n /\ \A k \in 1..n : s[k] \in Work
    OBVIOUS
  <1>2. F \in [Positions \X Work -> Positions]
    BY AppliedType
  <1>3. PICK f \in [SUBSET (1..n) -> Positions] : FoldsWith(f, n, pos, F, s)
    <2> HIDE DEF F
    <2> QED BY <1>2, FoldExists
  <1>4. ASSUME NEW t \in SUBSET (1..n), t # {}
        PROVE  f[t] = Applied(f[t \ {Max(t)}], s[Max(t)])
    <2>1. Max(t) \in 1..n
      BY <1>1, <1>4, GreatestNumber
    <2>2. f[t \ {Max(t)}] \in Positions /\ s[Max(t)] \in Work
      BY <1>1, <2>1
    <2>3. f[t] = F[<<f[t \ {Max(t)}], s[Max(t)]>>]
      BY <1>3, <1>4 DEF FoldsWith
    <2> QED BY <2>2, <2>3
  <1>5. f[{}] = pos
    BY <1>3 DEF FoldsWith
  <1>6. f = [t \in SUBSET DOMAIN s |->
                IF t = {} THEN pos ELSE Applied(f[t \ {Max(t)}], s[Max(t)])]
    BY <1>1, <1>4, <1>5
  <1>7. iter = [t \in SUBSET DOMAIN s |->
                IF t = {} THEN pos ELSE Applied(iter[t \ {Max(t)}], s[Max(t)])]
    BY <1>6
  <1>8. Levels(pos, s) = iter[DOMAIN s]
    BY DEF Levels, FoldLeft, MapThenFoldSet, Applied
  <1> HIDE DEF iter
  <1>9. l[0] = pos
    <2>1. 1..0 = {} /\ {} \in SUBSET DOMAIN s
      OBVIOUS
    <2> QED BY <1>1, <1>7, <2>1
  <1>10. ASSUME NEW k \in 1..n PROVE l[k] = Applied(l[k-1], s[k])
    <2>1. /\ 1..k \in SUBSET (1..n) /\ 1..k # {}
          /\ Max(1..k) = k /\ (1..k) \ {k} = 1..(k-1)
      BY <1>1, FirstItems
    <2>2. iter[1..k] = Applied(iter[1..(k-1)], s[k])
      BY <1>1, <1>7, <2>1
    <2> QED BY <2>2
  <1>11. l[n] = iter[DOMAIN s] /\ l = [k \in 0..n |-> l[k]]
    BY <1>1
  <1> HIDE DEF l, n
  <1>12. \A k \in 0..n : l[k] \in Positions
    <2> DEFINE S == {k \in 0..n : l[k] \in Positions}
    <2>1. 0 \in S
      BY <1>1, <1>9
    <2>2. ASSUME NEW k \in 1..n, k - 1 \in S PROVE k \in S
      <3>1. s[k] \in Work /\ l[k-1] \in Positions /\ l[k] = Applied(l[k-1], s[k])
        BY <1>1, <1>10, <2>2
      <3>2. l[k] \in Positions
        BY <3>1, AppliedType
      <3> QED BY <1>1, <3>2
    <2>3. 0..n \subseteq S
      <3> HIDE DEF S
      <3>1. \A k \in 1..n : k - 1 \in S => k \in S
        BY <2>2
      <3> QED BY <1>1, <2>1, <3>1, UpTo
    <2> QED BY <2>3
  <1>13. l \in [0..n -> Positions]
    BY <1>11, <1>12
  <1> QED BY <1>8, <1>9, <1>10, <1>11, <1>13 DEF n, Way

(* There is one way. *)
LEMMA OneWay ==
    ASSUME NEW pos \in Positions, NEW s \in Seq(Work), NEW l, Way(l, pos, s)
    PROVE  Levels(pos, s) = l[Len(s)] /\ Levels(pos, s) \in Positions
  <1>1. PICK h : Way(h, pos, s) /\ Levels(pos, s) = h[Len(s)]
    BY LevelsWay
  <1> DEFINE S == {k \in 0..Len(s) : h[k] = l[k]}
  <1>2. 0 \in S
    BY <1>1 DEF Way
  <1>3. \A k \in 1..Len(s) : k - 1 \in S => k \in S
    BY <1>1 DEF Way
  <1>4. Len(s) \in Nat /\ Len(s) \in 0..Len(s)
    OBVIOUS
  <1>5. 0..Len(s) \subseteq S
    <2> HIDE DEF S
    <2> QED BY <1>2, <1>3, <1>4, UpTo
  <1> QED BY <1>1, <1>4, <1>5 DEF Way

LEMMA LevelsType ==
    ASSUME NEW pos \in Positions, NEW s \in Seq(Work)
    PROVE  Levels(pos, s) \in Positions
  BY LevelsWay, OneWay

LEMMA LevelsNone == ASSUME NEW pos \in Positions PROVE Levels(pos, <<>>) = pos
  <1>1. <<>> \in Seq(Work) /\ Len(<<>>) = 0
    OBVIOUS
  <1> QED BY <1>1, LevelsWay DEF Way

LEMMA LevelsAppend ==
    ASSUME NEW pos \in Positions, NEW s \in Seq(Work), NEW w \in Work
    PROVE  Levels(pos, Append(s, w)) = Applied(Levels(pos, s), w)
  <1> DEFINE n == Len(s)
             t == Append(s, w)
  <1>1. n \in Nat /\ t \in Seq(Work) /\ Len(t) = n + 1 /\ t[n + 1] = w
    OBVIOUS
  <1>2. \A k \in 1..n : t[k] = s[k]
    OBVIOUS
  <1>3. PICK l : Way(l, pos, t) /\ Levels(pos, t) = l[n + 1]
    <2> HIDE DEF t
    <2> QED BY <1>1, LevelsWay
  <1> DEFINE h == [k \in 0..n |-> l[k]]
  <1>4. Way(h, pos, s)
    <2> HIDE DEF t
    <2>1. \A k \in 0..n : l[k] \in Positions /\ h[k] = l[k]
      BY <1>1, <1>3 DEF Way
    <2>2. h[0] = pos
      BY <1>1, <1>3 DEF Way
    <2>3. ASSUME NEW k \in 1..n PROVE h[k] = Applied(h[k-1], s[k])
      <3>1. k \in 1..(n+1) /\ k - 1 \in 0..n /\ k \in 0..n
        BY <1>1
      <3> QED BY <1>1, <1>2, <1>3, <3>1 DEF Way
    <2> QED BY <2>1, <2>2, <2>3 DEF Way
  <1>5. Levels(pos, s) = l[n]
    <2>1. Levels(pos, s) = h[n] /\ h[n] = l[n]
      <3> HIDE DEF h
      <3>1. Levels(pos, s) = h[n]
        BY <1>4, OneWay
      <3> QED BY <1>1, <3>1 DEF h
    <2> QED BY <2>1
  <1>6. l[n + 1] = Applied(l[n], w)
    <2> HIDE DEF t
    <2>1. n + 1 \in 1..(n + 1) /\ n + 1 - 1 = n
      BY <1>1
    <2> QED BY <1>1, <1>3, <2>1 DEF Way
  <1> QED BY <1>3, <1>5, <1>6

LEMMA LevelsTail ==
    ASSUME NEW pos \in Positions, NEW s \in Seq(Work), s # <<>>
    PROVE  Levels(pos, s) = Levels(Applied(pos, Head(s)), Tail(s))
  <1> DEFINE n == Len(s)
             t == Tail(s)
             first == Applied(pos, Head(s))
  <1>1. n \in Nat \ {0} /\ t \in Seq(Work) /\ Len(t) = n - 1 /\ Head(s) = s[1] /\ s[1] \in Work
    OBVIOUS
  <1>2. \A k \in 1..(n-1) : t[k] = s[k+1]
    OBVIOUS
  <1>3. PICK l : Way(l, pos, s) /\ Levels(pos, s) = l[n]
    BY LevelsWay
  <1> DEFINE h == [k \in 0..(n-1) |-> l[k+1]]
  <1> HIDE DEF t
  <1>4. Way(h, first, t)
    <2>1. \A k \in 0..(n-1) : l[k+1] \in Positions /\ h[k] = l[k+1]
      BY <1>1, <1>3 DEF Way
    <2>2. h[0] = first
      BY <1>1, <1>3 DEF Way
    <2>3. ASSUME NEW k \in 1..(n-1) PROVE h[k] = Applied(h[k-1], t[k])
      <3>1. k + 1 \in 1..n /\ k - 1 \in 0..(n-1) /\ k \in 0..(n-1) /\ (k + 1) - 1 = k /\ (k - 1) + 1 = k
        BY <1>1
      <3>2. l[k+1] = Applied(l[k], s[k+1])
        BY <1>3, <3>1 DEF Way
      <3> QED BY <1>1, <1>2, <3>1, <3>2
    <2> QED BY <1>1, <2>1, <2>2, <2>3 DEF Way
  <1>5. first \in Positions
    BY <1>1, AppliedType
  <1>6. h[n-1] = l[n]
    BY <1>1
  <1>7. Levels(first, t) = h[n-1]
    <2> HIDE DEF h, first
    <2> QED BY <1>1, <1>4, <1>5, OneWay
  <1> QED BY <1>3, <1>6, <1>7 DEF t

-----------------------------------------------------------------------------
(* The dispatch queue: the promise *)

(* What stands in the queue and what it is merged to: but for its amount,  *)
(* an invocation that may be enqueued.                                     *)
Kin ==
    {w \in Work : w \in {Resync, Refresh} \/ \E v \in Invocations :
        v.type = w.type /\ v.control = w.control /\ v.refs = w.refs /\ v.step = w.step}

LEMMA KinMerges ==
    ASSUME StepsAlike
    PROVE  /\ MergesWithin(Kin)
           /\ \A v \in Kin, w \in Kin : Mergeable(v, w) => v.step = w.step
  <1>1. ASSUME NEW v \in Kin, NEW w \in Kin, Mergeable(v, w)
        PROVE  v.step = w.step /\ Merge(v, w) \in Kin
    <2>1. v \in Work /\ w \in Work /\ v.type \in {"adjust", "follow"} /\ w.type = v.type
      BY <1>1 DEF Kin, Mergeable
    <2>2. v \in A!Invocation /\ w \in A!Invocation
      BY <2>1, WorkIs
    <2>3. v \notin {Resync, Refresh} /\ w \notin {Resync, Refresh}
      BY <2>1, NoInvocations
    <2>4. PICK a \in Invocations :
            a.type = v.type /\ a.control = v.control /\ a.refs = v.refs /\ a.step = v.step
      BY <2>3 DEF Kin
    <2>5. PICK b \in Invocations :
            b.type = w.type /\ b.control = w.control /\ b.refs = w.refs /\ b.step = w.step
      BY <2>3 DEF Kin
    <2>6. Mergeable(a, b)
      BY <1>1, <2>4, <2>5 DEF Mergeable
    <2>7. v.step = w.step
      BY <2>4, <2>5, <2>6 DEF StepsAlike
    <2>8. Merge(v, w) \in Work
      BY <2>2, MergedInvocation DEF Work
    <2>9. /\ Merge(v, w).type = v.type /\ Merge(v, w).control = v.control
          /\ Merge(v, w).refs = v.refs /\ Merge(v, w).step = v.step
      BY <2>2 DEF Merge, A!Invocation
    <2> QED BY <2>4, <2>7, <2>8, <2>9 DEF Kin
  <1> QED BY <1>1 DEF MergesWithin

(* Two turns are the turn by their sum, two moves of a fader the second.   *)
LEMMA MergedActs ==
    ASSUME NEW pos \in Positions, NEW v \in Work, NEW w \in Work,
           Mergeable(v, w), v.step = w.step
    PROVE  Applied(Applied(pos, v), w) = Applied(pos, Merge(v, w))
  <1>1. /\ v \in A!Invocation /\ w \in A!Invocation /\ v.type \in {"adjust", "follow"}
        /\ w.type = v.type /\ w.refs = v.refs
    BY WorkIs DEF Mergeable
  <1> DEFINE m == Merge(v, w)
  <1>2. m.type = v.type /\ m.refs = v.refs /\ m.step = v.step
    BY <1>1 DEF Merge, A!Invocation
  <1>3. m.amount = IF v.type = "adjust" THEN v.amount + w.amount ELSE w.amount
    BY <1>1 DEF Merge, A!Invocation
  <1>4. v.step \in Int /\ v.amount \in Int /\ w.amount \in Int
    BY <1>1 DEF A!Invocation
  <1>5. v.step * (v.amount + w.amount) = v.step * v.amount + v.step * w.amount
    BY <1>4
  <1>6. v.step * v.amount \in Int /\ v.step * w.amount \in Int
    BY <1>4
  <1> HIDE DEF m
  <1>7. /\ Applied(pos, m) = A!Effect(pos, m)
        /\ Applied(Applied(pos, v), w) = A!Effect(A!Effect(pos, v), w)
    BY <1>1, <1>2 DEF Applied
  <1>8. \A r \in Ref : /\ A!Touches(v, r) = A!Touches(m, r)
                       /\ A!Touches(w, r) = A!Touches(m, r)
    BY <1>1, <1>2 DEF A!Touches
  <1>9. ASSUME NEW r \in Ref PROVE A!Effect(A!Effect(pos, v), w)[r] = A!Effect(pos, m)[r]
    <2>1. pos[r] \in Int
      BY DEF Positions
    <2>2. CASE ~A!Touches(m, r)
      BY <1>8, <2>2 DEF A!Effect
    <2>3. CASE A!Touches(m, r) /\ v.type = "adjust"
      <3>1. A!Effect(A!Effect(pos, v), w)[r] = (pos[r] + v.step * v.amount) + v.step * w.amount
        BY <1>1, <1>8, <2>3 DEF A!Effect
      <3>2. A!Effect(pos, m)[r] = pos[r] + v.step * (v.amount + w.amount)
        BY <1>2, <1>3, <2>3 DEF A!Effect
      <3> QED BY <1>5, <1>6, <2>1, <3>1, <3>2
    <2>4. CASE A!Touches(m, r) /\ v.type # "adjust"
      BY <1>1, <1>2, <1>3, <1>8, <2>4 DEF A!Effect
    <2> QED BY <2>2, <2>3, <2>4
  <1>10. A!Effect(A!Effect(pos, v), w) = A!Effect(pos, m)
    BY <1>9 DEF A!Effect
  <1> QED BY <1>7, <1>10 DEF m

LEMMA AddedActs ==
    ASSUME StepsAlike, NEW pos \in Positions, NEW done \in Seq(Kin), NEW w \in Kin
    PROVE  Levels(pos, Added(done, w)) = Applied(Levels(pos, done), w)
  <1>1. Kin \subseteq Work /\ done \in Seq(Work) /\ w \in Work
    BY DEF Kin
  <1>2. CASE ~ (done # <<>> /\ Mergeable(Last(done), w))
    BY <1>1, <1>2, LevelsAppend DEF Added
  <1>3. CASE done # <<>> /\ Mergeable(Last(done), w)
    <2> DEFINE f == Front(done)
               v == Last(done)
    <2>1. f \in Seq(Kin) /\ f \in Seq(Work) /\ v \in Kin /\ v \in Work /\ done = Append(f, v)
      BY <1>1, <1>3, FrontAndLast
    <2>2. Added(done, w) = Append(f, Merge(v, w))
      BY <1>3 DEF Added
    <2>3. v.step = w.step /\ Merge(v, w) \in Work
      BY <1>1, <1>3, <2>1, KinMerges DEF MergesWithin
    <2> HIDE DEF f, v
    <2>4. Levels(pos, f) \in Positions
      BY <2>1, LevelsType
    <2>5. Levels(pos, Append(f, Merge(v, w))) = Applied(Levels(pos, f), Merge(v, w))
      BY <2>1, <2>3, LevelsAppend
    <2>6. Applied(Levels(pos, f), Merge(v, w)) = Applied(Applied(Levels(pos, f), v), w)
      BY <1>1, <1>3, <2>1, <2>3, <2>4, MergedActs DEF v
    <2>7. Levels(pos, done) = Applied(Levels(pos, f), v)
      BY <2>1, LevelsAppend
    <2> QED BY <2>2, <2>5, <2>6, <2>7
  <1> QED BY <1>2, <1>3

(* Executing a coalesced batch is executing its items one by one.          *)
LEMMA CoalescedActs ==
    ASSUME StepsAlike, NEW pos \in Positions, NEW items \in Seq(Kin)
    PROVE  Levels(pos, Coalesced(items)) = Levels(pos, items)
  <1> DEFINE n == Len(items)
  <1>1. n \in Nat /\ items \in Seq(Work) /\ \A k \in 1..n : items[k] \in Kin
    BY DEF Kin
  <1>2. PICK done \in [0..n -> Seq(Kin)] :
              /\ done[0] = <<>>
              /\ \A k \in 1..n : done[k] = Added(done[k-1], items[k])
              /\ Coalesced(items) = done[n]
    BY KinMerges, Coalesces
  <1> DEFINE l == [k \in 0..n |-> Levels(pos, done[k])]
  <1>3. ASSUME NEW k \in 0..n PROVE l[k] \in Positions
    <2>1. done[k] \in Seq(Work)
      BY <1>3 DEF Kin
    <2> QED BY <2>1, LevelsType
  <1>4. l[0] = pos
    BY <1>1, <1>2, LevelsNone
  <1>5. ASSUME NEW k \in 1..n PROVE l[k] = Applied(l[k-1], items[k])
    <2>1. k - 1 \in 0..n /\ k \in 0..n
      BY <1>1
    <2>2. Levels(pos, Added(done[k-1], items[k])) = Applied(Levels(pos, done[k-1]), items[k])
      BY <1>1, <2>1, AddedActs
    <2> QED BY <1>2, <2>1, <2>2
  <1>6. l[n] = Levels(pos, Coalesced(items)) /\ l = [k \in 0..n |-> l[k]]
    BY <1>1, <1>2
  <1> HIDE DEF l
  <1>7. Way(l, pos, items)
    BY <1>3, <1>4, <1>5, <1>6 DEF Way
  <1> QED BY <1>1, <1>6, <1>7, OneWay

(* What waits, and what is being executed. *)
Waits == batch \o drained \o queue

KeepsKin == queue \in Seq(Kin) /\ drained \in Seq(Kin)

LEMMA SettlingIs == Settling = Levels(position, Waits) /\ Settling' = Levels(position', Waits')
  <1>1. Settling = Levels(position, Waits)
    BY DEF Settling, Levels, Waits
  <1>2. Settling' = Levels(position', Waits')
    BY DEF Settling, Levels, Waits, FoldLeft, MapThenFoldSet
  <1> QED BY <1>1, <1>2


LEMMA KinParts == Resync \in Kin /\ Refresh \in Kin /\ Kin \subseteq Work /\ Invocations \subseteq Kin
  BY DispatchAssumption DEF Kin, Work

LEMMA KeepsKinStep ==
    ASSUME DispatchTypeOK, KeepsKin, [DispatchNext]_dispatchVars PROVE KeepsKin'
  <1>1. ASSUME NEW w \in Invocations \cup {Resync, Refresh}, Enqueue(w) PROVE KeepsKin'
    <2>1. Queued(w) \in Seq(Kin)
      BY KinParts DEF Queued, KeepsKin
    <2> QED BY <1>1, <2>1 DEF Enqueue, KeepsKin
  <1>2. CASE Receive
    <2>1. Head(queue) \in Kin /\ Tail(queue) \in Seq(Kin)
      BY <1>2 DEF Receive, KeepsKin
    <2> QED BY <1>2, <2>1 DEF Receive, KeepsKin
  <1>3. CASE Drained
    BY <1>3 DEF Drained, KeepsKin
  <1>4. CASE Executed \/ UNCHANGED dispatchVars
    BY <1>4 DEF Executed, dispatchVars, KeepsKin
  <1> QED BY <1>1, <1>2, <1>3, <1>4 DEF DispatchNext

LEMMA WaitsType == ASSUME DispatchTypeOK PROVE Waits \in Seq(Work) /\ position \in Positions
  BY DEF Waits, DispatchTypeOK, Positions

(* An item that is enqueued acts at once, or not at all if it is dropped.  *)
LEMMA EnqueueActs ==
    ASSUME DispatchTypeOK, NEW w \in Invocations \cup {Resync, Refresh}, Enqueue(w)
    PROVE  Settling' = Settling \/ (w \in Invocations /\ Settling' = A!Effect(Settling, w))
  <1>1. w \in Work
    BY KinParts
  <1>2. position' = position /\ (Waits' = Waits \/ Waits' = Append(Waits, w))
    <2>1. batch' = batch /\ drained' = drained /\ position' = position
      BY DEF Enqueue
    <2>2. queue' = queue \/ queue' = Append(queue, w)
      BY DEF Enqueue, Queued
    <2>3. (batch \o drained) \o Append(queue, w) = Append((batch \o drained) \o queue, w)
      BY <1>1 DEF DispatchTypeOK
    <2> QED BY <2>1, <2>2, <2>3 DEF Waits
  <1>3. CASE Waits' = Waits
    BY <1>2, <1>3, SettlingIs
  <1>4. CASE Waits' = Append(Waits, w)
    <2>1. Settling' = Levels(position, Append(Waits, w))
      BY <1>2, <1>4, SettlingIs
    <2>2. Settling' = Applied(Settling, w)
      BY <1>1, <2>1, LevelsAppend, WaitsType, SettlingIs
    <2> QED BY <2>2, <1>1, WorkIs, NoInvocations DEF Applied
  <1> QED BY <1>2, <1>3, <1>4

(* The dispatcher receives, coalesces and executes without changing what   *)
(* will have become of the levels.                                         *)
LEMMA DispatcherSettles ==
    ASSUME StepsAlike, DispatchTypeOK, KeepsKin, Receive \/ Drained \/ Executed
    PROVE  Settling' = Settling
  <1>1. CASE Receive
    <2>1. drained' \o queue' = drained \o queue
      BY <1>1 DEF Receive, DispatchTypeOK
    <2>2. Waits' = Waits
      BY <1>1, <2>1 DEF Waits, Receive, DispatchTypeOK
    <2> QED BY <1>1, <2>2, SettlingIs DEF Receive
  <1>2. CASE Drained
    <2>1. Waits = drained /\ Waits' = Coalesced(drained)
      BY <1>2, CoalescedType, WorkMerges DEF Waits, Drained, DispatchTypeOK
    <2>2. Levels(position, Coalesced(drained)) = Levels(position, drained)
      BY CoalescedActs, WaitsType DEF KeepsKin
    <2> QED BY <1>2, <2>1, <2>2, SettlingIs DEF Drained
  <1>3. CASE Executed
    <2>1. Waits # <<>> /\ Head(Waits) = Head(batch) /\ Waits' = Tail(Waits)
      BY <1>3 DEF Executed, Waits, DispatchTypeOK
    <2>2. position' = Applied(position, Head(batch))
      BY <1>3 DEF Executed, Applied
    <2> QED BY <2>1, <2>2, LevelsTail, WaitsType, SettlingIs
  <1> QED BY <1>1, <1>2, <1>3

(* A queue that drains and coalesces as it may keeps the promise that      *)
(* every invocation acts on its own, at once and in its turn, when all of  *)
(* a control's bindings on the same refs have the same step.               *)
THEOREM QueueKeepsPromise == ASSUME StepsAlike PROVE DispatchSpec => ActsOneByOne
  <1>1. DispatchInit => KeepsKin /\ Instantly!Init
    <2> SUFFICES ASSUME DispatchInit PROVE KeepsKin /\ Instantly!Init
      OBVIOUS
    <2>1. KeepsKin
      BY KinParts DEF DispatchInit, KeepsKin
    <2>2. Waits = Append(<<>>, Resync) /\ position \in Positions /\ <<>> \in Seq(Work)
      BY DEF DispatchInit, Waits, Positions
    <2>3. Levels(position, Waits) = Applied(Levels(position, <<>>), Resync)
      BY <2>2, KinParts, LevelsAppend
    <2>4. Settling = position
      BY <2>2, <2>3, LevelsNone, NoInvocations, SettlingIs DEF Applied
    <2> QED BY <2>1, <2>4 DEF Instantly!Init, DispatchInit
  <1>2. DispatchTypeOK /\ KeepsKin /\ [DispatchNext]_dispatchVars =>
          KeepsKin' /\ [Instantly!Next]_Settling
    <2> SUFFICES ASSUME DispatchTypeOK, KeepsKin, [DispatchNext]_dispatchVars
                 PROVE  [Instantly!Next]_Settling
      BY KeepsKinStep
    <2>1. ASSUME NEW w \in Invocations \cup {Resync, Refresh}, Enqueue(w)
          PROVE  [Instantly!Next]_Settling
      <3>1. Settling' = Settling \/ (w \in Invocations /\ Settling' = A!Effect(Settling, w))
        BY <2>1, EnqueueActs
      <3> QED BY <3>1 DEF Instantly!Next, Instantly!Acts, Instantly!Effect, A!Effect,
                          Instantly!Touches, A!Touches
    <2>2. CASE Receive \/ Drained \/ Executed
      BY <2>2, DispatcherSettles
    <2>3. CASE UNCHANGED dispatchVars
      BY <2>3, SettlingIs DEF dispatchVars, Waits
    <2> QED BY <2>1, <2>2, <2>3 DEF DispatchNext
  <1> QED BY <1>1, <1>2, DispatchTyped, PTL DEF DispatchSpec, ActsOneByOne, Instantly!Spec

-----------------------------------------------------------------------------
(* The channels *)

LEMMA LesserOfTwo ==
    ASSUME NEW m \in Int, NEW n \in Int
    PROVE  Min({m, n}) = IF m <= n THEN m ELSE n
  <1> DEFINE l == IF m <= n THEN m ELSE n
  <1>1. \A x \in {m, n} : (\A y \in {m, n} : x <= y) <=> x = l
    OBVIOUS
  <1> QED BY <1>1 DEF Min

(* What a channel with and without room makes of one or two events. *)
LEMMA Fans ==
    ASSUME NEW ch \in Seq(Event), NEW d \in Nat, Len(ch) <= d, NEW s \in Seq(Event)
    PROVE  /\ Len(s) <= d - Len(ch) => FannedOut(ch, d, s) = ch \o s /\ Dropped(ch, d, s) = {}
           /\ Len(s) # 0 /\ d - Len(ch) = 0 =>
                 FannedOut(ch, d, s) = ch /\ Dropped(ch, d, s) = {s[i].what : i \in 1..Len(s)}
           /\ Len(s) = 2 /\ d - Len(ch) = 1 =>
                 FannedOut(ch, d, s) = Append(ch, s[1]) /\ Dropped(ch, d, s) = {s[2].what}
  <1> DEFINE m == Min({Len(s), d - Len(ch)})
  <1>1. m = IF Len(s) <= d - Len(ch) THEN Len(s) ELSE d - Len(ch)
    BY LesserOfTwo
  <1>2. FannedOut(ch, d, s) = ch \o SubSeq(s, 1, m)
    BY DEF FannedOut, Fits
  <1>3. Dropped(ch, d, s) = {s[i].what : i \in (Len(SubSeq(s, 1, m)) + 1)..Len(s)}
    BY DEF Dropped, Fits
  <1> HIDE DEF m
  <1>4. m \in 0..Len(s) /\ Len(SubSeq(s, 1, m)) = m
    BY <1>1
  <1>5. CASE Len(s) <= d - Len(ch)
    <2>1. m = Len(s) /\ SubSeq(s, 1, m) = s
      BY <1>1, <1>5
    <2>2. (m + 1)..Len(s) = {}
      BY <2>1
    <2>3. Len(s) # 0 => d - Len(ch) # 0
      BY <1>5
    <2>4. Len(s) = 2 => d - Len(ch) # 1
      BY <1>5
    <2> QED BY <1>2, <1>3, <1>4, <2>1, <2>2, <2>3, <2>4
  <1>6. CASE Len(s) # 0 /\ d - Len(ch) = 0
    <2>1. m = 0 /\ SubSeq(s, 1, m) = <<>> /\ ch \o <<>> = ch
      BY <1>1, <1>6
    <2> QED BY <1>2, <1>3, <1>4, <1>6, <2>1
  <1>7. CASE Len(s) = 2 /\ d - Len(ch) = 1
    <2>1. m = 1 /\ ch \o SubSeq(s, 1, m) = Append(ch, s[1])
      BY <1>1, <1>7
    <2>2. (m + 1)..Len(s) = {2}
      BY <1>7, <2>1
    <2> QED BY <1>2, <1>3, <1>4, <1>7, <2>1, <2>2
  <1> QED BY <1>5, <1>6, <1>7

LEMMA FansOne ==
    ASSUME NEW ch \in Seq(Event), NEW d \in Nat, Len(ch) <= d, NEW e \in Event
    PROVE  \/ /\ Len(ch) < d
              /\ FannedOut(ch, d, <<e>>) = Append(ch, e) /\ Dropped(ch, d, <<e>>) = {}
           \/ FannedOut(ch, d, <<e>>) = ch /\ Dropped(ch, d, <<e>>) = {e.what}
  <1> DEFINE s == <<e>>
  <1>1. s \in Seq(Event) /\ Len(s) = 1 /\ s[1] = e /\ ch \o s = Append(ch, e)
    OBVIOUS
  <1>2. {s[i].what : i \in 1..1} = {e.what}
    BY <1>1
  <1> HIDE DEF s
  <1>3. CASE Len(ch) < d
    <2>1. Len(s) <= d - Len(ch)
      BY <1>1, <1>3
    <2> QED BY <1>1, <1>3, <2>1, Fans DEF s
  <1>4. CASE Len(ch) = d
    <2>1. Len(s) # 0 /\ d - Len(ch) = 0
      BY <1>1, <1>4
    <2>2. FannedOut(ch, d, s) = ch /\ Dropped(ch, d, s) = {s[i].what : i \in 1..Len(s)}
      BY <1>1, <2>1, Fans
    <2> QED BY <1>1, <1>2, <2>2 DEF s
  <1> QED BY <1>3, <1>4

LEMMA FansTwo ==
    ASSUME NEW ch \in Seq(Event), NEW d \in Nat, Len(ch) <= d,
           NEW s \in Seq(Event), Len(s) = 2
    PROVE  \/ /\ Len(ch) + 1 < d
              /\ FannedOut(ch, d, s) = Append(Append(ch, s[1]), s[2])
              /\ Dropped(ch, d, s) = {}
           \/ /\ Len(ch) < d
              /\ FannedOut(ch, d, s) = Append(ch, s[1])
              /\ Dropped(ch, d, s) = {s[2].what}
           \/ /\ FannedOut(ch, d, s) = ch
              /\ Dropped(ch, d, s) = {s[1].what, s[2].what}
  <1>1. ch \o s = Append(Append(ch, s[1]), s[2])
    <2> DEFINE l == ch \o s
               r == Append(Append(ch, s[1]), s[2])
    <2>1. s[1] \in Event /\ s[2] \in Event
      <3>1. 1 \in 1..Len(s) /\ 2 \in 1..Len(s)
        OBVIOUS
      <3> QED BY <3>1, ElementOfSeq
    <2>2. /\ l \in Seq(Event) /\ Len(l) = Len(ch) + 2
          /\ \A i \in 1..Len(ch) : l[i] = ch[i]
          /\ l[Len(ch) + 1] = s[1] /\ l[Len(ch) + 2] = s[2]
      BY ConcatProperties
    <2>3. /\ r \in Seq(Event) /\ Len(r) = Len(ch) + 2
          /\ \A i \in 1..Len(ch) : r[i] = ch[i]
          /\ r[Len(ch) + 1] = s[1] /\ r[Len(ch) + 2] = s[2]
      BY <2>1
    <2> HIDE DEF l, r
    <2>4. \A i \in 1..Len(l) : l[i] = r[i]
      BY <2>2, <2>3
    <2> QED BY <2>2, <2>3, <2>4, SeqEqual DEF l, r
  <1>2. {s[i].what : i \in 1..2} = {s[1].what, s[2].what}
    OBVIOUS
  <1>3. CASE Len(ch) + 1 < d
    <2>1. Len(s) <= d - Len(ch)
      BY <1>1, <1>3
    <2> QED BY <1>1, <1>3, <2>1, Fans
  <1>4. CASE Len(ch) + 1 = d
    <2>1. Len(s) = 2 /\ d - Len(ch) = 1 /\ Len(ch) < d
      BY <1>1, <1>4
    <2>2. FannedOut(ch, d, s) = Append(ch, s[1]) /\ Dropped(ch, d, s) = {s[2].what}
      BY <1>1, <2>1, Fans
    <2> QED BY <1>1, <2>1, <2>2
  <1>5. CASE Len(ch) = d
    <2>1. Len(s) # 0 /\ d - Len(ch) = 0
      BY <1>1, <1>5
    <2>2. FannedOut(ch, d, s) = ch /\ Dropped(ch, d, s) = {s[i].what : i \in 1..Len(s)}
      BY <1>1, <2>1, Fans
    <2> QED BY <1>1, <1>2, <2>2
  <1>6. Len(ch) + 1 < d \/ Len(ch) + 1 = d \/ Len(ch) = d
    OBVIOUS
  <1> QED BY <1>3, <1>4, <1>5, <1>6

LEMMA Joined ==
    ASSUME NEW a \in Seq(Event), NEW b \in Seq(Event)
    PROVE  /\ a \o b \in Seq(Event)
           /\ Len(a) = 1 /\ Len(b) = 1 =>
                 Len(a \o b) = 2 /\ (a \o b)[1] = a[1] /\ (a \o b)[2] = b[1]
           /\ a \o <<>> = a /\ <<>> \o b = b
  OBVIOUS

LEMMA FansNothing ==
    ASSUME NEW ch \in Seq(Event), NEW d \in Nat, Len(ch) <= d
    PROVE  FannedOut(ch, d, <<>>) = ch /\ Dropped(ch, d, <<>>) = {}
  <1>1. <<>> \in Seq(Event) /\ Len(<<>>) <= d - Len(ch) /\ ch \o <<>> = ch
    OBVIOUS
  <1> QED BY <1>1, Fans

-----------------------------------------------------------------------------
(* Types of the graph *)

ServerTyped ==
    /\ alive \subseteq Ref /\ gone \subseteq Ref /\ alive \cap gone = {} /\ default \in Device
    /\ broken \in BOOLEAN
    /\ changes \in 0..MaxChanges /\ losses \in 0..MaxLosses

ChannelsTyped ==
    /\ link \in Link /\ everConnected \in BOOLEAN /\ missed \in BOOLEAN /\ running \in BOOLEAN
    /\ notes \in Seq(Event) /\ Len(notes) <= HandoffDepth
    /\ feed \in Seq(Event) /\ Len(feed) <= FeedDepth
    /\ subs \in Seq(Event) /\ Len(subs) <= SubDepth
    /\ doubt \subseteq Things /\ overtaken \subseteq Ref

CacheTyped ==
    /\ known \subseteq Ref /\ knownDefault \in Device \cup {NoDevice}
    /\ asking \in Asking /\ answer \in StreamsResult
    /\ streamsCh \in Seq(StreamsResult) /\ Len(streamsCh) <= 1

LEMMA TypeParts ==
    /\ TypeOK <=> DispatchTypeOK /\ ServerTyped /\ ChannelsTyped /\ CacheTyped
    /\ TypeOK' <=> DispatchTypeOK' /\ ServerTyped' /\ ChannelsTyped' /\ CacheTyped'
  BY DEF TypeOK, ServerTyped, ChannelsTyped, CacheTyped

LEMMA EventIs ==
    /\ EventResync \in Event /\ EventResync.what = "resync"
    /\ \A x \in Things, t \in BOOLEAN :
          Tells(x, t) \in Event /\ Tells(x, t).what = x /\ Tells(x, t).there = t
    /\ "resync" \notin Things /\ "default" \in Things /\ "default" \notin Ref /\ Ref \subseteq Things
  BY AudioGraphAssumption DEF EventResync, Tells, Event, Things

LEMMA DoubtGrows ==
    ASSUME ChannelsTyped, NEW S, S \subseteq Things \cup {"resync"}
    PROVE  /\ doubt \subseteq Doubted(S) /\ Doubted(S) \subseteq Things
           /\ "resync" \in S => Doubted(S) = Things
           /\ \A x \in Things : x \in S => x \in Doubted(S)
  BY DEF ChannelsTyped, Doubted

(* What an event that may be dropped makes of a channel and of doubt.      *)
Passes(ch, next, e) ==
    \/ next = Append(ch, e)
    \/ /\ next = ch
       /\ e.what = "resync" => doubt' = Things
       /\ e.what \in Things => e.what \in doubt'

LEMMA PumpPasses ==
    ASSUME ChannelsTyped, Pump
    PROVE  /\ feed # <<>> /\ Passes(subs, subs', Head(feed))
           /\ subs' \in Seq(Event) /\ Len(subs') <= SubDepth
           /\ feed' = Tail(feed) /\ feed' \in Seq(Event) /\ Len(feed') <= FeedDepth
           /\ doubt \subseteq doubt' /\ doubt' \subseteq Things
  <1> DEFINE e == Head(feed)
  <1>1. /\ feed # <<>> /\ feed' = Tail(feed) /\ subs' = FannedOut(subs, SubDepth, <<e>>)
        /\ doubt' = Doubted(Dropped(subs, SubDepth, <<e>>))
    BY DEF Pump
  <1>2. e \in Event /\ e.what \in Things \cup {"resync"}
    <2>1. e \in Event
      BY <1>1 DEF ChannelsTyped
    <2> QED BY <2>1 DEF Event
  <1>3. feed' \in Seq(Event) /\ Len(feed') <= FeedDepth
    BY <1>1, AudioGraphAssumption DEF ChannelsTyped
  <1>4. SubDepth \in Nat /\ subs \in Seq(Event) /\ Len(subs) <= SubDepth
    BY AudioGraphAssumption DEF ChannelsTyped
  <1> HIDE DEF e
  <1>5. CASE Len(subs) < SubDepth /\ subs' = Append(subs, e) /\ Dropped(subs, SubDepth, <<e>>) = {}
    <2>1. doubt \subseteq doubt' /\ doubt' \subseteq Things
      BY <1>1, <1>5, DoubtGrows
    <2>2. subs' \in Seq(Event) /\ Len(subs') <= SubDepth
      BY <1>2, <1>4, <1>5
    <2> QED BY <1>1, <1>3, <1>5, <2>1, <2>2 DEF Passes, e
  <1>6. CASE subs' = subs /\ Dropped(subs, SubDepth, <<e>>) = {e.what}
    <2>1. /\ doubt \subseteq doubt' /\ doubt' \subseteq Things
          /\ e.what = "resync" => doubt' = Things
          /\ e.what \in Things => e.what \in doubt'
      BY <1>1, <1>2, <1>6, DoubtGrows
    <2> QED BY <1>1, <1>3, <1>4, <1>6, <2>1 DEF Passes, e
  <1> QED BY <1>1, <1>2, <1>4, <1>5, <1>6, FansOne

LEMMA SetBackendPasses ==
    ASSUME ChannelsTyped, SetBackend
    PROVE  /\ everConnected => Passes(subs, subs', EventResync)
           /\ ~everConnected => subs' = subs
           /\ subs' \in Seq(Event) /\ Len(subs') <= SubDepth
           /\ doubt \subseteq doubt' /\ doubt' \subseteq Things
  <1>1. SubDepth \in Nat /\ subs \in Seq(Event) /\ Len(subs) <= SubDepth
    BY AudioGraphAssumption DEF ChannelsTyped
  <1>2. EventResync \in Event /\ EventResync.what = "resync"
    BY EventIs
  <1>3. CASE everConnected
    <2>1. /\ subs' = FannedOut(subs, SubDepth, <<EventResync>>)
          /\ doubt' = Doubted(Dropped(subs, SubDepth, <<EventResync>>))
      BY <1>3 DEF SetBackend, Announcement
    <2>2. CASE /\ Len(subs) < SubDepth /\ subs' = Append(subs, EventResync)
               /\ Dropped(subs, SubDepth, <<EventResync>>) = {}
      <3>1. doubt \subseteq doubt' /\ doubt' \subseteq Things
        BY <2>1, <2>2, DoubtGrows
      <3>2. subs' \in Seq(Event) /\ Len(subs') <= SubDepth
        BY <1>1, <1>2, <2>2
      <3> QED BY <1>3, <2>2, <3>1, <3>2 DEF Passes
    <2>3. CASE subs' = subs /\ Dropped(subs, SubDepth, <<EventResync>>) = {EventResync.what}
      <3>1. doubt \subseteq doubt' /\ doubt' \subseteq Things /\ doubt' = Things
        BY <1>2, <2>1, <2>3, DoubtGrows
      <3> QED BY <1>1, <1>3, <2>3, <3>1 DEF Passes
    <2> QED BY <1>1, <1>2, <2>1, <2>2, <2>3, FansOne
  <1>4. CASE ~everConnected
    <2>1. subs' = FannedOut(subs, SubDepth, <<>>) /\ doubt' = Doubted(Dropped(subs, SubDepth, <<>>))
      BY <1>4 DEF SetBackend, Announcement
    <2>2. subs' = subs /\ doubt' = Doubted({})
      BY <1>1, <2>1, FansNothing
    <2>3. doubt \subseteq doubt' /\ doubt' \subseteq Things
      BY <2>2, DoubtGrows
    <2> QED BY <1>1, <1>4, <2>2, <2>3
  <1> QED BY <1>3, <1>4

(* What handleEvent tells of a note.                                       *)
Told(note, fails) == note.what \in Ref /\ note.there => note.what \in alive /\ ~broken /\ ~fails

(* A note that is told, and then the resync for those the handoff missed.  *)
LEMMA NotePasses ==
    ASSUME ChannelsTyped, NEW fails \in BOOLEAN, HandleNote(fails)
    PROVE  /\ notes # <<>> /\ Head(notes) \in Event /\ notes' = Tail(notes) /\ missed' = FALSE
           /\ feed' \in Seq(Event) /\ Len(feed') <= FeedDepth
           /\ doubt \subseteq doubt' /\ doubt' \subseteq Things
           /\ fails => Head(notes).what \in doubt'
           /\ \E next \in Seq(Event) :
                 /\ IF Told(Head(notes), fails) THEN Passes(feed, next, Head(notes))
                                                ELSE next = feed
                 /\ IF missed THEN Passes(next, feed', EventResync) ELSE feed' = next
  <1> DEFINE note == Head(notes)
             told == Told(note, fails)
             evs == (IF told THEN <<note>> ELSE <<>>)
                       \o (IF missed THEN <<EventResync>> ELSE <<>>)
             F == IF fails THEN {note.what} ELSE {}
             D == Dropped(feed, FeedDepth, evs)
  <1>1. /\ notes # <<>> /\ notes' = Tail(notes) /\ missed' = FALSE
        /\ feed' = FannedOut(feed, FeedDepth, evs)
        /\ doubt' = Doubted(D \cup F)
        /\ fails => note.what \in Ref
    BY DEF HandleNote, Told
  <1>2. note \in Event /\ note.what \in Things \cup {"resync"}
    <2>1. note \in Event
      BY <1>1 DEF ChannelsTyped
    <2> QED BY <2>1 DEF Event
  <1>3. FeedDepth \in Nat /\ feed \in Seq(Event) /\ Len(feed) <= FeedDepth
    BY AudioGraphAssumption DEF ChannelsTyped
  <1>4. EventResync \in Event /\ EventResync.what = "resync" /\ "resync" \notin Things
    BY EventIs
  <1>5. F \subseteq Things /\ (fails => note.what \in F)
    BY <1>1, <1>2, EventIs
  <1>6. /\ told /\ missed => /\ evs \in Seq(Event) /\ Len(evs) = 2
                             /\ evs[1] = note /\ evs[2] = EventResync
        /\ told /\ ~missed => evs = <<note>>
        /\ ~told /\ missed => evs = <<EventResync>>
        /\ ~told /\ ~missed => evs = <<>>
    <2> DEFINE a == IF told THEN <<note>> ELSE <<>>
               b == IF missed THEN <<EventResync>> ELSE <<>>
    <2>1. /\ told => a = <<note>> /\ Len(a) = 1 /\ a[1] = note
          /\ ~told => a = <<>>
          /\ a \in Seq(Event)
      BY <1>2
    <2>2. /\ missed => b = <<EventResync>> /\ Len(b) = 1 /\ b[1] = EventResync
          /\ ~missed => b = <<>>
          /\ b \in Seq(Event)
      BY <1>4
    <2>3. evs = a \o b
      OBVIOUS
    <2> HIDE DEF note, told, evs, a, b
    <2>4. /\ a \o b \in Seq(Event)
          /\ Len(a) = 1 /\ Len(b) = 1 =>
                Len(a \o b) = 2 /\ (a \o b)[1] = a[1] /\ (a \o b)[2] = b[1]
          /\ a \o <<>> = a /\ <<>> \o b = b
      BY <2>1, <2>2, Joined
    <2>5. told /\ missed => /\ evs \in Seq(Event) /\ Len(evs) = 2
                            /\ evs[1] = note /\ evs[2] = EventResync
      BY <2>1, <2>2, <2>3, <2>4
    <2>6. told /\ ~missed => evs = <<note>>
      BY <2>1, <2>2, <2>3, <2>4
    <2>7. ~told => evs = b
      BY <2>1, <2>3, <2>4
    <2> QED BY <2>2, <2>5, <2>6, <2>7
  <1> HIDE DEF note, told, evs, F, D
  <1>7. ASSUME D \subseteq Things \cup {"resync"}
        PROVE  /\ doubt \subseteq doubt' /\ doubt' \subseteq Things
               /\ fails => note.what \in doubt'
               /\ "resync" \in D => doubt' = Things
               /\ \A x \in Things : x \in D => x \in doubt'
    <2>1. D \cup F \subseteq Things \cup {"resync"}
      BY <1>5, <1>7
    <2> QED BY <1>1, <1>5, <2>1, DoubtGrows
  <1>8. Append(feed, note) \in Seq(Event) /\ Append(feed, EventResync) \in Seq(Event)
    BY <1>2, <1>3, <1>4
  <1>9. CASE told /\ missed
    <2>1. CASE /\ Len(feed) + 1 < FeedDepth
               /\ feed' = Append(Append(feed, note), EventResync) /\ D = {}
      <3>1. feed' \in Seq(Event) /\ Len(feed') <= FeedDepth
        BY <1>2, <1>3, <1>4, <2>1
      <3>2. /\ Passes(feed, Append(feed, note), note)
            /\ Passes(Append(feed, note), feed', EventResync)
        BY <2>1 DEF Passes
      <3> QED BY <1>1, <1>2, <1>7, <1>8, <1>9, <2>1, <3>1, <3>2 DEF note, told
    <2>2. CASE Len(feed) < FeedDepth /\ feed' = Append(feed, note) /\ D = {EventResync.what}
      <3>1. feed' \in Seq(Event) /\ Len(feed') <= FeedDepth
        BY <1>2, <1>3, <2>2
      <3>2. /\ doubt \subseteq doubt' /\ doubt' \subseteq Things /\ (fails => note.what \in doubt')
            /\ doubt' = Things
        BY <1>4, <1>7, <2>2
      <3>3. Passes(feed, feed', note) /\ Passes(feed', feed', EventResync)
        BY <1>4, <2>2, <3>2 DEF Passes
      <3> QED BY <1>1, <1>2, <1>9, <3>1, <3>2, <3>3 DEF note, told
    <2>3. CASE feed' = feed /\ D = {note.what, EventResync.what}
      <3>1. /\ doubt \subseteq doubt' /\ doubt' \subseteq Things /\ (fails => note.what \in doubt')
            /\ doubt' = Things
        BY <1>2, <1>4, <1>7, <2>3
      <3>2. Passes(feed, feed, note) /\ Passes(feed, feed', EventResync)
        BY <1>4, <2>3, <3>1 DEF Passes
      <3> QED BY <1>1, <1>2, <1>3, <1>9, <2>3, <3>1, <3>2 DEF note, told
    <2>4. /\ evs \in Seq(Event) /\ Len(evs) = 2
          /\ evs[1] = note /\ evs[2] = EventResync
      BY <1>6, <1>9
    <2>5. \/ /\ Len(feed) + 1 < FeedDepth
             /\ feed' = Append(Append(feed, note), EventResync) /\ D = {}
          \/ Len(feed) < FeedDepth /\ feed' = Append(feed, note) /\ D = {EventResync.what}
          \/ feed' = feed /\ D = {note.what, EventResync.what}
      BY <1>1, <1>3, <2>4, FansTwo DEF D
    <2> QED BY <2>1, <2>2, <2>3, <2>5
  <1>10. CASE told /\ ~missed
    <2>1. CASE Len(feed) < FeedDepth /\ feed' = Append(feed, note) /\ D = {}
      <3>1. feed' \in Seq(Event) /\ Len(feed') <= FeedDepth
        BY <1>2, <1>3, <2>1
      <3>2. Passes(feed, feed', note)
        BY <2>1 DEF Passes
      <3> QED BY <1>1, <1>2, <1>7, <1>10, <2>1, <3>1, <3>2 DEF note, told
    <2>2. CASE feed' = feed /\ D = {note.what}
      <3>1. /\ doubt \subseteq doubt' /\ doubt' \subseteq Things /\ (fails => note.what \in doubt')
            /\ note.what = "resync" => doubt' = Things
            /\ note.what \in Things => note.what \in doubt'
        BY <1>2, <1>7, <2>2
      <3>2. Passes(feed, feed', note)
        BY <2>2, <3>1 DEF Passes
      <3> QED BY <1>1, <1>2, <1>3, <1>10, <2>2, <3>1, <3>2 DEF note, told
    <2> QED BY <1>1, <1>2, <1>3, <1>6, <1>10, <2>1, <2>2, FansOne DEF D
  <1>11. CASE ~told /\ missed
    <2>1. CASE Len(feed) < FeedDepth /\ feed' = Append(feed, EventResync) /\ D = {}
      <3>1. feed' \in Seq(Event) /\ Len(feed') <= FeedDepth
        BY <1>3, <1>4, <2>1
      <3>2. Passes(feed, feed', EventResync)
        BY <2>1 DEF Passes
      <3> QED BY <1>1, <1>2, <1>3, <1>7, <1>11, <2>1, <3>1, <3>2 DEF note, told
    <2>2. CASE feed' = feed /\ D = {EventResync.what}
      <3>1. /\ doubt \subseteq doubt' /\ doubt' \subseteq Things /\ (fails => note.what \in doubt')
            /\ doubt' = Things
        BY <1>4, <1>7, <2>2
      <3>2. Passes(feed, feed', EventResync)
        BY <1>4, <2>2, <3>1 DEF Passes
      <3> QED BY <1>1, <1>2, <1>3, <1>11, <2>2, <3>1, <3>2 DEF note, told
    <2> QED BY <1>1, <1>3, <1>4, <1>6, <1>11, <2>1, <2>2, FansOne DEF D
  <1>12. CASE ~told /\ ~missed
    <2>1. feed' = feed /\ D = {}
      BY <1>1, <1>3, <1>6, <1>12, FansNothing DEF D
    <2> QED BY <1>1, <1>2, <1>3, <1>7, <1>12, <2>1 DEF note, told
  <1> QED BY <1>9, <1>10, <1>11, <1>12

LEMMA GraphStarts == Init => TypeOK
  <1> SUFFICES ASSUME Init PROVE TypeOK
    OBVIOUS
  <1>1. DispatchTypeOK
    BY DispatchStarts DEF Init
  <1>2. ServerTyped
    <2>1. alive \in SUBSET Ref /\ gone = {} /\ default \in Device /\ broken = FALSE
      BY DEF Init
    <2>2. changes = 0 /\ losses = 0
      BY DEF Init
    <2>3. 0 \in 0..MaxChanges /\ 0 \in 0..MaxLosses
      BY AudioGraphAssumption
    <2> QED BY <2>1, <2>2, <2>3 DEF ServerTyped
  <1>3. ChannelsTyped
    <2>1. link \in Link /\ (everConnected <=> link = "inUse")
      BY DEF Init, Link
    <2>2. everConnected \in BOOLEAN /\ missed \in BOOLEAN /\ running \in BOOLEAN
      BY DEF Init
    <2>3. notes = <<>> /\ feed = <<>> /\ subs = <<>> /\ doubt = {} /\ overtaken = {}
      BY DEF Init
    <2>4. <<>> \in Seq(Event) /\ Len(<<>>) <= HandoffDepth /\ Len(<<>>) <= FeedDepth
          /\ Len(<<>>) <= SubDepth
      BY AudioGraphAssumption
    <2> QED BY <2>1, <2>2, <2>3, <2>4 DEF ChannelsTyped
  <1>4. CacheTyped
    BY DEF Init, CacheTyped, Asking, StreamsResult
  <1> QED BY <1>1, <1>2, <1>3, <1>4, TypeParts

LEMMA NotesTyped ==
    ASSUME ChannelsTyped, NEW note \in Event, Notes(note)
    PROVE  /\ notes' \in Seq(Event) /\ Len(notes') <= HandoffDepth
           /\ missed' \in BOOLEAN
  <1>1. /\ notes \in Seq(Event) /\ Len(notes) <= HandoffDepth /\ missed \in BOOLEAN
        /\ HandoffDepth \in Nat
    BY AudioGraphAssumption DEF ChannelsTyped
  <1>2. missed' \in BOOLEAN
    <2> DEFINE m == missed \/ (Subscribed /\ Len(notes) >= HandoffDepth)
    <2>1. m \in BOOLEAN /\ missed' = m
      BY DEF Notes
    <2> HIDE DEF m
    <2> QED BY <2>1
  <1>3. notes' = notes \/ (Len(notes) < HandoffDepth /\ notes' = Append(notes, note))
    BY DEF Notes
  <1> QED BY <1>1, <1>2, <1>3

(* What changes of the graph have in common. *)
LEMMA ChangesType ==
    ASSUME TypeOK, Changes, NEW note \in Event, Notes(note)
    PROVE  /\ DispatchTypeOK' /\ ChannelsTyped' /\ CacheTyped'
           /\ broken' \in BOOLEAN /\ changes' \in 0..MaxChanges /\ losses' \in 0..MaxLosses
  <1>1. DispatchTypeOK /\ ServerTyped /\ ChannelsTyped /\ CacheTyped
    BY TypeParts
  <1>2. DispatchTypeOK'
    BY <1>1 DEF Changes, dispatchVars, DispatchTypeOK
  <1>3. CacheTyped'
    BY <1>1 DEF Changes, cache, resync, CacheTyped
  <1>4. ChannelsTyped'
    BY <1>1, NotesTyped DEF Changes, supervisor, history, ChannelsTyped
  <1>5. broken' \in BOOLEAN /\ changes' \in 0..MaxChanges /\ losses' \in 0..MaxLosses
    BY <1>1, AudioGraphAssumption DEF Changes, ServerTyped
  <1> QED BY <1>2, <1>3, <1>4, <1>5

LEMMA ServerType ==
    ASSUME TypeOK,
           \/ \E r \in Ref : StreamAppears(r) \/ StreamExits(r)
           \/ \E d \in Device : DefaultMoves(d)
           \/ \E restarts \in BOOLEAN : Breaks(restarts)
    PROVE  TypeOK'
  <1>1. DispatchTypeOK /\ ServerTyped /\ ChannelsTyped /\ CacheTyped
    BY TypeParts
  <1>2. ASSUME NEW r \in Ref, StreamAppears(r) PROVE TypeOK'
    <2>1. Tells(r, TRUE) \in Event
      BY EventIs
    <2>2. Changes /\ Notes(Tells(r, TRUE))
      BY <1>2 DEF StreamAppears
    <2>3. /\ DispatchTypeOK' /\ ChannelsTyped' /\ CacheTyped'
          /\ broken' \in BOOLEAN /\ changes' \in 0..MaxChanges /\ losses' \in 0..MaxLosses
      BY <2>1, <2>2, ChangesType
    <2>4. /\ alive' \subseteq Ref /\ gone' \subseteq Ref /\ alive' \cap gone' = {}
          /\ default' \in Device
      BY <1>1, <1>2 DEF StreamAppears, ServerTyped
    <2> QED BY <2>3, <2>4, TypeParts DEF ServerTyped
  <1>3. ASSUME NEW r \in Ref, StreamExits(r) PROVE TypeOK'
    <2>1. Tells(r, FALSE) \in Event
      BY EventIs
    <2>2. Changes /\ Notes(Tells(r, FALSE))
      BY <1>3 DEF StreamExits
    <2>3. /\ DispatchTypeOK' /\ ChannelsTyped' /\ CacheTyped'
          /\ broken' \in BOOLEAN /\ changes' \in 0..MaxChanges /\ losses' \in 0..MaxLosses
      BY <2>1, <2>2, ChangesType
    <2>4. /\ alive' \subseteq Ref /\ gone' \subseteq Ref /\ alive' \cap gone' = {}
          /\ default' \in Device
      BY <1>1, <1>3 DEF StreamExits, ServerTyped
    <2> QED BY <2>3, <2>4, TypeParts DEF ServerTyped
  <1>4. ASSUME NEW d \in Device, DefaultMoves(d) PROVE TypeOK'
    <2>1. Tells("default", TRUE) \in Event
      BY EventIs
    <2>2. Changes /\ Notes(Tells("default", TRUE))
      BY <1>4 DEF DefaultMoves
    <2>3. /\ DispatchTypeOK' /\ ChannelsTyped' /\ CacheTyped'
          /\ broken' \in BOOLEAN /\ changes' \in 0..MaxChanges /\ losses' \in 0..MaxLosses
      BY <2>1, <2>2, ChangesType
    <2>4. /\ alive' \subseteq Ref /\ gone' \subseteq Ref /\ alive' \cap gone' = {}
          /\ default' \in Device
      BY <1>1, <1>4 DEF DefaultMoves, ServerTyped
    <2> QED BY <2>3, <2>4, TypeParts DEF ServerTyped
  <1>5. ASSUME NEW restarts \in BOOLEAN, Breaks(restarts) PROVE TypeOK'
    <2>1. DispatchTypeOK'
      BY <1>1, <1>5 DEF Breaks, dispatchVars, DispatchTypeOK
    <2>2. CacheTyped'
      BY <1>1, <1>5 DEF Breaks, cache, resync, CacheTyped
    <2>3. ChannelsTyped'
      BY <1>1, <1>5 DEF Breaks, supervisor, history, ChannelsTyped
    <2>4. broken' \in BOOLEAN /\ changes' \in 0..MaxChanges /\ losses' \in 0..MaxLosses
      BY <1>1, <1>5, AudioGraphAssumption DEF Breaks, ServerTyped
    <2>5. /\ alive' \subseteq Ref /\ gone' \subseteq Ref /\ alive' \cap gone' = {}
          /\ default' \in Device
      BY <1>1, <1>5 DEF Breaks, ServerTyped
    <2> QED BY <2>1, <2>2, <2>3, <2>4, <2>5, TypeParts DEF ServerTyped
  <1> QED BY <1>2, <1>3, <1>4, <1>5
LEMMA HandleNoteType ==
    ASSUME TypeOK, NEW fails \in BOOLEAN, HandleNote(fails)
    PROVE  TypeOK'
  <1>1. DispatchTypeOK /\ ServerTyped /\ ChannelsTyped /\ CacheTyped
    BY TypeParts
  <1>2. DispatchTypeOK' /\ ServerTyped' /\ CacheTyped'
    BY <1>1 DEF HandleNote, dispatchVars, server, cache, resync, DispatchTypeOK, ServerTyped,
                CacheTyped
  <1>3. /\ notes # <<>> /\ notes' = Tail(notes) /\ missed' \in BOOLEAN
        /\ feed' \in Seq(Event) /\ Len(feed') <= FeedDepth
        /\ doubt' \subseteq Things
    BY <1>1, NotePasses
  <1>4. notes' \in Seq(Event) /\ Len(notes') <= HandoffDepth
    BY <1>1, <1>3, AudioGraphAssumption DEF ChannelsTyped
  <1>5. ChannelsTyped'
    BY <1>1, <1>3, <1>4 DEF HandleNote, supervisor, ChannelsTyped
  <1> QED BY <1>2, <1>5, TypeParts

LEMMA LinkType ==
    ASSUME TypeOK, Connects \/ SetBackend \/ Pump \/ ClearBackend
    PROVE  TypeOK'
  <1>1. DispatchTypeOK /\ ServerTyped /\ ChannelsTyped /\ CacheTyped
    BY TypeParts
  <1>2. CASE Connects
    <2>1. DispatchTypeOK' /\ ServerTyped' /\ CacheTyped'
      BY <1>1, <1>2 DEF Connects, dispatchVars, server, cache, resync, DispatchTypeOK,
                        ServerTyped, CacheTyped
    <2>2. ChannelsTyped'
      BY <1>1, <1>2 DEF Connects, history, ChannelsTyped, Link
    <2> QED BY <2>1, <2>2, TypeParts
  <1>3. CASE SetBackend
    <2>1. DispatchTypeOK' /\ ServerTyped' /\ CacheTyped'
      BY <1>1, <1>3 DEF SetBackend, dispatchVars, server, cache, resync, DispatchTypeOK,
                        ServerTyped, CacheTyped
    <2>2. subs' \in Seq(Event) /\ Len(subs') <= SubDepth /\ doubt' \subseteq Things
      BY <1>1, <1>3, SetBackendPasses
    <2>3. ChannelsTyped'
      BY <1>1, <1>3, <2>2 DEF SetBackend, ChannelsTyped, Link
    <2> QED BY <2>1, <2>3, TypeParts
  <1>4. CASE Pump
    <2>1. DispatchTypeOK' /\ ServerTyped' /\ CacheTyped'
      BY <1>1, <1>4 DEF Pump, dispatchVars, server, cache, resync, DispatchTypeOK, ServerTyped,
                        CacheTyped
    <2>2. /\ subs' \in Seq(Event) /\ Len(subs') <= SubDepth /\ doubt' \subseteq Things
          /\ feed' \in Seq(Event) /\ Len(feed') <= FeedDepth
      BY <1>1, <1>4, PumpPasses
    <2>3. ChannelsTyped'
      BY <1>1, <1>4, <2>2 DEF Pump, supervisor, ChannelsTyped
    <2> QED BY <2>1, <2>3, TypeParts
  <1>5. CASE ClearBackend
    <2>1. DispatchTypeOK' /\ CacheTyped'
      BY <1>1, <1>5 DEF ClearBackend, dispatchVars, cache, resync, DispatchTypeOK, CacheTyped
    <2>2. ServerTyped'
      BY <1>1, <1>5 DEF ClearBackend, ServerTyped
    <2>3. <<>> \in Seq(Event) /\ Len(<<>>) <= HandoffDepth
      BY AudioGraphAssumption
    <2>4. ChannelsTyped'
      BY <1>1, <1>5, <2>3 DEF ClearBackend, history, ChannelsTyped, Link
    <2> QED BY <2>1, <2>2, <2>4, TypeParts
  <1> QED BY <1>2, <1>3, <1>4, <1>5

(* Run's handlers leave the dispatcher's end of the queue alone. *)
LEMMA EnqueuesType ==
    ASSUME DispatchTypeOK, NEW w \in {Resync, Refresh}, queue' \in {queue, Queued(w)},
           UNCHANGED <<drained, batch, position, enqueued>>
    PROVE  DispatchTypeOK'
  <1>1. w \in Work /\ queue \in Seq(Work) /\ Len(queue) <= QueueDepth
    BY DEF DispatchTypeOK, Work
  <1>2. Queued(w) \in Seq(Work) /\ Len(Queued(w)) <= QueueDepth
    BY <1>1, QueuedType
  <1> QED BY <1>1, <1>2 DEF DispatchTypeOK

LEMMA SubsShrink ==
    ASSUME ChannelsTyped, subs # <<>>
    PROVE  /\ Head(subs) \in Event /\ Tail(subs) \in Seq(Event)
           /\ Len(Tail(subs)) <= SubDepth
  BY AudioGraphAssumption DEF ChannelsTyped

LEMMA RunType ==
    ASSUME TypeOK, HandleStreamEvent \/ HandleDeviceEvent \/ TakeAnswer \/ Cancelled
    PROVE  TypeOK'
  <1>1. DispatchTypeOK /\ ServerTyped /\ ChannelsTyped /\ CacheTyped
    BY TypeParts
  <1>2. CASE HandleStreamEvent
    <2>1. DispatchTypeOK' /\ ServerTyped'
      BY <1>1, <1>2 DEF HandleStreamEvent, dispatchVars, server, DispatchTypeOK, ServerTyped
    <2>2. subs' \in Seq(Event) /\ Len(subs') <= SubDepth
      BY <1>1, <1>2, SubsShrink DEF HandleStreamEvent
    <2>3. known' \subseteq Ref /\ overtaken' \subseteq Ref
      BY <1>1, <1>2 DEF HandleStreamEvent, ChannelsTyped, CacheTyped
    <2>4. ChannelsTyped'
      BY <1>1, <1>2, <2>2, <2>3 DEF HandleStreamEvent, supervisor, ChannelsTyped
    <2>5. CacheTyped'
      BY <1>1, <1>2, <2>3 DEF HandleStreamEvent, resync, CacheTyped
    <2> QED BY <2>1, <2>4, <2>5, TypeParts
  <1>3. CASE HandleDeviceEvent
    <2>1. DispatchTypeOK'
      BY <1>1, <1>3, EnqueuesType DEF HandleDeviceEvent
    <2>2. ServerTyped' /\ CacheTyped'
      BY <1>1, <1>3 DEF HandleDeviceEvent, server, cache, resync, ServerTyped, CacheTyped
    <2>3. subs' \in Seq(Event) /\ Len(subs') <= SubDepth
      BY <1>1, <1>3, SubsShrink DEF HandleDeviceEvent
    <2>4. doubt' \subseteq Things
      BY <1>1, <1>3 DEF HandleDeviceEvent, ChannelsTyped
    <2>5. ChannelsTyped'
      BY <1>1, <1>3, <2>3, <2>4 DEF HandleDeviceEvent, supervisor, ChannelsTyped
    <2> QED BY <2>1, <2>2, <2>5, TypeParts
  <1>4. CASE TakeAnswer
    <2>1. DispatchTypeOK'
      BY <1>1, <1>4, EnqueuesType DEF TakeAnswer
    <2>2. ServerTyped' /\ ChannelsTyped'
      BY <1>1, <1>4 DEF TakeAnswer, server, supervisor, history, ServerTyped, ChannelsTyped
    <2>3. /\ Head(streamsCh) \in StreamsResult /\ Tail(streamsCh) \in Seq(StreamsResult)
          /\ Len(Tail(streamsCh)) <= 1
      BY <1>1, <1>4 DEF TakeAnswer, CacheTyped
    <2>4. known' \subseteq Ref /\ knownDefault' \in Device \cup {NoDevice}
      BY <1>4, <2>3 DEF TakeAnswer, StreamsResult
    <2>5. CacheTyped'
      BY <1>1, <1>4, <2>3, <2>4 DEF TakeAnswer, CacheTyped
    <2> QED BY <2>1, <2>2, <2>5, TypeParts
  <1>5. CASE Cancelled
    <2>1. DispatchTypeOK' /\ ServerTyped' /\ CacheTyped'
      BY <1>1, <1>5 DEF Cancelled, dispatchVars, server, cache, resync, DispatchTypeOK,
                        ServerTyped, CacheTyped
    <2>2. ChannelsTyped'
      BY <1>1, <1>5 DEF Cancelled, supervisor, history, ChannelsTyped
    <2> QED BY <2>1, <2>2, TypeParts
  <1> QED BY <1>2, <1>3, <1>4, <1>5
LEMMA EndResyncType ==
    ASSUME DispatchTypeOK, batch # <<>>, EndResync
    PROVE  DispatchTypeOK'
  <1>1. Tail(batch) \in Seq(Work)
    BY DEF DispatchTypeOK
  <1> QED BY <1>1 DEF EndResync, DispatchTypeOK

LEMMA EndResyncRest ==
    ASSUME ServerTyped, ChannelsTyped, CacheTyped, EndResync,
           doubt' \in {doubt, Things}, streamsCh' \in {streamsCh, <<answer>>}
    PROVE  ServerTyped' /\ ChannelsTyped' /\ CacheTyped'
  <1>1. ServerTyped'
    BY DEF EndResync, server, ServerTyped
  <1>2. ChannelsTyped'
    <2>1. doubt' \subseteq Things
      BY DEF ChannelsTyped
    <2> QED BY <2>1 DEF EndResync, supervisor, ChannelsTyped
  <1>3. CacheTyped'
    <2>1. <<answer>> \in Seq(StreamsResult) /\ Len(<<answer>>) <= 1
      BY DEF CacheTyped
    <2>2. streamsCh' \in Seq(StreamsResult) /\ Len(streamsCh') <= 1
      BY <2>1 DEF CacheTyped
    <2> QED BY <2>2 DEF EndResync, cache, CacheTyped, Asking
  <1> QED BY <1>1, <1>2, <1>3

(* An answer is on its way only while a resync is being executed.          *)
AsksForBatch == asking # "no" => AtResync

LEMMA DispatchesType ==
    ASSUME TypeOK, AsksForBatch, Dispatches
    PROVE  TypeOK'
  <1>1. DispatchTypeOK /\ ServerTyped /\ ChannelsTyped /\ CacheTyped
    BY TypeParts
  <1>2. CASE Works
    <2>1. DispatchTypeOK'
      BY <1>1, <1>2, DispatcherTyped DEF Works
    <2>2. ServerTyped' /\ CacheTyped'
      BY <1>1, <1>2 DEF Works, server, cache, resync, ServerTyped, CacheTyped
    <2>3. ChannelsTyped'
      BY <1>1, <1>2 DEF Works, supervisor, history, ChannelsTyped
    <2> QED BY <2>1, <2>2, <2>3, TypeParts
  <1>3. CASE ReadDevices
    <2>1. DispatchTypeOK' /\ ServerTyped'
      BY <1>1, <1>3 DEF ReadDevices, dispatchVars, server, DispatchTypeOK, ServerTyped
    <2>2. answer' \in StreamsResult /\ asking' \in Asking
      BY <1>1, <1>3 DEF ReadDevices, CacheTyped, ServerTyped, StreamsResult, Asking
    <2>3. CacheTyped'
      BY <1>1, <1>3, <2>2 DEF ReadDevices, cache, CacheTyped
    <2>4. ChannelsTyped'
      BY <1>1, <1>3 DEF ReadDevices, supervisor, ChannelsTyped
    <2> QED BY <2>1, <2>3, <2>4, TypeParts
  <1>4. CASE ReadStreams
    <2>1. DispatchTypeOK' /\ ServerTyped'
      BY <1>1, <1>4 DEF ReadStreams, dispatchVars, server, DispatchTypeOK, ServerTyped
    <2>2. answer' \in StreamsResult /\ asking' \in Asking
      BY <1>1, <1>4 DEF ReadStreams, CacheTyped, ServerTyped, StreamsResult, Asking
    <2>3. CacheTyped'
      BY <1>1, <1>4, <2>2 DEF ReadStreams, cache, CacheTyped
    <2>4. ChannelsTyped'
      BY <1>1, <1>4 DEF ReadStreams, supervisor, ChannelsTyped
    <2> QED BY <2>1, <2>3, <2>4, TypeParts
  <1>5. CASE ResyncFails
    <2>1. /\ batch # <<>> /\ EndResync
          /\ doubt' \in {doubt, Things} /\ streamsCh' \in {streamsCh, <<answer>>}
      BY <1>5 DEF ResyncFails, AtResync
    <2> QED BY <1>1, <2>1, EndResyncType, EndResyncRest, TypeParts
  <1>6. CASE Answers \/ AnswerDropped
    <2>1. /\ batch # <<>> /\ EndResync
          /\ doubt' \in {doubt, Things} /\ streamsCh' \in {streamsCh, <<answer>>}
      BY <1>6 DEF Answers, AnswerDropped, AtResync, AsksForBatch
    <2> QED BY <1>1, <2>1, EndResyncType, EndResyncRest, TypeParts
  <1> QED BY <1>2, <1>3, <1>4, <1>5, <1>6 DEF Dispatches

LEMMA AsksForBatchKept ==
    ASSUME TypeOK, AsksForBatch, [Next]_graphVars
    PROVE  AsksForBatch'
  <1>1. CASE Works
    BY <1>1 DEF Works, resync, AsksForBatch
  <1>2. CASE ReadDevices \/ ReadStreams
    BY <1>2 DEF ReadDevices, ReadStreams, dispatchVars, AsksForBatch, AtResync
  <1>3. CASE ResyncFails \/ Answers \/ AnswerDropped
    BY <1>3 DEF ResyncFails, Answers, AnswerDropped, EndResync, AsksForBatch
  <1>4. CASE UNCHANGED <<batch, asking>>
    BY <1>4 DEF AsksForBatch, AtResync
  <1>5. CASE TakeAnswer
    BY <1>5 DEF TakeAnswer, AsksForBatch, AtResync
  <1>6. ASSUME NEW r \in Ref, StreamAppears(r) \/ StreamExits(r) PROVE UNCHANGED <<batch, asking>>
    BY <1>6 DEF StreamAppears, StreamExits, Changes, dispatchVars, resync
  <1>7. ASSUME NEW d \in Device, DefaultMoves(d) PROVE UNCHANGED <<batch, asking>>
    BY <1>7 DEF DefaultMoves, Changes, dispatchVars, resync
  <1>8. ASSUME NEW restarts \in BOOLEAN, Breaks(restarts) PROVE UNCHANGED <<batch, asking>>
    BY <1>8 DEF Breaks, dispatchVars, resync
  <1>9. ASSUME NEW fails \in BOOLEAN, HandleNote(fails) PROVE UNCHANGED <<batch, asking>>
    BY <1>9 DEF HandleNote, dispatchVars, resync
  <1>10. Connects \/ SetBackend \/ Pump \/ ClearBackend => UNCHANGED <<batch, asking>>
    BY DEF Connects, SetBackend, Pump, ClearBackend, dispatchVars, resync
  <1>11. HandleStreamEvent \/ HandleDeviceEvent \/ Cancelled => UNCHANGED <<batch, asking>>
    BY DEF HandleStreamEvent, HandleDeviceEvent, Cancelled, dispatchVars, resync
  <1>12. UNCHANGED graphVars => UNCHANGED <<batch, asking>>
    BY DEF graphVars, dispatchVars, resync
  <1> QED BY <1>1, <1>2, <1>3, <1>4, <1>5, <1>6, <1>7, <1>8, <1>9, <1>10, <1>11, <1>12
          DEF Next, Dispatches

LEMMA TypesKept ==
    ASSUME TypeOK, AsksForBatch, [Next]_graphVars
    PROVE  TypeOK'
  <1>1. CASE UNCHANGED graphVars
    <2>1. DispatchTypeOK' <=> DispatchTypeOK
      BY <1>1 DEF graphVars, dispatchVars, DispatchTypeOK
    <2>2. (ServerTyped' <=> ServerTyped) /\ (CacheTyped' <=> CacheTyped)
      BY <1>1 DEF graphVars, server, cache, resync, ServerTyped, CacheTyped
    <2>3. ChannelsTyped' <=> ChannelsTyped
      BY <1>1 DEF graphVars, supervisor, history, ChannelsTyped
    <2> QED BY <2>1, <2>2, <2>3, TypeParts
  <1>2. ASSUME NEW fails \in BOOLEAN, HandleNote(fails) PROVE TypeOK'
    BY <1>2, HandleNoteType
  <1> QED BY <1>1, <1>2, ServerType, LinkType, RunType, DispatchesType DEF Next

(* Channels, queues and the cache hold what they may hold, and no more     *)
(* than their depth allows.                                                *)
THEOREM GraphTyped == Spec => []TypeOK
  <1> DEFINE Inv == TypeOK /\ AsksForBatch
  <1>1. Init => Inv
    BY GraphStarts DEF Init, AsksForBatch
  <1>2. Inv /\ [Next]_graphVars => Inv'
    BY TypesKept, AsksForBatchKept
  <1>3. Inv => TypeOK
    OBVIOUS
  <1> HIDE DEF Inv
  <1> QED BY <1>1, <1>2, <1>3, PTL DEF Spec

-----------------------------------------------------------------------------
(* What the events of a channel tell *)

(* An event of the things in W is still to come. *)
Mentions(W, s) == \E i \in DOMAIN s : s[i].what \in W

(* The events that make known whether x is there. *)
About(x) == {x, "resync"}

(* An event tells that a stream is there when it is one of those there are, *)
(* or has all be asked.                                                     *)
IsTrue(S, e) == e.what = "resync" \/ (e.there <=> e.what \in S)

(* The last event about x is true, if there is one. *)
LastTrue(x, S, s) ==
    \A i \in DOMAIN s :
        /\ s[i].what \in About(x)
        /\ \A j \in DOMAIN s : j > i => s[j].what \notin About(x)
        => IsTrue(S, s[i])

LEMMA MentionsAppend ==
    ASSUME NEW s \in Seq(Event), NEW e \in Event, NEW W
    PROVE  Mentions(W, Append(s, e)) <=> Mentions(W, s) \/ e.what \in W
  <1> DEFINE l == Append(s, e)
  <1>1. /\ DOMAIN s = 1..Len(s) /\ DOMAIN l = 1..(Len(s) + 1) /\ Len(s) \in Nat
        /\ l[Len(s) + 1] = e /\ \A i \in 1..Len(s) : l[i] = s[i]
    OBVIOUS
  <1> HIDE DEF l
  <1>2. ASSUME Mentions(W, s) PROVE Mentions(W, l)
    BY <1>1, <1>2 DEF Mentions
  <1>3. ASSUME e.what \in W PROVE Mentions(W, l)
    <2>1. Len(s) + 1 \in DOMAIN l
      BY <1>1
    <2> QED BY <1>1, <1>3, <2>1 DEF Mentions
  <1>4. ASSUME Mentions(W, l) PROVE Mentions(W, s) \/ e.what \in W
    <2>1. PICK i \in DOMAIN l : l[i].what \in W
      BY <1>4 DEF Mentions
    <2>2. CASE i = Len(s) + 1
      BY <1>1, <2>1, <2>2
    <2>3. CASE i # Len(s) + 1
      <3>1. i \in 1..Len(s)
        BY <1>1, <2>3
      <3> QED BY <1>1, <2>1, <3>1 DEF Mentions
    <2> QED BY <2>2, <2>3
  <1> QED BY <1>2, <1>3, <1>4 DEF l

LEMMA MentionsTail ==
    ASSUME NEW s \in Seq(Event), s # <<>>, NEW W
    PROVE  Mentions(W, s) <=> Head(s).what \in W \/ Mentions(W, Tail(s))
  <1> DEFINE t == Tail(s)
  <1>1. /\ DOMAIN s = 1..Len(s) /\ DOMAIN t = 1..Len(t) /\ Len(t) = Len(s) - 1
        /\ Len(s) \in Nat \ {0} /\ Head(s) = s[1]
    OBVIOUS
  <1>2. \A i \in 1..Len(t) : t[i] = s[i + 1]
    BY HeadTailProperties
  <1> HIDE DEF t
  <1>3. ASSUME Mentions(W, t) PROVE Mentions(W, s)
    <2>1. PICK i \in 1..Len(t) : t[i].what \in W
      BY <1>1, <1>3 DEF Mentions
    <2>2. i + 1 \in DOMAIN s /\ s[i + 1].what \in W
      BY <1>1, <1>2, <2>1
    <2> QED BY <2>2 DEF Mentions
  <1>4. ASSUME Head(s).what \in W PROVE Mentions(W, s)
    <2>1. 1 \in DOMAIN s
      BY <1>1
    <2> QED BY <1>1, <1>4, <2>1 DEF Mentions
  <1>5. ASSUME Mentions(W, s) PROVE Head(s).what \in W \/ Mentions(W, t)
    <2>1. PICK i \in 1..Len(s) : s[i].what \in W
      BY <1>1, <1>5 DEF Mentions
    <2>2. CASE i = 1
      BY <1>1, <2>1, <2>2
    <2>3. CASE i # 1
      <3>1. i - 1 \in 1..Len(t) /\ i = (i - 1) + 1
        BY <1>1, <2>3
      <3>2. t[i - 1] = s[i]
        BY <1>2, <3>1
      <3> QED BY <1>1, <2>1, <3>1, <3>2 DEF Mentions
    <2> QED BY <2>2, <2>3
  <1> QED BY <1>3, <1>4, <1>5 DEF t

LEMMA LastTrueAppend ==
    ASSUME NEW s \in Seq(Event), NEW e \in Event, NEW x, NEW S,
           IF e.what \in About(x) THEN IsTrue(S, e) ELSE LastTrue(x, S, s)
    PROVE  LastTrue(x, S, Append(s, e))
  <1> DEFINE l == Append(s, e)
  <1>1. /\ DOMAIN s = 1..Len(s) /\ DOMAIN l = 1..(Len(s) + 1) /\ Len(s) \in Nat
        /\ l[Len(s) + 1] = e /\ \A i \in 1..Len(s) : l[i] = s[i]
    OBVIOUS
  <1> HIDE DEF l
  <1>2. SUFFICES ASSUME NEW i \in DOMAIN l, l[i].what \in About(x),
                        \A j \in DOMAIN l : j > i => l[j].what \notin About(x)
                 PROVE  IsTrue(S, l[i])
    BY DEF LastTrue, l
  <1>3. CASE e.what \in About(x)
    <2>1. ~ (Len(s) + 1 > i)
      BY <1>1, <1>2, <1>3
    <2>2. i = Len(s) + 1
      BY <1>1, <2>1
    <2> QED BY <1>1, <1>3, <2>2
  <1>4. CASE e.what \notin About(x)
    <2>1. i \in 1..Len(s)
      BY <1>1, <1>2, <1>4
    <2>2. \A j \in DOMAIN s : j > i => s[j].what \notin About(x)
      BY <1>1, <1>2
    <2> QED BY <1>1, <1>2, <1>4, <2>1, <2>2 DEF LastTrue
  <1> QED BY <1>3, <1>4

LEMMA LastTrueTail ==
    ASSUME NEW s \in Seq(Event), s # <<>>, NEW x, NEW S, LastTrue(x, S, s)
    PROVE  /\ LastTrue(x, S, Tail(s))
           /\ Head(s).what \in About(x) /\ ~Mentions(About(x), Tail(s)) =>
                 IsTrue(S, Head(s))
  <1> DEFINE t == Tail(s)
  <1>1. /\ DOMAIN s = 1..Len(s) /\ DOMAIN t = 1..Len(t) /\ Len(t) = Len(s) - 1
        /\ Len(s) \in Nat \ {0} /\ Head(s) = s[1]
    OBVIOUS
  <1>2. \A i \in 1..Len(t) : t[i] = s[i + 1]
    BY HeadTailProperties
  <1> HIDE DEF t
  <1>3. ASSUME NEW i \in DOMAIN t, t[i].what \in About(x),
               \A j \in DOMAIN t : j > i => t[j].what \notin About(x)
        PROVE  IsTrue(S, t[i])
    <2>1. i + 1 \in DOMAIN s /\ s[i + 1].what \in About(x) /\ i \in 1..Len(t)
      BY <1>1, <1>2, <1>3
    <2>2. ASSUME NEW j \in DOMAIN s, j > i + 1 PROVE s[j].what \notin About(x)
      <3>1. j - 1 \in DOMAIN t /\ j - 1 > i /\ (j - 1) + 1 = j
        BY <1>1, <2>1, <2>2
      <3>2. t[j - 1] = s[j]
        BY <1>1, <1>2, <3>1
      <3> QED BY <1>3, <3>1, <3>2
    <2>3. IsTrue(S, s[i + 1])
      BY <2>1, <2>2 DEF LastTrue
    <2> QED BY <1>2, <2>1, <2>3
  <1>4. ASSUME Head(s).what \in About(x), ~Mentions(About(x), t)
        PROVE  IsTrue(S, Head(s))
    <2>1. 1 \in DOMAIN s /\ s[1].what \in About(x)
      BY <1>1, <1>4
    <2>2. ASSUME NEW j \in DOMAIN s, j > 1 PROVE s[j].what \notin About(x)
      <3>1. j - 1 \in DOMAIN t /\ (j - 1) + 1 = j
        BY <1>1, <2>2
      <3>2. t[j - 1] = s[j]
        BY <1>1, <1>2, <3>1
      <3> QED BY <1>4, <3>1, <3>2 DEF Mentions
    <2> QED BY <1>1, <2>1, <2>2 DEF LastTrue
  <1>5. LastTrue(x, S, t)
    BY <1>3 DEF LastTrue
  <1> QED BY <1>4, <1>5 DEF t

LEMMA NothingTold ==
    ASSUME NEW x, NEW S, NEW W
    PROVE  LastTrue(x, S, <<>>) /\ ~Mentions(W, <<>>)
  BY DEF LastTrue, Mentions

(* An event that passes is still to come, or what it tells of is in doubt. *)
LEMMA PassesTells ==
    ASSUME NEW ch \in Seq(Event), NEW e \in Event, NEW next, Passes(ch, next, e),
           NEW x \in Things, NEW S
    PROVE  /\ Mentions(About(x), ch) => Mentions(About(x), next)
           /\ e.what \in About(x) => Mentions(About(x), next) \/ x \in doubt'
           /\ (IF e.what \in About(x) THEN IsTrue(S, e) ELSE LastTrue(x, S, ch)) =>
                 LastTrue(x, S, next) \/ x \in doubt'
  <1>1. CASE next = Append(ch, e)
    <2>1. Mentions(About(x), next) <=> Mentions(About(x), ch) \/ e.what \in About(x)
      BY <1>1, MentionsAppend
    <2>2. (IF e.what \in About(x) THEN IsTrue(S, e) ELSE LastTrue(x, S, ch)) =>
             LastTrue(x, S, next)
      BY <1>1, LastTrueAppend
    <2> QED BY <2>1, <2>2
  <1>2. CASE /\ next = ch
             /\ e.what = "resync" => doubt' = Things
             /\ e.what \in Things => e.what \in doubt'
    <2>1. e.what \in About(x) => x \in doubt'
      BY <1>2 DEF About
    <2> QED BY <1>2, <2>1
  <1> QED BY <1>1, <1>2 DEF Passes
-----------------------------------------------------------------------------
(* The resync that waits *)

Asks == {Resync, Refresh}

LEMMA RangeConcat ==
    ASSUME NEW K, NEW s \in Seq(K), NEW t \in Seq(K)
    PROVE  Range(s \o t) = Range(s) \cup Range(t)
  <1> DEFINE l == s \o t
  <1>1. /\ Len(l) = Len(s) + Len(t) /\ Len(s) \in Nat /\ Len(t) \in Nat
        /\ DOMAIN l = 1..(Len(s) + Len(t)) /\ DOMAIN s = 1..Len(s) /\ DOMAIN t = 1..Len(t)
    OBVIOUS
  <1>2. \A i \in 1..(Len(s) + Len(t)) : l[i] = IF i <= Len(s) THEN s[i] ELSE t[i - Len(s)]
    BY ConcatProperties
  <1> HIDE DEF l
  <1>3. ASSUME NEW v \in Range(l) PROVE v \in Range(s) \cup Range(t)
    <2>1. PICK i \in 1..(Len(s) + Len(t)) : l[i] = v
      BY <1>1, <1>3 DEF Range
    <2>2. CASE i <= Len(s)
      <3>1. i \in DOMAIN s /\ s[i] = v
        BY <1>1, <1>2, <2>1, <2>2
      <3> QED BY <3>1 DEF Range
    <2>3. CASE i > Len(s)
      <3>1. i - Len(s) \in DOMAIN t /\ t[i - Len(s)] = v
        BY <1>1, <1>2, <2>1, <2>3
      <3> QED BY <3>1 DEF Range
    <2> QED BY <1>1, <2>1, <2>2, <2>3
  <1>4. ASSUME NEW v \in Range(s) PROVE v \in Range(l)
    <2>1. PICK i \in 1..Len(s) : s[i] = v
      BY <1>1, <1>4 DEF Range
    <2>2. i \in DOMAIN l /\ l[i] = v
      BY <1>1, <1>2, <2>1
    <2> QED BY <2>2 DEF Range
  <1>5. ASSUME NEW v \in Range(t) PROVE v \in Range(l)
    <2>1. PICK i \in 1..Len(t) : t[i] = v
      BY <1>1, <1>5 DEF Range
    <2>2. Len(s) + i \in DOMAIN l /\ ~ (Len(s) + i <= Len(s)) /\ (Len(s) + i) - Len(s) = i
      BY <1>1, <2>1
    <2>3. l[Len(s) + i] = v
      BY <1>1, <1>2, <2>1, <2>2
    <2> QED BY <2>2, <2>3 DEF Range
  <1> QED BY <1>3, <1>4, <1>5 DEF l

LEMMA RangeAppend ==
    ASSUME NEW K, NEW s \in Seq(K), NEW w \in K
    PROVE  Range(Append(s, w)) = Range(s) \cup {w}
  <1> DEFINE one == <<w>>
  <1>1. Append(s, w) = s \o one /\ one \in Seq(K)
    OBVIOUS
  <1>2. Range(one) = {w}
    BY DEF Range
  <1> HIDE DEF one
  <1> QED BY <1>1, <1>2, RangeConcat

LEMMA RangeTail ==
    ASSUME NEW K, NEW s \in Seq(K), s # <<>>
    PROVE  Range(s) = {Head(s)} \cup Range(Tail(s))
  <1> DEFINE one == <<Head(s)>>
             rest == Tail(s)
  <1>1. Head(s) \in K /\ rest \in Seq(K) /\ s = one \o rest
    OBVIOUS
  <1>2. one \in Seq(K) /\ Range(one) = {Head(s)}
    BY <1>1 DEF Range
  <1> HIDE DEF one, rest
  <1>3. Range(one \o rest) = Range(one) \cup Range(rest)
    BY <1>1, <1>2, RangeConcat
  <1> QED BY <1>1, <1>2, <1>3 DEF rest

(* Resyncs and refreshes are not merged. *)
LEMMA AsksStay == ASSUME NEW items \in Seq(Asks) PROVE Coalesced(items) = items
  <1> DEFINE n == Len(items)
  <1>1. \A v \in Asks, w \in Asks : ~Mergeable(v, w)
    BY NoInvocations DEF Asks, Mergeable
  <1>2. MergesWithin(Asks)
    BY <1>1 DEF MergesWithin
  <1>3. PICK done \in [0..n -> Seq(Asks)] :
           /\ done[0] = <<>>
           /\ \A k \in 1..n : done[k] = Added(done[k-1], items[k])
           /\ Coalesced(items) = done[n]
    BY <1>2, Coalesces
  <1>4. n \in Nat /\ items \in Seq(Asks) /\ \A k \in 1..n : items[k] \in Asks
    OBVIOUS
  <1>5. SubSeq(items, 1, 0) = <<>> /\ SubSeq(items, 1, n) = items
    OBVIOUS
  <1>6. \A k \in 1..n : SubSeq(items, 1, k) = Append(SubSeq(items, 1, k - 1), items[k])
    OBVIOUS
  <1> HIDE DEF n
  <1> DEFINE S == {k \in 0..n : done[k] = SubSeq(items, 1, k)}
  <1>7. 0 \in S
    BY <1>3, <1>4, <1>5
  <1>8. ASSUME NEW k \in 1..n, k - 1 \in S PROVE k \in S
    <2>1. /\ k \in 0..n /\ k - 1 \in 0..n /\ items[k] \in Asks
          /\ done[k-1] \in Seq(Asks) /\ done[k-1] = SubSeq(items, 1, k - 1)
      BY <1>3, <1>4, <1>8
    <2>2. done[k-1] # <<>> => ~Mergeable(Last(done[k-1]), items[k])
      BY <1>1, <2>1, FrontAndLast
    <2>3. done[k] = Append(done[k-1], items[k])
      BY <1>3, <2>2 DEF Added
    <2> QED BY <1>6, <2>1, <2>3
  <1>9. n \in S
    <2> HIDE DEF S
    <2>1. 0..n \subseteq S
      BY <1>4, <1>7, <1>8, UpTo
    <2> QED BY <1>4, <2>1
  <1> QED BY <1>3, <1>5, <1>9
LEMMA WaitsFor ==
    ASSUME NEW q \in Seq(Asks), NEW d \in Seq(Asks), NEW b \in Seq(Asks)
    PROVE  Range(q \o d \o b) = Range(q) \cup Range(d) \cup Range(b)
  <1> DEFINE l == q \o d
  <1>1. l \in Seq(Asks) /\ Range(l) = Range(q) \cup Range(d)
    BY RangeConcat
  <1> HIDE DEF l
  <1>2. Range(l \o b) = Range(l) \cup Range(b)
    BY <1>1, RangeConcat
  <1> QED BY <1>1, <1>2 DEF l

(* Only resyncs and refreshes are asked for.                               *)
AsksOnly == queue \in Seq(Asks) /\ drained \in Seq(Asks) /\ batch \in Seq(Asks)

Coming == IF asking = "no" THEN batch ELSE Tail(batch)

LEMMA WaitsIs ==
    AsksOnly /\ AsksForBatch =>
        (ResyncWaits <=> Resync \in Range(queue) \cup Range(drained) \cup Range(Coming))
  <1> SUFFICES ASSUME AsksOnly, AsksForBatch
               PROVE  ResyncWaits <=> Resync \in Range(queue) \cup Range(drained) \cup Range(Coming)
    OBVIOUS
  <1>1. Coming \in Seq(Asks)
    BY DEF AsksOnly, AsksForBatch, AtResync, Coming
  <1>2. ResyncWaits <=> Resync \in Range(queue \o drained \o Coming)
    BY DEF ResyncWaits, Coming
  <1> QED BY <1>1, <1>2, WaitsFor DEF AsksOnly

LEMMA WaitsIsNext ==
    ASSUME AsksOnly', AsksForBatch'
    PROVE  ResyncWaits' <=> Resync \in Range(queue') \cup Range(drained') \cup Range(Coming')
  <1>1. Coming' \in Seq(Asks)
    BY DEF AsksOnly, AsksForBatch, AtResync, Coming
  <1>2. ResyncWaits' <=> Resync \in Range(queue' \o drained' \o Coming')
    BY DEF ResyncWaits, Coming
  <1> QED BY <1>1, <1>2, WaitsFor DEF AsksOnly

(* The dispatcher takes what is queued to the batch, and resyncs stay in   *)
(* it until they are executed.                                             *)
LEMMA WorksWaits ==
    ASSUME AsksOnly, AsksForBatch, Works
    PROVE  AsksOnly' /\ (ResyncWaits => ResyncWaits')
  <1>1. asking = "no" /\ asking' = "no"
    BY DEF Works, AsksForBatch, resync
  <1>2. ResyncWaits <=> Resync \in Range(queue) \cup Range(drained) \cup Range(batch)
    BY <1>1, WaitsIs DEF Coming
  <1>3. ASSUME AsksOnly'
        PROVE  ResyncWaits' <=> Resync \in Range(queue') \cup Range(drained') \cup Range(batch')
    <2>1. AsksForBatch'
      BY <1>1 DEF AsksForBatch
    <2> QED BY <1>1, <1>3, <2>1, WaitsIsNext DEF Coming
  <1>4. CASE Receive
    <2>1. /\ queue # <<>> /\ drained' = Append(drained, Head(queue)) /\ queue' = Tail(queue)
          /\ batch' = batch
      BY <1>4 DEF Receive
    <2>2. Head(queue) \in Asks /\ AsksOnly'
      BY <2>1 DEF AsksOnly
    <2>3. Range(queue) = {Head(queue)} \cup Range(queue')
      BY <2>1, RangeTail DEF AsksOnly
    <2>4. Range(drained') = Range(drained) \cup {Head(queue)}
      BY <2>1, <2>2, RangeAppend DEF AsksOnly
    <2> QED BY <1>2, <1>3, <2>1, <2>2, <2>3, <2>4
  <1>5. CASE Drained
    <2>1. drained' = <<>> /\ queue' = queue /\ batch = <<>> /\ batch' = drained
      BY <1>5, AsksStay DEF Drained, AsksOnly
    <2>2. AsksOnly'
      BY <2>1 DEF AsksOnly
    <2>3. Range(<<>>) = {}
      BY DEF Range
    <2> QED BY <1>2, <1>3, <2>1, <2>2, <2>3
  <1>6. CASE Executed
    <2>1. /\ batch # <<>> /\ Head(batch) # Resync /\ batch' = Tail(batch)
          /\ queue' = queue /\ drained' = drained
      BY <1>6 DEF Executed, Works, AtResync
    <2>2. AsksOnly'
      BY <2>1 DEF AsksOnly
    <2>3. Range(batch) = {Head(batch)} \cup Range(batch')
      BY <2>1, RangeTail DEF AsksOnly
    <2> QED BY <1>2, <1>3, <2>1, <2>2, <2>3
  <1> QED BY <1>4, <1>5, <1>6 DEF Works

(* What Run enqueues waits, unless the queue is full.                      *)
LEMMA EnqueuesWaits ==
    ASSUME AsksOnly, AsksForBatch, DispatchTypeOK, NEW w \in Asks, queue' \in {queue, Queued(w)},
           UNCHANGED <<drained, batch, asking>>
    PROVE  /\ AsksOnly' /\ AsksForBatch'
           /\ ResyncWaits => ResyncWaits'
           /\ queue' = Queued(Resync) /\ Len(queue) < QueueDepth => ResyncWaits'
  <1>1. AsksForBatch' /\ Coming' = Coming
    BY DEF AsksForBatch, AtResync, Coming
  <1>2. queue \in Seq(Asks) /\ Len(queue) <= QueueDepth
    BY DEF AsksOnly, DispatchTypeOK
  <1>3. AsksOnly'
    <2>1. Queued(w) \in Seq(Asks)
      BY <1>2, QueuedType
    <2> QED BY <2>1 DEF AsksOnly
  <1>4. Range(queue) \subseteq Range(queue')
    <2>1. queue' = queue \/ queue' = Append(queue, w)
      BY DEF Queued
    <2>2. Range(Append(queue, w)) = Range(queue) \cup {w}
      BY <1>2, RangeAppend
    <2> QED BY <2>1, <2>2
  <1>5. queue' = Queued(Resync) /\ Len(queue) < QueueDepth => Resync \in Range(queue')
    <2>1. Resync \in Asks
      BY DEF Asks
    <2> QED BY <1>2, <2>1, RangeAppend DEF Queued
  <1> QED BY <1>1, <1>3, <1>4, <1>5, WaitsIs, WaitsIsNext
-----------------------------------------------------------------------------
(* What Run knows of the graph *)

(* The supervisor uses a backend after its first connection, and has none  *)
(* only when everything of the last one was passed on.  Before the first   *)
(* connection the resync the engine starts with waits.                     *)
LinkParts ==
    /\ link = "inUse" => everConnected
    /\ link = "none" => ~broken /\ ~missed /\ notes = <<>> /\ feed = <<>>
    /\ ~everConnected => subs = <<>> /\ asking = "no" /\ (running => ResyncWaits)
    /\ missed => notes # <<>>

(* A stream whose end is noted has gone.                                   *)
NotesTrue ==
    broken \/ \A i \in DOMAIN notes :
                 notes[i].what \in Ref /\ ~notes[i].there => notes[i].what \in gone

(* What is known of x is in doubt, or a resync is sure to come.            *)
Excused(x) == x \in doubt \/ broken \/ missed

Reconnects == everConnected /\ link # "inUse"

(* A note that handleEvent will not keep to itself.                        *)
NoteComes(x) == \E i \in DOMAIN notes : notes[i].what = x /\ (notes[i].there => x \in alive)

(* The last event about x in a channel is true, unless a truer one comes.  *)
FeedTrue(x) == Excused(x) \/ NoteComes(x) \/ LastTrue(x, alive, feed)

SubsTrue(x) ==
    \/ Excused(x)
    \/ NoteComes(x)
    \/ Reconnects
    \/ Mentions(About(x), feed)
    \/ LastTrue(x, alive, subs)

(* Run will be told of x. *)
OnItsWay(x) ==
    \/ Excused(x)
    \/ Reconnects
    \/ Mentions(About(x), feed)
    \/ Mentions(About(x), subs)

Believes(x) == IF InTransit = <<>> THEN x \in known ELSE x \in Last(InTransit).streams

BelievesDefault ==
    IF asking # "no" THEN answer.default
    ELSE IF streamsCh # <<>> THEN Head(streamsCh).default
    ELSE knownDefault

StreamKnown(x) ==
    running =>
        \/ NoteComes(x)
        \/ OnItsWay(x)
        \/ ResyncWaits
        \/ asking = "devices"
        \/ x \in overtaken
        \/ (Believes(x) <=> x \in alive)

DefaultKnown ==
    running =>
        \/ Mentions(About("default"), notes)
        \/ OnItsWay("default")
        \/ ResyncWaits
        \/ BelievesDefault = default

StreamsKnown == \A x \in Ref : FeedTrue(x) /\ SubsTrue(x) /\ StreamKnown(x)

Knows == AsksOnly /\ LinkParts /\ NotesTrue /\ StreamsKnown /\ DefaultKnown

GraphInv == TypeOK /\ AsksForBatch /\ Knows

(* Nothing need be known while there is no connection or it is broken, and *)
(* while a resync is to follow the notes.                                  *)
Detached == link = "none" \/ broken \/ missed

LEMMA NothingKnown == LinkParts /\ Detached => StreamsKnown /\ DefaultKnown
  <1> SUFFICES ASSUME LinkParts, Detached PROVE StreamsKnown /\ DefaultKnown
    OBVIOUS
  <1>1. CASE broken \/ missed
    <2>1. \A x : Excused(x)
      BY <1>1 DEF Excused
    <2> QED BY <2>1 DEF StreamsKnown, DefaultKnown, FeedTrue, SubsTrue, StreamKnown, OnItsWay
  <1>2. CASE link = "none"
    <2>1. feed = <<>> /\ (Reconnects \/ (subs = <<>> /\ (running => ResyncWaits)))
      BY <1>2 DEF LinkParts, Reconnects
    <2>2. \A x : LastTrue(x, alive, feed) /\ (Reconnects \/ LastTrue(x, alive, subs))
      BY <2>1, NothingTold
    <2> QED BY <2>1, <2>2 DEF StreamsKnown, DefaultKnown, FeedTrue, SubsTrue, StreamKnown,
                              OnItsWay
  <1> QED BY <1>1, <1>2 DEF Detached

LEMMA NothingKnownNext == LinkParts' /\ Detached' => StreamsKnown' /\ DefaultKnown'
  BY NothingKnown, PTL

LEMMA KnowsNext ==
    ASSUME AsksOnly', LinkParts', NotesTrue',
           ~Detached' => StreamsKnown' /\ DefaultKnown'
    PROVE  Knows'
  BY NothingKnownNext DEF Knows

LEMMA LastTrueAlike ==
    ASSUME NEW x, NEW S, NEW T, x \in S <=> x \in T, NEW s, LastTrue(x, S, s)
    PROVE  LastTrue(x, T, s)
  <1> SUFFICES ASSUME NEW i \in DOMAIN s, s[i].what \in About(x),
                      \A j \in DOMAIN s : j > i => s[j].what \notin About(x)
               PROVE  IsTrue(T, s[i])
    BY DEF LastTrue
  <1>1. IsTrue(S, s[i])
    BY DEF LastTrue
  <1> QED BY <1>1 DEF IsTrue, About

(* Steps that leave the channels alone leave what they tell alone.         *)
LEMMA KeepsTelling ==
    ASSUME NEW x, UNCHANGED <<broken, feed, subs>>, missed => missed',
           Reconnects => Reconnects', x \in doubt => x \in doubt',
           x \in alive' <=> x \in alive, NoteComes(x) => NoteComes(x)'
    PROVE  /\ FeedTrue(x) => FeedTrue(x)'
           /\ SubsTrue(x) => SubsTrue(x)'
           /\ OnItsWay(x) => OnItsWay(x)'
  <1>1. Excused(x) => Excused(x)'
    BY DEF Excused
  <1>2. /\ LastTrue(x, alive, feed) => LastTrue(x, alive', feed')
        /\ LastTrue(x, alive, subs) => LastTrue(x, alive', subs')
    BY LastTrueAlike
  <1>3. /\ Mentions(About(x), feed) => Mentions(About(x), feed')
        /\ Mentions(About(x), subs) => Mentions(About(x), subs')
    OBVIOUS
  <1> QED BY <1>1, <1>2, <1>3 DEF FeedTrue, SubsTrue, OnItsWay

LEMMA KeepsAsking ==
    ASSUME UNCHANGED <<queue, drained, batch, asking>>
    PROVE  /\ AsksOnly => AsksOnly'
           /\ ResyncWaits' <=> ResyncWaits
  BY DEF AsksOnly, ResyncWaits

LEMMA KeepsAnswers ==
    ASSUME UNCHANGED <<known, knownDefault, asking, answer, streamsCh>>
    PROVE  /\ \A x : Believes(x)' <=> Believes(x)
           /\ BelievesDefault' = BelievesDefault /\ InTransit' = InTransit
  <1>1. InTransit' = InTransit
    BY DEF InTransit
  <1> QED BY <1>1 DEF Believes, BelievesDefault
LEMMA InvParts ==
    ASSUME GraphInv
    PROVE  /\ DispatchTypeOK /\ ServerTyped /\ ChannelsTyped /\ CacheTyped
           /\ AsksForBatch /\ AsksOnly /\ LinkParts /\ NotesTrue
           /\ \A x \in Ref : FeedTrue(x) /\ SubsTrue(x) /\ StreamKnown(x)
           /\ DefaultKnown
  BY TypeParts DEF GraphInv, Knows, StreamsKnown

LEMMA NotesGrow ==
    ASSUME ChannelsTyped, NEW note \in Event, Notes(note)
    PROVE  /\ notes' = notes \/ notes' = Append(notes, note)
           /\ missed => missed'
           /\ missed' => missed \/ notes' # <<>>
           /\ ~Subscribed => notes' = notes /\ (missed' <=> missed)
           /\ Subscribed /\ ~missed' => notes' = Append(notes, note)
  <1>1. notes \in Seq(Event) /\ Len(notes) \in Nat /\ HandoffDepth \in Nat \ {0}
    BY AudioGraphAssumption DEF ChannelsTyped
  <1>2. missed' <=> missed \/ (Subscribed /\ Len(notes) >= HandoffDepth)
    BY DEF Notes
  <1>3. notes' = IF Subscribed /\ Len(notes) < HandoffDepth THEN Append(notes, note) ELSE notes
    BY DEF Notes
  <1>4. Len(notes) >= HandoffDepth => notes # <<>>
    BY <1>1
  <1>5. Len(notes) < HandoffDepth \/ Len(notes) >= HandoffDepth
    BY <1>1
  <1>6. ~ (Len(notes) < HandoffDepth /\ Len(notes) >= HandoffDepth)
    BY <1>1
  <1> QED BY <1>2, <1>3, <1>4, <1>5, <1>6

(* A change that is noted as it should be. *)
LEMMA ChangesKnown ==
    ASSUME GraphInv, Changes, NEW note \in Event, Notes(note),
           gone \subseteq gone', note.what \in Ref /\ ~note.there => note.what \in gone',
           note.what \in Ref /\ note.there => note.what \in alive',
           \A x \in Ref : x # note.what => (x \in alive' <=> x \in alive),
           default' # default => note.what = "default"
    PROVE  Knows'
  <1>1. /\ ChannelsTyped /\ AsksOnly /\ LinkParts /\ NotesTrue
        /\ \A x \in Ref : FeedTrue(x) /\ SubsTrue(x) /\ StreamKnown(x)
        /\ DefaultKnown
    BY InvParts
  <1>2. /\ UNCHANGED <<queue, drained, batch, broken, link, everConnected, feed, subs>>
        /\ UNCHANGED <<known, knownDefault, asking, answer, streamsCh, running, doubt, overtaken>>
    BY DEF Changes, dispatchVars, supervisor, cache, resync, history
  <1>3. AsksOnly' /\ (ResyncWaits' <=> ResyncWaits)
    BY <1>1, <1>2, KeepsAsking
  <1>4. /\ notes' = notes \/ notes' = Append(notes, note)
        /\ missed => missed'
        /\ missed' => missed \/ notes' # <<>>
        /\ ~Subscribed => notes' = notes /\ (missed' <=> missed)
        /\ Subscribed /\ ~missed' => notes' = Append(notes, note)
    BY <1>1, NotesGrow
  <1>5. /\ DOMAIN notes = 1..Len(notes) /\ Len(notes) \in Nat
        /\ DOMAIN Append(notes, note) = 1..(Len(notes) + 1)
        /\ Append(notes, note)[Len(notes) + 1] = note
        /\ \A i \in 1..Len(notes) : Append(notes, note)[i] = notes[i]
    BY <1>1 DEF ChannelsTyped
  <1>6. notes # <<>> => notes' # <<>>
    BY <1>1, <1>4 DEF ChannelsTyped
  <1>7. LinkParts'
    <2>1. link = "none" => ~missed' /\ notes' = <<>>
      BY <1>1, <1>4 DEF LinkParts, Subscribed
    <2>2. missed' => notes' # <<>>
      BY <1>1, <1>4, <1>6 DEF LinkParts
    <2> QED BY <1>1, <1>2, <1>3, <2>1, <2>2 DEF LinkParts
  <1>8. NotesTrue'
    <2>1. SUFFICES ASSUME ~broken, NEW i \in DOMAIN notes', notes'[i].what \in Ref,
                          ~notes'[i].there
                   PROVE  notes'[i].what \in gone'
      BY <1>2 DEF NotesTrue
    <2>2. CASE i \in 1..Len(notes) /\ notes'[i] = notes[i]
      BY <1>1, <1>5, <2>1, <2>2 DEF NotesTrue
    <2>3. CASE notes'[i] = note
      BY <2>1, <2>3
    <2>4. (i \in 1..Len(notes) /\ notes'[i] = notes[i]) \/ notes'[i] = note
      BY <1>4, <1>5, <2>1
    <2> QED BY <2>2, <2>3, <2>4
  <1>9. ASSUME ~Detached' PROVE StreamsKnown' /\ DefaultKnown'
    <2>1. Subscribed /\ notes' = Append(notes, note)
      BY <1>2, <1>4, <1>9 DEF Detached, Subscribed
    <2>2. ASSUME NEW x, x \in alive' <=> x \in alive
          PROVE  NoteComes(x) => NoteComes(x)'
      BY <1>5, <2>1, <2>2 DEF NoteComes
    <2>3. ASSUME NEW x, NoteComes(x) => NoteComes(x)', x \in alive' <=> x \in alive
          PROVE  /\ FeedTrue(x) => FeedTrue(x)'
                 /\ SubsTrue(x) => SubsTrue(x)'
                 /\ OnItsWay(x) => OnItsWay(x)'
      <3>1. Reconnects => Reconnects'
        BY <1>2 DEF Reconnects
      <3> QED BY <1>2, <1>4, <2>3, <3>1, KeepsTelling
    <2>4. ASSUME NEW x \in Ref PROVE FeedTrue(x)' /\ SubsTrue(x)' /\ StreamKnown(x)'
      <3>1. CASE x = note.what
        <4>1. /\ Len(notes) + 1 \in DOMAIN notes' /\ notes'[Len(notes) + 1].what = x
              /\ notes'[Len(notes) + 1].there => x \in alive'
          BY <1>5, <2>1, <3>1
        <4>2. NoteComes(x)'
          BY <4>1 DEF NoteComes
        <4> QED BY <4>2 DEF FeedTrue, SubsTrue, StreamKnown
      <3>2. CASE x # note.what
        <4>1. x \in alive' <=> x \in alive
          BY <3>2
        <4>2. /\ FeedTrue(x)' /\ SubsTrue(x)'
              /\ OnItsWay(x) => OnItsWay(x)'
              /\ NoteComes(x) => NoteComes(x)'
          BY <1>1, <2>2, <2>3, <4>1
        <4>3. Believes(x)' <=> Believes(x)
          BY <1>2, KeepsAnswers
        <4>4. StreamKnown(x)
          BY <1>1
        <4>5. StreamKnown(x)'
          BY <1>2, <1>3, <4>1, <4>2, <4>3, <4>4 DEF StreamKnown
        <4> QED BY <4>2, <4>5
      <3> QED BY <3>1, <3>2
    <2>5. DefaultKnown'
      <3>1. /\ Mentions(About("default"), notes) => Mentions(About("default"), notes')
            /\ note.what = "default" => Mentions(About("default"), notes')
        BY <1>1, <2>1, MentionsAppend DEF About, ChannelsTyped
      <3>2. CASE note.what = "default"
        BY <3>1, <3>2 DEF DefaultKnown
      <3>3. CASE default' = default
        <4>1. OnItsWay("default") => OnItsWay("default")'
          <5>1. Excused("default") => Excused("default")'
            BY <1>2, <1>4 DEF Excused
          <5> QED BY <1>2, <5>1 DEF OnItsWay, Reconnects
        <4>2. BelievesDefault' = BelievesDefault
          BY <1>2, KeepsAnswers
        <4> QED BY <1>1, <1>2, <1>3, <3>1, <3>3, <4>1, <4>2 DEF DefaultKnown
      <3> QED BY <3>2, <3>3
    <2> QED BY <2>4, <2>5 DEF StreamsKnown
  <1> QED BY <1>3, <1>7, <1>8, <1>9, KnowsNext

LEMMA ServerKnown ==
    ASSUME GraphInv,
           \/ \E r \in Ref : StreamAppears(r) \/ StreamExits(r)
           \/ \E d \in Device : DefaultMoves(d)
           \/ \E restarts \in BOOLEAN : Breaks(restarts)
    PROVE  Knows'
  <1>1. ASSUME NEW r \in Ref, StreamAppears(r) PROVE Knows'
    <2>1. Tells(r, TRUE) \in Event /\ Tells(r, TRUE).what = r /\ Tells(r, TRUE).there = TRUE
      BY EventIs
    <2> QED BY <1>1, <2>1, ChangesKnown DEF StreamAppears
  <1>2. ASSUME NEW r \in Ref, StreamExits(r) PROVE Knows'
    <2>1. Tells(r, FALSE) \in Event /\ Tells(r, FALSE).what = r /\ Tells(r, FALSE).there = FALSE
      BY EventIs
    <2> QED BY <1>2, <2>1, ChangesKnown DEF StreamExits
  <1>3. ASSUME NEW d \in Device, DefaultMoves(d) PROVE Knows'
    <2>1. Tells("default", TRUE) \in Event /\ Tells("default", TRUE).what = "default"
      BY EventIs
    <2>2. "default" \notin Ref
      BY EventIs
    <2> QED BY <1>3, <2>1, <2>2, ChangesKnown DEF DefaultMoves
  <1>4. ASSUME NEW restarts \in BOOLEAN, Breaks(restarts) PROVE Knows'
    <2>1. AsksOnly /\ LinkParts /\ NotesTrue
      BY InvParts
    <2>2. /\ UNCHANGED <<queue, drained, batch, link, everConnected, feed, subs, notes, missed>>
          /\ UNCHANGED <<asking, running>> /\ broken' = TRUE /\ link # "none"
      BY <1>4 DEF Breaks, dispatchVars, supervisor, resync, Subscribed
    <2>3. AsksOnly' /\ (ResyncWaits' <=> ResyncWaits)
      BY <2>1, <2>2, KeepsAsking
    <2>4. LinkParts'
      BY <2>1, <2>2, <2>3 DEF LinkParts
    <2> QED BY <2>2, <2>3, <2>4, KnowsNext DEF NotesTrue, Detached
  <1> QED BY <1>1, <1>2, <1>3, <1>4
(* What handleEvent makes of the note and of those the handoff missed.     *)
LEMMA NoteTells ==
    ASSUME ChannelsTyped, NEW fails \in BOOLEAN, HandleNote(fails), NEW x \in Things, NEW S
    PROVE  LET note == Head(notes)
           IN  /\ Mentions(About(x), feed) \/ missed
                     \/ (Told(note, fails) /\ note.what \in About(x)) =>
                        Mentions(About(x), feed') \/ x \in doubt'
               /\ /\ Told(note, fails) /\ note.what \in About(x) => IsTrue(S, note)
                  /\ \/ LastTrue(x, S, feed)
                     \/ missed
                     \/ Told(note, fails) /\ note.what \in About(x)
                  => LastTrue(x, S, feed') \/ x \in doubt'
  <1> DEFINE note == Head(notes)
             told == Told(note, fails)
  <1>1. note \in Event /\ feed \in Seq(Event)
    BY NotePasses DEF ChannelsTyped
  <1>2. PICK next \in Seq(Event) :
           /\ IF told THEN Passes(feed, next, note) ELSE next = feed
           /\ IF missed THEN Passes(next, feed', EventResync) ELSE feed' = next
    BY NotePasses
  <1>3. EventResync \in Event /\ EventResync.what \in About(x) /\ IsTrue(S, EventResync)
    BY EventIs DEF About, IsTrue
  <1> HIDE DEF note, told
  <1>4. /\ Mentions(About(x), feed) \/ (told /\ note.what \in About(x)) =>
              Mentions(About(x), next) \/ x \in doubt'
        /\ /\ told /\ note.what \in About(x) => IsTrue(S, note)
           /\ LastTrue(x, S, feed) \/ (told /\ note.what \in About(x))
           => LastTrue(x, S, next) \/ x \in doubt'
    BY <1>1, <1>2, PassesTells
  <1>5. CASE missed
    <2>1. Passes(next, feed', EventResync)
      BY <1>2, <1>5
    <2>2. Mentions(About(x), feed') \/ x \in doubt'
      BY <1>3, <2>1, PassesTells
    <2>3. LastTrue(x, S, feed') \/ x \in doubt'
      BY <1>3, <2>1, PassesTells
    <2> QED BY <2>2, <2>3
  <1>6. CASE ~missed
    BY <1>2, <1>4, <1>6 DEF note, told
  <1> QED BY <1>5, <1>6

LEMMA HandleNoteKnown ==
    ASSUME GraphInv, NEW fails \in BOOLEAN, HandleNote(fails)
    PROVE  Knows'
  <1> DEFINE note == Head(notes)
             told == Told(note, fails)
  <1>1. /\ ServerTyped /\ ChannelsTyped /\ AsksOnly /\ LinkParts /\ NotesTrue
        /\ \A x \in Ref : FeedTrue(x) /\ SubsTrue(x) /\ StreamKnown(x)
        /\ DefaultKnown
    BY InvParts
  <1>2. /\ UNCHANGED <<queue, drained, batch, alive, gone, default, broken, link, everConnected>>
        /\ UNCHANGED <<subs, known, knownDefault, asking, answer, streamsCh, running, overtaken>>
    BY DEF HandleNote, dispatchVars, server, supervisor, cache, resync
  <1>3. AsksOnly' /\ (ResyncWaits' <=> ResyncWaits)
    BY <1>1, <1>2, KeepsAsking
  <1>4. /\ notes # <<>> /\ note \in Event /\ notes' = Tail(notes) /\ missed' = FALSE
        /\ doubt \subseteq doubt' /\ (fails => note.what \in doubt')
    BY <1>1, NotePasses
  <1>5. /\ notes \in Seq(Event) /\ Len(notes) \in Nat \ {0} /\ DOMAIN notes = 1..Len(notes)
        /\ DOMAIN notes' = 1..(Len(notes) - 1) /\ note = notes[1] /\ 1 \in DOMAIN notes
    BY <1>1, <1>4 DEF ChannelsTyped
  <1>6. \A i \in 1..(Len(notes) - 1) : i + 1 \in DOMAIN notes /\ notes'[i] = notes[i + 1]
    BY <1>4, <1>5, HeadTailProperties
  <1>7. LinkParts'
    <2>1. link # "none"
      BY <1>1, <1>4 DEF LinkParts
    <2> QED BY <1>1, <1>2, <1>3, <1>4, <2>1 DEF LinkParts
  <1>8. NotesTrue'
    BY <1>1, <1>2, <1>5, <1>6 DEF NotesTrue
  <1>9. ASSUME ~Detached' PROVE StreamsKnown' /\ DefaultKnown'
    <2>1. ~broken
      BY <1>2, <1>9 DEF Detached
    <2>2. ASSUME NEW x \in Ref, told, note.what = x PROVE note.there <=> x \in alive
      <3>1. CASE note.there
        BY <2>2, <3>1 DEF Told
      <3>2. CASE ~note.there
        <4>1. x \in gone
          BY <1>1, <1>5, <2>1, <2>2, <3>2 DEF NotesTrue
        <4> QED BY <1>1, <3>2, <4>1 DEF ServerTyped
      <3> QED BY <3>1, <3>2
    <2>3. ASSUME NEW x \in Ref, told, note.what \in About(x) PROVE IsTrue(alive, note)
      BY <2>2, <2>3 DEF About, IsTrue
    <2>4. ASSUME NEW x \in Ref, note.what = x, note.there => x \in alive
          PROVE  told \/ x \in doubt'
      BY <1>4, <2>1, <2>4 DEF Told
    <2>5. ASSUME NEW x, NoteComes(x)
          PROVE  NoteComes(x)' \/ (note.what = x /\ (note.there => x \in alive))
      <3>1. PICK i \in 1..Len(notes) : notes[i].what = x /\ (notes[i].there => x \in alive)
        BY <1>5, <2>5 DEF NoteComes
      <3>2. CASE i = 1
        BY <1>5, <3>1, <3>2
      <3>3. CASE i # 1
        <4>1. i - 1 \in 1..(Len(notes) - 1) /\ (i - 1) + 1 = i
          BY <1>5, <3>3
        <4>2. notes'[i - 1] = notes[i]
          BY <1>6, <4>1
        <4> QED BY <1>2, <1>5, <3>1, <4>1, <4>2 DEF NoteComes
      <3> QED BY <3>2, <3>3
    <2> HIDE DEF note, told
    <2>6. ASSUME NEW x \in Things
          PROVE  Mentions(About(x), feed) \/ missed \/ (told /\ note.what \in About(x)) =>
                    Mentions(About(x), feed') \/ x \in doubt'
      BY <1>1, NoteTells DEF note, told
    <2>7. \A x : x \in doubt' => Excused(x)'
      BY DEF Excused
    <2>8. \A x : Excused(x) => missed \/ Excused(x)'
      BY <1>2, <1>4 DEF Excused
    <2>9. ASSUME NEW x \in Things
          PROVE  OnItsWay(x) => OnItsWay(x)'
      BY <1>2, <2>6, <2>7, <2>8 DEF OnItsWay, Reconnects
    <2>10. ASSUME NEW x \in Ref
           PROVE  FeedTrue(x)' /\ SubsTrue(x)' /\ StreamKnown(x)'
      <3>1. x \in Things /\ x \in About(x)
        BY EventIs DEF About
      <3>2. NoteComes(x) => \/ NoteComes(x)'
                            \/ x \in doubt'
                            \/ told /\ note.what \in About(x)
        BY <2>4, <2>5, <3>1
      <3>3. /\ told /\ note.what \in About(x) => IsTrue(alive, note)
            /\ \/ LastTrue(x, alive, feed)
               \/ missed
               \/ told /\ note.what \in About(x)
            => LastTrue(x, alive, feed') \/ x \in doubt'
        BY <1>1, <3>1, NoteTells DEF note, told
      <3>4. FeedTrue(x)'
        BY <1>1, <1>2, <2>3, <2>7, <2>8, <3>2, <3>3 DEF FeedTrue
      <3>5. SubsTrue(x)'
        BY <1>1, <1>2, <2>6, <2>7, <2>8, <3>1, <3>2 DEF SubsTrue, Reconnects
      <3>6. Believes(x)' <=> Believes(x)
        BY <1>2, KeepsAnswers
      <3>7. NoteComes(x) => NoteComes(x)' \/ OnItsWay(x)'
        BY <2>6, <2>7, <3>1, <3>2 DEF OnItsWay
      <3>8. StreamKnown(x)
        BY <1>1
      <3>9. StreamKnown(x)'
        BY <1>2, <1>3, <2>9, <3>1, <3>6, <3>7, <3>8 DEF StreamKnown
      <3> QED BY <3>4, <3>5, <3>9
    <2>11. DefaultKnown'
      <3>1. "default" \in Things /\ "default" \notin Ref /\ "resync" \notin Ref
        BY AudioGraphAssumption, EventIs
      <3>2. Mentions(About("default"), notes) =>
               note.what \in About("default") \/ Mentions(About("default"), notes')
        BY <1>4, <1>5, MentionsTail DEF note
      <3>3. note.what \in About("default") => told
        BY <3>1 DEF told, Told, About
      <3>4. Mentions(About("default"), notes) =>
               Mentions(About("default"), notes') \/ OnItsWay("default")'
        BY <2>6, <2>7, <3>1, <3>2, <3>3 DEF OnItsWay
      <3>5. BelievesDefault' = BelievesDefault
        BY <1>2, KeepsAnswers
      <3> QED BY <1>1, <1>2, <1>3, <2>9, <3>1, <3>4, <3>5 DEF DefaultKnown
    <2> QED BY <2>10, <2>11 DEF StreamsKnown
  <1> QED BY <1>3, <1>7, <1>8, <1>9, KnowsNext
LEMMA NoteComesKept ==
    ASSUME UNCHANGED <<notes, alive>> PROVE \A x : NoteComes(x)' <=> NoteComes(x)
  BY DEF NoteComes

LEMMA ConnectsKnown ==
    ASSUME GraphInv, Connects
    PROVE  Knows'
  <1>1. AsksOnly /\ LinkParts /\ NotesTrue /\ StreamsKnown /\ DefaultKnown
    BY DEF GraphInv, Knows
  <1>2. /\ UNCHANGED <<queue, drained, batch, alive, gone, default, broken, everConnected>>
        /\ UNCHANGED <<subs, feed, notes, missed, known, knownDefault, asking, answer>>
        /\ UNCHANGED <<streamsCh, running, doubt, overtaken>>
        /\ link = "none" /\ link' = "subscribed"
    BY DEF Connects, dispatchVars, server, cache, resync, history
  <1>3. AsksOnly' /\ (ResyncWaits' <=> ResyncWaits)
    BY <1>1, <1>2, KeepsAsking
  <1>4. LinkParts' /\ NotesTrue'
    BY <1>1, <1>2, <1>3 DEF LinkParts, NotesTrue
  <1>5. ASSUME NEW x
        PROVE  /\ FeedTrue(x) => FeedTrue(x)'
               /\ SubsTrue(x) => SubsTrue(x)'
               /\ OnItsWay(x) => OnItsWay(x)'
               /\ NoteComes(x)' <=> NoteComes(x)
    <2>1. Reconnects => Reconnects'
      BY <1>2 DEF Reconnects
    <2>2. NoteComes(x)' <=> NoteComes(x)
      BY <1>2, NoteComesKept
    <2> QED BY <1>2, <2>1, <2>2, KeepsTelling
  <1>6. (\A x : Believes(x)' <=> Believes(x)) /\ BelievesDefault' = BelievesDefault
    BY <1>2, KeepsAnswers
  <1>7. StreamsKnown'
    BY <1>1, <1>2, <1>3, <1>5, <1>6 DEF StreamsKnown, StreamKnown
  <1>8. DefaultKnown'
    BY <1>1, <1>2, <1>3, <1>5, <1>6 DEF DefaultKnown
  <1> QED BY <1>3, <1>4, <1>7, <1>8 DEF Knows

LEMMA SetBackendKnown ==
    ASSUME GraphInv, SetBackend
    PROVE  Knows'
  <1>1. /\ ChannelsTyped /\ AsksOnly /\ LinkParts /\ NotesTrue
        /\ \A x \in Ref : FeedTrue(x) /\ SubsTrue(x) /\ StreamKnown(x)
        /\ DefaultKnown
    BY InvParts
  <1>2. /\ UNCHANGED <<queue, drained, batch, alive, gone, default, broken>>
        /\ UNCHANGED <<feed, notes, missed, known, knownDefault, asking, answer>>
        /\ UNCHANGED <<streamsCh, running, overtaken>>
        /\ link' = "inUse" /\ everConnected' = TRUE
    BY DEF SetBackend, dispatchVars, server, cache, resync
  <1>3. AsksOnly' /\ (ResyncWaits' <=> ResyncWaits)
    BY <1>1, <1>2, KeepsAsking
  <1>4. LinkParts' /\ NotesTrue'
    BY <1>1, <1>2 DEF LinkParts, NotesTrue
  <1>5. /\ everConnected => Passes(subs, subs', EventResync)
        /\ ~everConnected => subs' = subs
        /\ doubt \subseteq doubt'
    BY <1>1, SetBackendPasses
  <1>6. \A x : x \in doubt' => Excused(x)'
    BY DEF Excused
  <1>7. ASSUME NEW x \in Ref PROVE FeedTrue(x)'
    <2>1. (NoteComes(x)' <=> NoteComes(x)) /\ (Excused(x) => Excused(x)')
      BY <1>2, <1>5, NoteComesKept DEF Excused
    <2> QED BY <1>1, <1>2, <2>1 DEF FeedTrue
  <1>8. CASE everConnected
    <2>1. EventResync \in Event /\ EventResync.what = "resync"
      BY EventIs
    <2>2. ASSUME NEW x \in Things
          PROVE  /\ Mentions(About(x), subs') \/ x \in doubt'
                 /\ LastTrue(x, alive, subs') \/ x \in doubt'
      <3>1. EventResync.what \in About(x) /\ IsTrue(alive, EventResync)
        BY <2>1 DEF About, IsTrue
      <3>2. Passes(subs, subs', EventResync) /\ subs \in Seq(Event)
        BY <1>1, <1>5, <1>8 DEF ChannelsTyped
      <3> QED BY <2>1, <3>1, <3>2, PassesTells
    <2>3. \A x \in Things : OnItsWay(x)'
      BY <1>6, <2>2 DEF OnItsWay
    <2>4. \A x \in Ref : SubsTrue(x)' /\ StreamKnown(x)'
      BY <1>2, <1>6, <2>2, <2>3, EventIs DEF SubsTrue, StreamKnown
    <2>5. DefaultKnown'
      BY <2>3, EventIs DEF DefaultKnown
    <2> QED BY <1>3, <1>4, <1>7, <2>4, <2>5 DEF Knows, StreamsKnown
  <1>9. CASE ~everConnected
    <2>1. subs' = <<>> /\ (running' => ResyncWaits')
      BY <1>1, <1>2, <1>3, <1>5, <1>9 DEF LinkParts
    <2>2. \A x \in Ref : SubsTrue(x)' /\ StreamKnown(x)'
      BY <2>1, NothingTold DEF SubsTrue, StreamKnown
    <2>3. DefaultKnown'
      BY <2>1 DEF DefaultKnown
    <2> QED BY <1>3, <1>4, <1>7, <2>2, <2>3 DEF Knows, StreamsKnown
  <1> QED BY <1>8, <1>9

LEMMA PumpKnown ==
    ASSUME GraphInv, Pump
    PROVE  Knows'
  <1> DEFINE e == Head(feed)
  <1>1. /\ ChannelsTyped /\ AsksOnly /\ LinkParts /\ NotesTrue
        /\ \A x \in Ref : FeedTrue(x) /\ SubsTrue(x) /\ StreamKnown(x)
        /\ DefaultKnown
    BY InvParts
  <1>2. /\ UNCHANGED <<queue, drained, batch, alive, gone, default, broken, link, everConnected>>
        /\ UNCHANGED <<notes, missed, known, knownDefault, asking, answer>>
        /\ UNCHANGED <<streamsCh, running, overtaken>> /\ link = "inUse"
    BY DEF Pump, dispatchVars, server, supervisor, cache, resync
  <1>3. AsksOnly' /\ (ResyncWaits' <=> ResyncWaits)
    BY <1>1, <1>2, KeepsAsking
  <1>4. LinkParts' /\ NotesTrue'
    BY <1>1, <1>2 DEF LinkParts, NotesTrue
  <1>5. /\ feed # <<>> /\ feed' = Tail(feed) /\ Passes(subs, subs', e) /\ doubt \subseteq doubt'
        /\ feed \in Seq(Event) /\ subs \in Seq(Event) /\ e \in Event
    BY <1>1, PumpPasses DEF ChannelsTyped
  <1> HIDE DEF e
  <1>6. (\A x : x \in doubt' => Excused(x)') /\ (\A x : Excused(x) => Excused(x)')
    BY <1>2, <1>5 DEF Excused
  <1>7. /\ \A x : NoteComes(x)' <=> NoteComes(x)
        /\ ~Reconnects
    BY <1>2, NoteComesKept DEF Reconnects
  <1>8. \A x : Mentions(About(x), feed) => e.what \in About(x) \/ Mentions(About(x), feed')
    BY <1>5, MentionsTail DEF e
  <1>9. ASSUME NEW x \in Things
        PROVE  /\ Mentions(About(x), subs) => Mentions(About(x), subs')
               /\ e.what \in About(x) => Mentions(About(x), subs') \/ x \in doubt'
    BY <1>5, PassesTells
  <1>10. ASSUME NEW x \in Things PROVE OnItsWay(x) => OnItsWay(x)'
    BY <1>6, <1>7, <1>8, <1>9 DEF OnItsWay
  <1>11. ASSUME NEW x \in Ref PROVE FeedTrue(x)' /\ SubsTrue(x)' /\ StreamKnown(x)'
    <2>1. x \in Things /\ FeedTrue(x) /\ SubsTrue(x) /\ StreamKnown(x)
      BY <1>1, EventIs
    <2>2. LastTrue(x, alive, feed) =>
             /\ LastTrue(x, alive, feed')
             /\ e.what \in About(x) /\ ~Mentions(About(x), feed') => IsTrue(alive, e)
      BY <1>5, LastTrueTail DEF e
    <2>3. FeedTrue(x)'
      BY <1>2, <1>6, <1>7, <2>1, <2>2 DEF FeedTrue
    <2>4. (IF e.what \in About(x) THEN IsTrue(alive, e) ELSE LastTrue(x, alive, subs)) =>
             LastTrue(x, alive, subs') \/ x \in doubt'
      BY <1>5, <2>1, PassesTells
    <2>5. SubsTrue(x)'
      <3>1. CASE Excused(x) \/ NoteComes(x) \/ Mentions(About(x), feed')
        BY <1>6, <1>7, <3>1 DEF SubsTrue
      <3>2. CASE /\ ~ (Excused(x) \/ NoteComes(x) \/ Mentions(About(x), feed'))
                 /\ e.what \in About(x)
        BY <1>2, <1>6, <2>1, <2>2, <2>4, <3>2 DEF SubsTrue, FeedTrue
      <3>3. CASE /\ ~ (Excused(x) \/ NoteComes(x) \/ Mentions(About(x), feed'))
                 /\ e.what \notin About(x)
        BY <1>2, <1>6, <1>7, <1>8, <2>1, <2>4, <3>3 DEF SubsTrue
      <3> QED BY <3>1, <3>2, <3>3
    <2>6. Believes(x)' <=> Believes(x)
      BY <1>2, KeepsAnswers
    <2>7. StreamKnown(x)'
      BY <1>2, <1>3, <1>7, <1>10, <2>1, <2>6 DEF StreamKnown
    <2> QED BY <2>3, <2>5, <2>7
  <1>12. DefaultKnown'
    <2>1. "default" \in Things /\ BelievesDefault' = BelievesDefault
      BY <1>2, EventIs, KeepsAnswers
    <2> QED BY <1>1, <1>2, <1>3, <1>10, <2>1 DEF DefaultKnown
  <1> QED BY <1>3, <1>4, <1>11, <1>12 DEF Knows, StreamsKnown

LEMMA ClearBackendKnown ==
    ASSUME GraphInv, ClearBackend
    PROVE  Knows'
  <1>1. AsksOnly /\ LinkParts
    BY DEF GraphInv, Knows
  <1>2. /\ UNCHANGED <<queue, drained, batch, everConnected, feed, subs, asking, running>>
        /\ link = "inUse" /\ link' = "none" /\ broken' = FALSE /\ notes' = <<>>
        /\ missed' = FALSE /\ feed = <<>>
    BY DEF ClearBackend, dispatchVars, resync
  <1>3. AsksOnly'
    BY <1>1, <1>2, KeepsAsking
  <1>4. LinkParts'
    BY <1>1, <1>2 DEF LinkParts
  <1>5. NotesTrue'
    BY <1>2 DEF NotesTrue
  <1>6. Detached'
    BY <1>2 DEF Detached
  <1> QED BY <1>3, <1>4, <1>5, <1>6, KnowsNext
(* What the last answer in transit says, or the cache without one.         *)
Trusted(x) ==
    IF asking = "sending" THEN x \in answer.streams
    ELSE IF streamsCh # <<>> THEN x \in Head(streamsCh).streams
    ELSE x \in known

BelievesIt == \A x : Believes(x) <=> Trusted(x)

LEMMA BelievesTrusted == CacheTyped => BelievesIt
  <1> SUFFICES ASSUME CacheTyped, NEW x PROVE Believes(x) <=> Trusted(x)
    BY DEF BelievesIt
  <1>1. streamsCh \in Seq(StreamsResult) /\ Len(streamsCh) <= 1 /\ answer \in StreamsResult
    BY DEF CacheTyped
  <1>2. CASE asking = "sending"
    <2> DEFINE one == <<answer>>
               l == streamsCh \o one
    <2>1. one \in Seq(StreamsResult) /\ Len(one) = 1 /\ one[1] = answer
      BY <1>1
    <2> HIDE DEF one
    <2>2. /\ l \in Seq(StreamsResult) /\ Len(l) = Len(streamsCh) + 1
          /\ l[Len(streamsCh) + 1] = answer
      BY <1>1, <2>1, ConcatProperties
    <2>3. InTransit = l
      BY <1>2 DEF InTransit, one
    <2> HIDE DEF l
    <2>4. l # <<>> /\ Last(l) = answer
      BY <1>1, <2>2 DEF Last
    <2> QED BY <1>2, <2>3, <2>4 DEF Believes, Trusted
  <1>3. CASE asking # "sending"
    <2>1. InTransit = streamsCh
      BY <1>1, <1>3 DEF InTransit
    <2>2. streamsCh # <<>> => Last(streamsCh) = Head(streamsCh)
      <3>1. streamsCh # <<>> => Len(streamsCh) = 1
        <4> DEFINE k == Len(streamsCh)
        <4>1. k <= 1 /\ (streamsCh # <<>> => k \in Nat \ {0})
          BY <1>1, EmptySeq
        <4> HIDE DEF k
        <4>2. streamsCh # <<>> => k = 1
          BY <4>1
        <4> QED BY <4>2 DEF k
      <3> QED BY <1>1, <3>1 DEF Last
    <2> QED BY <1>3, <2>1, <2>2 DEF Believes, Trusted
  <1> QED BY <1>2, <1>3

LEMMA BelievesTrustedNext == CacheTyped' => BelievesIt'
  BY BelievesTrusted, PTL

LEMMA TypesNext == TypeOK' => CacheTyped'
  BY TypeParts

LEMMA HandleStreamEventKnown ==
    ASSUME GraphInv, HandleStreamEvent
    PROVE  Knows'
  <1> DEFINE ev == Head(subs)
             y == ev.what
  <1>1. /\ ChannelsTyped /\ AsksOnly /\ LinkParts /\ NotesTrue
        /\ \A x \in Ref : FeedTrue(x) /\ SubsTrue(x) /\ StreamKnown(x)
        /\ DefaultKnown
    BY InvParts
  <1>2. /\ UNCHANGED <<queue, drained, batch, alive, gone, default, broken, link, everConnected>>
        /\ UNCHANGED <<feed, notes, missed, knownDefault, asking, answer>>
        /\ UNCHANGED <<streamsCh, running, doubt>>
    BY DEF HandleStreamEvent, dispatchVars, server, supervisor, resync
  <1>3. /\ subs # <<>> /\ subs' = Tail(subs) /\ y \in Ref
        /\ known' = IF ev.there THEN known \cup {y} ELSE known \ {y}
        /\ overtaken' = IF InTransit # <<>> /\ (y \in Last(InTransit).streams) # ev.there
                        THEN overtaken \cup {y} ELSE overtaken \ {y}
    BY DEF HandleStreamEvent
  <1>4. subs \in Seq(Event) /\ ev \in Event /\ ev.there \in BOOLEAN
    <2>1. subs \in Seq(Event) /\ ev \in Event
      BY <1>1, <1>3 DEF ChannelsTyped
    <2> QED BY <2>1 DEF Event
  <1>5. AsksOnly' /\ (ResyncWaits' <=> ResyncWaits) /\ InTransit' = InTransit
    BY <1>1, <1>2, KeepsAsking DEF InTransit
  <1>6. LinkParts' /\ NotesTrue'
    BY <1>1, <1>2, <1>3, <1>5 DEF LinkParts, NotesTrue
  <1> HIDE DEF ev, y
  <1>7. /\ \A x : Excused(x)' <=> Excused(x)
        /\ \A x : NoteComes(x)' <=> NoteComes(x)
        /\ Reconnects' <=> Reconnects
    BY <1>2, NoteComesKept DEF Excused, Reconnects
  <1>8. \A x : Mentions(About(x), subs) => y \in About(x) \/ Mentions(About(x), subs')
    BY <1>3, <1>4, MentionsTail DEF y, ev
  <1>9. ASSUME NEW x \in Ref PROVE FeedTrue(x)' /\ SubsTrue(x)' /\ StreamKnown(x)'
    <2>1. FeedTrue(x) /\ SubsTrue(x) /\ StreamKnown(x)
      BY <1>1
    <2>2. LastTrue(x, alive, subs) =>
             /\ LastTrue(x, alive, subs')
             /\ y \in About(x) /\ ~Mentions(About(x), subs') => IsTrue(alive, ev)
      BY <1>3, <1>4, LastTrueTail DEF y, ev
    <2>3. FeedTrue(x)'
      BY <1>2, <1>7, <2>1 DEF FeedTrue
    <2>4. SubsTrue(x)'
      BY <1>2, <1>7, <2>1, <2>2 DEF SubsTrue
    <2>5. StreamKnown(x)'
      <3>1. CASE Excused(x) \/ NoteComes(x) \/ Reconnects \/ Mentions(About(x), feed)
                 \/ Mentions(About(x), subs')
        BY <1>2, <1>7, <3>1 DEF StreamKnown, OnItsWay
      <3>2. CASE /\ ~ (Excused(x) \/ NoteComes(x) \/ Reconnects \/ Mentions(About(x), feed)
                       \/ Mentions(About(x), subs'))
                 /\ x = y
        <4>1. IsTrue(alive, ev)
          BY <2>1, <2>2, <3>2 DEF SubsTrue, About
        <4>2. ev.there <=> x \in alive
          <5>1. y # "resync" /\ y = ev.what
            BY <1>3, AudioGraphAssumption DEF y
          <5> QED BY <3>2, <4>1, <5>1 DEF IsTrue
        <4>3. CASE InTransit = <<>>
          <5>1. x \in known' <=> ev.there
            BY <1>3, <3>2
          <5>2. Believes(x)' <=> x \in known'
            BY <1>5, <4>3 DEF Believes
          <5> QED BY <1>2, <4>2, <5>1, <5>2 DEF StreamKnown
        <4>4. CASE InTransit # <<>>
          <5>1. Believes(x)' <=> x \in Last(InTransit).streams
            BY <1>5, <4>4 DEF Believes
          <5>2. CASE x \in Last(InTransit).streams <=> ev.there
            BY <1>2, <4>2, <5>1, <5>2 DEF StreamKnown
          <5>3. CASE ~ (x \in Last(InTransit).streams <=> ev.there)
            <6>1. (y \in Last(InTransit).streams) # ev.there
              BY <1>4, <3>2, <5>3
            <6>2. x \in overtaken'
              BY <1>3, <3>2, <4>4, <6>1
            <6> QED BY <6>2 DEF StreamKnown
          <5> QED BY <5>2, <5>3
        <4> QED BY <4>3, <4>4
      <3>3. CASE /\ ~ (Excused(x) \/ NoteComes(x) \/ Reconnects \/ Mentions(About(x), feed)
                       \/ Mentions(About(x), subs'))
                 /\ x # y
        <4>1. y \notin About(x)
          BY <1>3, <3>3, AudioGraphAssumption DEF About
        <4>2. ~OnItsWay(x)
          BY <1>8, <3>3, <4>1 DEF OnItsWay
        <4>3. (x \in known' <=> x \in known) /\ (x \in overtaken' <=> x \in overtaken)
          BY <1>3, <3>3
        <4>4. Believes(x)' <=> Believes(x)
          BY <1>5, <4>3 DEF Believes
        <4> QED BY <1>2, <1>5, <2>1, <3>3, <4>2, <4>3, <4>4 DEF StreamKnown
      <3> QED BY <3>1, <3>2, <3>3
    <2> QED BY <2>3, <2>4, <2>5
  <1>10. DefaultKnown'
    <2>1. y \notin About("default")
      BY <1>3, AudioGraphAssumption DEF About
    <2>2. OnItsWay("default") => OnItsWay("default")'
      BY <1>2, <1>7, <1>8, <2>1 DEF OnItsWay
    <2>3. BelievesDefault' = BelievesDefault
      BY <1>2 DEF BelievesDefault
    <2> QED BY <1>1, <1>2, <1>5, <2>2, <2>3 DEF DefaultKnown
  <1> QED BY <1>5, <1>6, <1>9, <1>10 DEF Knows, StreamsKnown

LEMMA HandleDeviceEventKnown ==
    ASSUME GraphInv, HandleDeviceEvent
    PROVE  Knows'
  <1>1. /\ DispatchTypeOK /\ ChannelsTyped /\ AsksForBatch /\ AsksOnly /\ LinkParts /\ NotesTrue
        /\ \A x \in Ref : FeedTrue(x) /\ SubsTrue(x) /\ StreamKnown(x)
    BY InvParts
  <1>2. /\ UNCHANGED <<drained, batch, alive, gone, default, broken, link, everConnected>>
        /\ UNCHANGED <<feed, notes, missed, asking, running>>
        /\ queue' = Queued(Resync) /\ subs # <<>> /\ subs' = Tail(subs)
        /\ doubt' = IF Len(queue) >= QueueDepth /\ ~ResyncWaits THEN Things ELSE doubt
    BY DEF HandleDeviceEvent, server, supervisor, resync
  <1>3. /\ AsksOnly' /\ (ResyncWaits => ResyncWaits')
        /\ Len(queue) < QueueDepth => ResyncWaits'
    <2>1. Resync \in Asks
      BY DEF Asks
    <2> QED BY <1>1, <1>2, <2>1, EnqueuesWaits
  <1>4. ResyncWaits' \/ doubt' = Things
    <2>1. Len(queue) < QueueDepth \/ Len(queue) >= QueueDepth
      BY <1>1, DispatchAssumption DEF DispatchTypeOK
    <2> QED BY <1>2, <1>3, <2>1
  <1>5. LinkParts' /\ NotesTrue'
    BY <1>1, <1>2, <1>3 DEF LinkParts, NotesTrue
  <1>6. /\ \A x : NoteComes(x)' <=> NoteComes(x)
        /\ \A x \in Ref : Excused(x) => Excused(x)'
        /\ \A x \in Things : doubt' = Things => OnItsWay(x)'
    BY <1>2, NoteComesKept, EventIs DEF Excused, OnItsWay
  <1>7. ASSUME NEW x \in Ref PROVE FeedTrue(x)' /\ SubsTrue(x)' /\ StreamKnown(x)'
    <2>1. FeedTrue(x) /\ SubsTrue(x) /\ x \in Things
      BY <1>1, EventIs
    <2>2. LastTrue(x, alive, subs) => LastTrue(x, alive, subs')
      BY <1>1, <1>2, LastTrueTail DEF ChannelsTyped
    <2>3. FeedTrue(x)'
      BY <1>2, <1>6, <2>1 DEF FeedTrue
    <2>4. SubsTrue(x)'
      BY <1>2, <1>6, <2>1, <2>2 DEF SubsTrue, Reconnects
    <2>5. StreamKnown(x)'
      BY <1>4, <1>6, <2>1 DEF StreamKnown
    <2> QED BY <2>3, <2>4, <2>5
  <1>8. DefaultKnown'
    BY <1>4, <1>6, EventIs DEF DefaultKnown
  <1> QED BY <1>3, <1>5, <1>7, <1>8 DEF Knows, StreamsKnown
LEMMA TakeAnswerKnown ==
    ASSUME GraphInv, TypeOK', TakeAnswer
    PROVE  Knows'
  <1>1. /\ DispatchTypeOK /\ CacheTyped /\ AsksForBatch /\ AsksOnly /\ LinkParts /\ NotesTrue
        /\ \A x \in Ref : FeedTrue(x) /\ SubsTrue(x) /\ StreamKnown(x)
        /\ DefaultKnown
    BY InvParts
  <1>2. /\ UNCHANGED <<drained, batch, alive, gone, default, broken, link, everConnected>>
        /\ UNCHANGED <<feed, subs, notes, missed, asking, answer, running, doubt, overtaken>>
        /\ queue' \in {queue, Queued(Refresh)}
        /\ streamsCh # <<>> /\ streamsCh' = Tail(streamsCh)
        /\ known' = Head(streamsCh).streams /\ knownDefault' = Head(streamsCh).default
    BY DEF TakeAnswer, server, supervisor, history
  <1>3. AsksOnly' /\ (ResyncWaits => ResyncWaits')
    <2>1. Refresh \in Asks
      BY DEF Asks
    <2> QED BY <1>1, <1>2, <2>1, EnqueuesWaits
  <1>4. streamsCh' = <<>>
    BY <1>1, <1>2 DEF CacheTyped
  <1>5. BelievesIt /\ BelievesIt'
    BY <1>1, BelievesTrusted, BelievesTrustedNext, TypesNext
  <1>6. \A x : Believes(x)' <=> Believes(x)
    <2>1. \A x : Trusted(x)' <=> Trusted(x)
      BY <1>2, <1>4 DEF Trusted
    <2> QED BY <1>5, <2>1 DEF BelievesIt
  <1>7. BelievesDefault' = BelievesDefault
    BY <1>2, <1>4 DEF BelievesDefault
  <1>8. LinkParts' /\ NotesTrue'
    BY <1>1, <1>2, <1>3 DEF LinkParts, NotesTrue
  <1>9. ASSUME NEW x
        PROVE  /\ FeedTrue(x) => FeedTrue(x)'
               /\ SubsTrue(x) => SubsTrue(x)'
               /\ OnItsWay(x) => OnItsWay(x)'
               /\ NoteComes(x)' <=> NoteComes(x)
    <2>1. (Reconnects => Reconnects') /\ (NoteComes(x)' <=> NoteComes(x))
      BY <1>2, NoteComesKept DEF Reconnects
    <2> QED BY <1>2, <2>1, KeepsTelling
  <1>10. StreamsKnown'
    BY <1>1, <1>2, <1>3, <1>6, <1>9 DEF StreamsKnown, StreamKnown
  <1>11. DefaultKnown'
    BY <1>1, <1>2, <1>3, <1>7, <1>9 DEF DefaultKnown
  <1> QED BY <1>3, <1>8, <1>10, <1>11 DEF Knows

(* Steps that leave the channels of the events, and Run's cache, alone.    *)
LEMMA KeepsStreams ==
    ASSUME GraphInv, UNCHANGED <<server, supervisor, notes, missed, feed, subs, cache>>,
           \A x \in Ref : x \in doubt => x \in doubt'
    PROVE  /\ NotesTrue'
           /\ \A x \in Ref : /\ FeedTrue(x)' /\ SubsTrue(x)'
                             /\ OnItsWay(x) => OnItsWay(x)'
                             /\ NoteComes(x)' <=> NoteComes(x)
           /\ OnItsWay("default") => "default" \in doubt \/ OnItsWay("default")'
           /\ "default" \in doubt' => OnItsWay("default")'
  <1>1. NotesTrue /\ \A x \in Ref : FeedTrue(x) /\ SubsTrue(x)
    BY InvParts
  <1>2. UNCHANGED <<alive, gone, default, broken, link, everConnected, notes, missed, feed, subs>>
    BY DEF server, supervisor
  <1>3. NotesTrue'
    BY <1>1, <1>2 DEF NotesTrue
  <1>4. ASSUME NEW x \in Ref
        PROVE  /\ FeedTrue(x)' /\ SubsTrue(x)'
               /\ OnItsWay(x) => OnItsWay(x)'
               /\ NoteComes(x)' <=> NoteComes(x)
    <2>1. (Reconnects => Reconnects') /\ (NoteComes(x)' <=> NoteComes(x))
      BY <1>2, NoteComesKept DEF Reconnects
    <2> QED BY <1>1, <1>2, <2>1, KeepsTelling
  <1>5. /\ OnItsWay("default") => "default" \in doubt \/ OnItsWay("default")'
        /\ "default" \in doubt' => OnItsWay("default")'
    BY <1>2 DEF OnItsWay, Excused, Reconnects
  <1> QED BY <1>3, <1>4, <1>5

LEMMA CancelledKnown ==
    ASSUME GraphInv, Cancelled
    PROVE  Knows'
  <1>1. AsksOnly /\ LinkParts
    BY InvParts
  <1>2. /\ UNCHANGED <<queue, drained, batch, asking, link, everConnected, broken, missed>>
        /\ UNCHANGED <<notes, feed, subs, doubt>> /\ running' = FALSE
        /\ UNCHANGED <<server, supervisor, notes, missed, feed, subs, cache>>
    BY DEF Cancelled, dispatchVars, server, supervisor, resync, history
  <1>3. AsksOnly' /\ LinkParts'
    BY <1>1, <1>2, KeepsAsking DEF LinkParts
  <1>4. NotesTrue' /\ \A x \in Ref : FeedTrue(x)' /\ SubsTrue(x)'
    BY <1>2, KeepsStreams
  <1>5. StreamsKnown' /\ DefaultKnown'
    BY <1>2, <1>4 DEF StreamsKnown, StreamKnown, DefaultKnown
  <1> QED BY <1>3, <1>4, <1>5 DEF Knows

LEMMA WorksKnown ==
    ASSUME GraphInv, Works
    PROVE  Knows'
  <1>1. /\ AsksForBatch /\ AsksOnly /\ LinkParts
        /\ \A x \in Ref : StreamKnown(x)
        /\ DefaultKnown
    BY InvParts
  <1>2. /\ UNCHANGED <<asking, link, everConnected, broken, missed, notes, feed, subs, running>>
        /\ UNCHANGED <<known, knownDefault, answer, streamsCh, alive, default, overtaken, doubt>>
        /\ UNCHANGED <<server, supervisor, notes, missed, feed, subs, cache>>
    BY DEF Works, server, supervisor, cache, resync, history
  <1>3. AsksOnly' /\ (ResyncWaits => ResyncWaits')
    BY <1>1, WorksWaits
  <1>4. LinkParts'
    BY <1>1, <1>2, <1>3 DEF LinkParts
  <1>5. /\ NotesTrue'
        /\ \A x \in Ref : /\ FeedTrue(x)' /\ SubsTrue(x)'
                          /\ OnItsWay(x) => OnItsWay(x)'
                          /\ NoteComes(x)' <=> NoteComes(x)
        /\ OnItsWay("default") => "default" \in doubt \/ OnItsWay("default")'
        /\ "default" \in doubt' => OnItsWay("default")'
    BY <1>2, KeepsStreams
  <1>6. (\A x : Believes(x)' <=> Believes(x)) /\ BelievesDefault' = BelievesDefault
    BY <1>2, KeepsAnswers
  <1>7. StreamsKnown'
    BY <1>1, <1>2, <1>3, <1>5, <1>6 DEF StreamsKnown, StreamKnown
  <1>8. DefaultKnown'
    BY <1>1, <1>2, <1>3, <1>5, <1>6 DEF DefaultKnown
  <1> QED BY <1>3, <1>4, <1>5, <1>7, <1>8 DEF Knows
LEMMA ReadDevicesKnown ==
    ASSUME GraphInv, ReadDevices
    PROVE  Knows'
  <1>1. CacheTyped /\ AsksOnly /\ LinkParts
    BY InvParts
  <1>2. /\ UNCHANGED <<queue, drained, batch, link, everConnected, broken, missed, notes>>
        /\ UNCHANGED <<feed, subs, running, default>>
        /\ UNCHANGED <<server, supervisor, notes, missed, feed, subs, cache>>
        /\ link = "inUse" /\ asking' = "devices" /\ doubt' = doubt \ {"default"}
        /\ answer' = [answer EXCEPT !.default = default]
    BY DEF ReadDevices, dispatchVars, server, supervisor
  <1>3. AsksOnly' /\ LinkParts'
    BY <1>1, <1>2 DEF AsksOnly, LinkParts
  <1>4. NotesTrue' /\ \A x \in Ref : FeedTrue(x)' /\ SubsTrue(x)'
    <2>1. \A x \in Ref : x \in doubt => x \in doubt'
      BY <1>2, EventIs
    <2> QED BY <1>2, <2>1, KeepsStreams
  <1>5. StreamsKnown'
    BY <1>2, <1>4 DEF StreamsKnown, StreamKnown
  <1>6. BelievesDefault' = default'
    <2>1. answer'.default = default
      BY <1>1, <1>2 DEF CacheTyped, StreamsResult
    <2> QED BY <1>2, <2>1 DEF BelievesDefault
  <1>7. DefaultKnown'
    BY <1>6 DEF DefaultKnown
  <1> QED BY <1>3, <1>4, <1>5, <1>7 DEF Knows

LEMMA ReadStreamsKnown ==
    ASSUME GraphInv, TypeOK', ReadStreams
    PROVE  Knows'
  <1>1. /\ ChannelsTyped /\ CacheTyped /\ AsksOnly /\ LinkParts /\ NotesTrue
        /\ \A x \in Ref : FeedTrue(x) /\ SubsTrue(x)
        /\ DefaultKnown
    BY InvParts
  <1>2. /\ UNCHANGED <<queue, drained, batch, alive, gone, default, broken, link, everConnected>>
        /\ UNCHANGED <<feed, subs, notes, missed, running>>
        /\ asking = "devices" /\ link = "inUse" /\ asking' = "sending"
        /\ doubt' = doubt \ (Ref \ {ev.what : ev \in Range(subs \o feed)})
        /\ answer' = [answer EXCEPT !.streams = alive]
    BY DEF ReadStreams, dispatchVars, server, supervisor
  <1>3. AsksOnly' /\ (ResyncWaits' <=> ResyncWaits)
    BY <1>1, <1>2 DEF AsksOnly, ResyncWaits
  <1>4. LinkParts' /\ NotesTrue'
    BY <1>1, <1>2 DEF LinkParts, NotesTrue
  <1>5. ASSUME NEW x \in Ref PROVE FeedTrue(x)' /\ SubsTrue(x)'
    <2>1. CASE x \in doubt => x \in doubt'
      <3>1. (Reconnects => Reconnects') /\ (NoteComes(x)' <=> NoteComes(x))
        BY <1>2, NoteComesKept DEF Reconnects
      <3> QED BY <1>1, <1>2, <2>1, <3>1, KeepsTelling
    <2>2. CASE x \notin {ev.what : ev \in Range(subs \o feed)}
      <3>1. Range(subs \o feed) = Range(subs) \cup Range(feed)
        BY <1>1, RangeConcat DEF ChannelsTyped
      <3>2. ASSUME NEW s, Range(s) \subseteq Range(subs \o feed) PROVE LastTrue(x, alive', s)
        <4>1. \A i \in DOMAIN s : s[i] \in Range(subs \o feed)
          BY <3>2 DEF Range
        <4>2. \A i \in DOMAIN s : s[i].what # x
          BY <2>2, <4>1
        <4> QED BY <4>2 DEF LastTrue, IsTrue, About
      <3>3. LastTrue(x, alive', subs') /\ LastTrue(x, alive', feed')
        BY <1>2, <3>1, <3>2
      <3> QED BY <3>3 DEF FeedTrue, SubsTrue
    <2> QED BY <1>2, <2>1, <2>2
  <1>6. ASSUME NEW x \in Ref PROVE StreamKnown(x)'
    <2>1. Believes(x)' <=> Trusted(x)'
      BY BelievesTrustedNext, TypesNext DEF BelievesIt
    <2>2. answer'.streams = alive
      BY <1>1, <1>2 DEF CacheTyped, StreamsResult
    <2>3. Trusted(x)' <=> x \in alive'
      BY <1>2, <2>2 DEF Trusted
    <2> QED BY <2>1, <2>3 DEF StreamKnown
  <1>7. DefaultKnown'
    <2>1. "default" \in doubt => "default" \in doubt'
      BY <1>2, EventIs
    <2>2. OnItsWay("default") => OnItsWay("default")'
      BY <1>2, <2>1 DEF OnItsWay, Excused, Reconnects
    <2>3. answer'.default = answer.default
      BY <1>1, <1>2 DEF CacheTyped, StreamsResult
    <2>4. BelievesDefault' = BelievesDefault
      BY <1>2, <2>3 DEF BelievesDefault
    <2> QED BY <1>1, <1>2, <1>3, <2>2, <2>4 DEF DefaultKnown
  <1> QED BY <1>3, <1>4, <1>5, <1>6, <1>7 DEF Knows, StreamsKnown

(* How a resync ends. *)
LEMMA EndResyncKeeps ==
    ASSUME GraphInv, AtResync, EndResync
    PROVE  /\ AsksOnly'
           /\ running => everConnected \/ asking = "no"
           /\ asking # "no" => everConnected /\ (ResyncWaits' <=> ResyncWaits)
           /\ (everConnected \/ ~running) => LinkParts'
           /\ UNCHANGED <<server, supervisor, notes, missed, feed, subs, cache>>
           /\ UNCHANGED <<running, overtaken, broken, alive, default, known, knownDefault, answer>>
           /\ asking' = "no"
  <1>1. AsksOnly /\ LinkParts
    BY InvParts
  <1>2. /\ UNCHANGED <<queue, drained, notes, missed, feed, subs, running, overtaken, answer>>
        /\ UNCHANGED <<link, everConnected, broken, alive, default, known, knownDefault>>
        /\ batch' = Tail(batch) /\ asking' = "no" /\ batch # <<>>
    BY DEF EndResync, AtResync, server, supervisor, cache
  <1>3. AsksOnly'
    BY <1>1, <1>2 DEF AsksOnly
  <1>4. asking # "no" => everConnected /\ (ResyncWaits' <=> ResyncWaits)
    BY <1>1, <1>2 DEF LinkParts, ResyncWaits
  <1>5. (everConnected \/ ~running) => LinkParts'
    BY <1>1, <1>2 DEF LinkParts
  <1> QED BY <1>1, <1>2, <1>3, <1>4, <1>5 DEF LinkParts, EndResync

LEMMA ResyncFailsKnown ==
    ASSUME GraphInv, ResyncFails
    PROVE  Knows'
  <1>1. LinkParts /\ ChannelsTyped
    BY InvParts
  <1>2. /\ AtResync /\ EndResync /\ (link = "inUse" \/ ~running)
        /\ doubt' = IF link = "inUse" /\ ~broken THEN Things ELSE doubt
    BY DEF ResyncFails
  <1>3. /\ AsksOnly' /\ LinkParts'
        /\ UNCHANGED <<server, supervisor, notes, missed, feed, subs, cache, running, broken>>
    BY <1>1, <1>2, EndResyncKeeps DEF LinkParts
  <1>4. /\ NotesTrue'
        /\ \A x \in Ref : FeedTrue(x)' /\ SubsTrue(x)'
    <2>1. \A x \in Ref : x \in doubt => x \in doubt'
      BY <1>1, <1>2 DEF ChannelsTyped
    <2> QED BY <1>3, <2>1, KeepsStreams
  <1>5. ASSUME ~Detached' PROVE StreamsKnown' /\ DefaultKnown'
    <2>1. CASE ~running
      BY <1>3, <1>4, <2>1 DEF StreamsKnown, StreamKnown, DefaultKnown
    <2>2. CASE running
      <3>1. doubt' = Things
        BY <1>2, <1>3, <1>5, <2>2 DEF Detached
      <3>2. \A x \in Things : OnItsWay(x)'
        BY <3>1 DEF OnItsWay, Excused
      <3> QED BY <1>4, <3>2, EventIs DEF StreamsKnown, StreamKnown, DefaultKnown
    <2> QED BY <2>1, <2>2
  <1> QED BY <1>3, <1>4, <1>5, KnowsNext

LEMMA AnswersKnown ==
    ASSUME GraphInv, TypeOK', Answers
    PROVE  Knows'
  <1>1. /\ CacheTyped /\ AsksForBatch /\ \A x \in Ref : StreamKnown(x)
        /\ DefaultKnown
    BY InvParts
  <1>2. /\ AtResync /\ EndResync /\ asking = "sending" /\ streamsCh' = <<answer>>
        /\ doubt' = doubt
    BY <1>1 DEF Answers, AsksForBatch
  <1>3. /\ AsksOnly' /\ LinkParts' /\ (ResyncWaits' <=> ResyncWaits) /\ asking' = "no"
        /\ UNCHANGED <<server, supervisor, notes, missed, feed, subs, cache>>
        /\ UNCHANGED <<running, overtaken, alive, default, answer>>
    BY <1>2, EndResyncKeeps
  <1>4. /\ NotesTrue'
        /\ \A x \in Ref : /\ FeedTrue(x)' /\ SubsTrue(x)'
                          /\ OnItsWay(x) => OnItsWay(x)'
                          /\ NoteComes(x)' <=> NoteComes(x)
        /\ OnItsWay("default") => "default" \in doubt \/ OnItsWay("default")'
        /\ "default" \in doubt' => OnItsWay("default")'
    BY <1>2, <1>3, KeepsStreams
  <1>5. streamsCh' # <<>> /\ Head(streamsCh') = answer
    BY <1>2
  <1>6. ASSUME NEW x \in Ref PROVE StreamKnown(x)'
    <2>1. BelievesIt /\ BelievesIt'
      BY <1>1, BelievesTrusted, BelievesTrustedNext, TypesNext
    <2>2. Trusted(x)' <=> Trusted(x)
      BY <1>2, <1>3, <1>5 DEF Trusted
    <2>3. Believes(x)' <=> Believes(x)
      BY <2>1, <2>2 DEF BelievesIt
    <2> QED BY <1>1, <1>2, <1>3, <1>4, <2>3 DEF StreamKnown
  <1>7. BelievesDefault' = BelievesDefault
    BY <1>2, <1>3, <1>5 DEF BelievesDefault
  <1>8. DefaultKnown'
    BY <1>1, <1>2, <1>3, <1>4, <1>7 DEF DefaultKnown
  <1> QED BY <1>3, <1>4, <1>6, <1>8 DEF Knows, StreamsKnown

LEMMA AnswerDroppedKnown ==
    ASSUME GraphInv, AnswerDropped
    PROVE  Knows'
  <1>1. AtResync /\ EndResync /\ ~running /\ doubt' = doubt
    BY InvParts DEF AnswerDropped, AsksForBatch, GivesUp
  <1>2. /\ AsksOnly' /\ LinkParts' /\ ~running'
        /\ UNCHANGED <<server, supervisor, notes, missed, feed, subs, cache>>
    BY <1>1, EndResyncKeeps
  <1>3. NotesTrue' /\ \A x \in Ref : FeedTrue(x)' /\ SubsTrue(x)'
    BY <1>1, <1>2, KeepsStreams
  <1> QED BY <1>2, <1>3 DEF Knows, StreamsKnown, StreamKnown, DefaultKnown

LEMMA StutterKnown ==
    ASSUME GraphInv, UNCHANGED graphVars
    PROVE  Knows'
  <1>1. /\ AsksOnly /\ LinkParts /\ CacheTyped /\ \A x \in Ref : StreamKnown(x)
        /\ DefaultKnown
    BY InvParts
  <1>2. /\ UNCHANGED <<server, supervisor, notes, missed, feed, subs, cache>>
        /\ UNCHANGED <<queue, drained, batch, asking, running, link, everConnected, broken, doubt>>
        /\ UNCHANGED <<alive, default, overtaken, known, knownDefault, answer, streamsCh>>
    BY DEF graphVars, dispatchVars, server, supervisor, cache, resync, history
  <1>3. AsksOnly' /\ (ResyncWaits' <=> ResyncWaits)
    BY <1>1, <1>2, KeepsAsking
  <1>4. LinkParts'
    BY <1>1, <1>2, <1>3 DEF LinkParts
  <1>5. /\ NotesTrue'
        /\ \A x \in Ref : /\ FeedTrue(x)' /\ SubsTrue(x)'
                          /\ OnItsWay(x) => OnItsWay(x)'
                          /\ NoteComes(x)' <=> NoteComes(x)
        /\ OnItsWay("default") => "default" \in doubt \/ OnItsWay("default")'
        /\ "default" \in doubt' => OnItsWay("default")'
    BY <1>2, KeepsStreams
  <1>6. (\A x : Believes(x)' <=> Believes(x)) /\ BelievesDefault' = BelievesDefault
    BY <1>2, KeepsAnswers
  <1>7. StreamsKnown'
    BY <1>1, <1>2, <1>3, <1>5, <1>6 DEF StreamsKnown, StreamKnown
  <1>8. DefaultKnown'
    BY <1>1, <1>2, <1>3, <1>5, <1>6 DEF DefaultKnown
  <1> QED BY <1>3, <1>4, <1>5, <1>7, <1>8 DEF Knows
LEMMA KnowsFirst ==
    ASSUME Init
    PROVE  GraphInv
  <1>1. TypeOK /\ AsksForBatch
    BY GraphStarts DEF Init, AsksForBatch
  <1>2. /\ queue = <<Resync>> /\ drained = <<>> /\ batch = <<>> /\ asking = "no"
        /\ link \in {"none", "inUse"} /\ (everConnected <=> link = "inUse")
        /\ broken = FALSE /\ missed = FALSE /\ notes = <<>> /\ feed = <<>> /\ subs = <<>>
    BY DEF Init, DispatchInit
  <1>3. AsksOnly
    BY <1>2 DEF AsksOnly, Asks
  <1>4. ResyncWaits
    <2>1. Resync \in Range(queue)
      BY <1>2 DEF Range
    <2> QED BY <1>1, <1>3, <2>1, WaitsIs
  <1>5. LinkParts /\ NotesTrue
    BY <1>2, <1>4 DEF LinkParts, NotesTrue
  <1>6. ASSUME NEW x \in Ref PROVE FeedTrue(x) /\ SubsTrue(x) /\ StreamKnown(x)
    <2>1. LastTrue(x, alive, feed) /\ LastTrue(x, alive, subs)
      BY <1>2, NothingTold
    <2> QED BY <1>4, <2>1 DEF FeedTrue, SubsTrue, StreamKnown
  <1>7. DefaultKnown
    BY <1>4 DEF DefaultKnown
  <1> QED BY <1>1, <1>3, <1>5, <1>6, <1>7 DEF GraphInv, Knows, StreamsKnown

LEMMA KnowsKept ==
    ASSUME GraphInv, [Next]_graphVars
    PROVE  GraphInv'
  <1>1. TypeOK' /\ AsksForBatch'
    BY TypesKept, AsksForBatchKept DEF GraphInv
  <1>2. ASSUME NEW fails \in BOOLEAN, HandleNote(fails) PROVE Knows'
    BY <1>2, HandleNoteKnown
  <1>3. CASE Connects \/ SetBackend \/ Pump \/ ClearBackend
    BY <1>1, <1>3, ConnectsKnown, SetBackendKnown, PumpKnown, ClearBackendKnown DEF GraphInv
  <1>4. CASE HandleStreamEvent \/ HandleDeviceEvent \/ TakeAnswer \/ Cancelled
    BY <1>1, <1>4, HandleStreamEventKnown, HandleDeviceEventKnown, TakeAnswerKnown,
       CancelledKnown DEF GraphInv
  <1>5. CASE Dispatches
    BY <1>1, <1>5, WorksKnown, ReadDevicesKnown, ReadStreamsKnown, ResyncFailsKnown,
       AnswersKnown, AnswerDroppedKnown DEF GraphInv, Dispatches
  <1> QED BY <1>1, <1>2, <1>3, <1>4, <1>5, ServerKnown, StutterKnown DEF GraphInv, Next

(* What is known when nothing is under way. *)
LEMMA QuietKnows ==
    ASSUME GraphInv
    PROVE  KnowsTheGraph
  <1> SUFFICES ASSUME Quiet PROVE Unknown \subseteq doubt \cup overtaken
    BY DEF KnowsTheGraph
  <1>1. /\ CacheTyped /\ AsksForBatch /\ AsksOnly /\ LinkParts
        /\ \A x \in Ref : StreamKnown(x)
        /\ DefaultKnown
    BY InvParts
  <1>2. /\ running /\ link = "inUse" /\ ~broken /\ notes = <<>> /\ feed = <<>> /\ subs = <<>>
        /\ queue = <<>> /\ drained = <<>> /\ batch = <<>> /\ streamsCh = <<>>
    BY DEF Quiet
  <1>3. asking = "no" /\ ~missed /\ ~Reconnects
    BY <1>1, <1>2 DEF AsksForBatch, AtResync, LinkParts, Reconnects
  <1>4. ~ResyncWaits
    <2>1. Range(<<>>) = {}
      BY DEF Range
    <2> QED BY <1>1, <1>2, <1>3, <2>1, WaitsIs DEF Coming
  <1>5. \A x : ~Mentions(About(x), notes) /\ ~Mentions(About(x), feed) /\ ~Mentions(About(x), subs)
    BY <1>2, NothingTold
  <1>6. \A x : OnItsWay(x) => x \in doubt
    BY <1>2, <1>3, <1>5 DEF OnItsWay, Excused
  <1>7. ASSUME NEW x \in Ref, (x \in known) # (x \in alive) PROVE x \in doubt \cup overtaken
    <2>1. ~NoteComes(x)
      BY <1>2 DEF NoteComes
    <2>2. Believes(x) <=> x \in known
      <3>1. Believes(x) <=> Trusted(x)
        BY <1>1, BelievesTrusted DEF BelievesIt
      <3> QED BY <1>2, <1>3, <3>1 DEF Trusted
    <2>3. ~ (x \in known <=> x \in alive)
      BY <1>7
    <2>4. StreamKnown(x)
      BY <1>1
    <2> QED BY <1>2, <1>3, <1>4, <1>6, <2>1, <2>2, <2>3, <2>4 DEF StreamKnown
  <1>8. knownDefault # default => "default" \in doubt
    <2>1. BelievesDefault = knownDefault
      BY <1>2, <1>3 DEF BelievesDefault
    <2> QED BY <1>1, <1>2, <1>4, <1>5, <1>6, <2>1 DEF DefaultKnown
  <1> QED BY <1>7, <1>8 DEF Unknown

(* When nothing is under way, Run knows which streams there are and which  *)
(* device is the default, but for what a dropped event or a failed request *)
(* told of and what the answer of a resync overtook.                       *)
THEOREM GraphIsKnown == Spec => []KnowsTheGraph
  <1>1. Init => GraphInv
    BY KnowsFirst
  <1>2. GraphInv /\ [Next]_graphVars => GraphInv'
    BY KnowsKept
  <1>3. GraphInv => KnowsTheGraph
    BY QuietKnows
  <1> QED BY <1>1, <1>2, <1>3, PTL DEF Spec

=============================================================================
