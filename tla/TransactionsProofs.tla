------------------------- MODULE TransactionsProofs -------------------------
(***************************************************************************)
(* Proofs about Transactions, for every set of layers, frames, threads and *)
(* calls.                                                                  *)
(***************************************************************************)
EXTENDS Transactions, SequenceTheorems, WellFoundedInduction, TLAPS

-----------------------------------------------------------------------------
(* Numbers and sequences                                                   *)

\* A set of numbers has a least one.
LEMMA Least ==
    ASSUME NEW T, T \subseteq Nat, T # {}
    PROVE  \E m \in T : \A k \in T : m <= k
<1> DEFINE R == OpToRel(<, Nat)
<1>1. IsWellFoundedOn(R, Nat)
  BY NatLessThanWellFounded
<1>2. \A x \in T, y \in T : <<x, y>> \in R <=> x < y
  BY DEF OpToRel
<1> HIDE DEF R
<1>3. PICK x \in T : \A y \in T : ~(<<y, x>> \in R)
  BY <1>1, WFMin
<1>4. \A y \in T : ~(y < x)
  BY <1>2, <1>3
<1> QED
  BY <1>4

\* The layer that is visited next is one of those left.
LEMMA MinIsIn ==
    ASSUME NEW T, T \subseteq Nat, T # {}
    PROVE  Min(T) \in T
  BY Least DEF Min

\* What holds of 0, and of the successor of what it holds of, holds of all.
LEMMA Counting ==
    ASSUME NEW T, NEW k \in Nat, 0 \in T, \A n \in 0 .. k - 1 : n \in T => n + 1 \in T
    PROVE  \A n \in 0 .. k : n \in T
<1> DEFINE B == {n \in 0 .. k : n \notin T}
<1> SUFFICES ASSUME B # {} PROVE FALSE
  OBVIOUS
<1>1. PICK m \in B : \A j \in B : m <= j
  <2>1. B \subseteq Nat
    OBVIOUS
  <2> HIDE DEF B
  <2> QED
    BY <2>1, Least
<1>2. m # 0 /\ m - 1 \in 0 .. k - 1 /\ m - 1 \notin B
  BY <1>1
<1> QED
  BY <1>1, <1>2

\* What is left of a sequence after its first n members.
LEMMA Rest ==
    ASSUME NEW S, NEW q \in Seq(S), NEW n \in 0 .. Len(q)
    PROVE  /\ SubSeq(q, n + 1, Len(q)) \in Seq(S)
           /\ Len(SubSeq(q, n + 1, Len(q))) = Len(q) - n
           /\ \A i \in 1 .. Len(q) - n : SubSeq(q, n + 1, Len(q))[i] = q[n + i]
           /\ SubSeq(q, n + 1, Len(q)) = <<>> <=> n = Len(q)
           /\ n < Len(q) => /\ Head(SubSeq(q, n + 1, Len(q))) = q[n + 1]
                            /\ Tail(SubSeq(q, n + 1, Len(q)))
                                    = SubSeq(q, (n + 1) + 1, Len(q))
<1>1. /\ SubSeq(q, n + 1, Len(q)) \in Seq(S)
      /\ Len(SubSeq(q, n + 1, Len(q))) = Len(q) - n
      /\ \A i \in 1 .. Len(q) - n : SubSeq(q, n + 1, Len(q))[i] = q[n + i]
  BY SubSeqProperties
<1>2. SubSeq(q, n + 1, Len(q)) = <<>> <=> n = Len(q)
  <2> DEFINE u == SubSeq(q, n + 1, Len(q))
  <2>1. u \in Seq(S) /\ Len(u) = Len(q) - n /\ Len(q) \in Nat
    BY <1>1
  <2> HIDE DEF u
  <2>2. u = <<>> <=> Len(u) = 0
    BY <2>1, EmptySeq
  <2> QED
    BY <2>1, <2>2 DEF u
<1>3. ASSUME n < Len(q)
      PROVE  /\ Head(SubSeq(q, n + 1, Len(q))) = q[n + 1]
             /\ Tail(SubSeq(q, n + 1, Len(q))) = SubSeq(q, (n + 1) + 1, Len(q))
  BY <1>3, HeadTailOfSubSeq
<1> QED
  BY <1>1, <1>2, <1>3

\* The same, of what is done with the first of what is left.
LEMMA RestHead ==
    ASSUME NEW S, NEW q \in Seq(S), NEW n \in 0 .. Len(q), NEW u,
           u = SubSeq(q, n + 1, Len(q))
    PROVE  /\ u = <<>> <=> n = Len(q)
           /\ n < Len(q) => Head(u) = q[n + 1] /\ Tail(u) = SubSeq(q, (n + 1) + 1, Len(q))
<1>1. SubSeq(q, n + 1, Len(q)) = <<>> <=> n = Len(q)
  BY Rest
<1>2. n < Len(q) => /\ Head(SubSeq(q, n + 1, Len(q))) = q[n + 1]
                    /\ Tail(SubSeq(q, n + 1, Len(q))) = SubSeq(q, (n + 1) + 1, Len(q))
  BY Rest
<1> QED
  BY <1>1, <1>2, Zenon

-----------------------------------------------------------------------------
(* applyPendingStates                                                      *)

\* What applyPendingStates has when k states were popped and m points disposed of.
After(p, r, k, m) ==
    [pending |-> SubSeq(p, k + 1, Len(p)), remote |-> SubSeq(r, m + 1, Len(r)),
     commit |-> IF k = 0 THEN <<>> ELSE <<p[k]>>,
     applied |-> {r[i] : i \in 1 .. m}]

\* The points disposed of are those of the states popped, and were available.
Reached(p, r, at, k, m) ==
    /\ k \in 0 .. Len(p) /\ m \in 0 .. Len(r)
    /\ \A i \in 1 .. m : at[i] <= k /\ syncPoint[r[i]].available
    /\ \A i \in m + 1 .. Len(r) : at[i] > k

\* There is no state left, or the next one waits for a frame.
Stuck(p, r, at, k, m) ==
    \/ k = Len(p)
    \/ /\ k < Len(p) /\ m < Len(r) /\ at[m + 1] = k + 1
       /\ p[k + 1].barrierLayer # NoLayer
       /\ ~syncPoint[r[m + 1]].available

\* The place of the next state with a barrier, from the places at[i] of all.
LEMMA NextPlace ==
    ASSUME NEW P \in Nat, NEW R \in Nat, NEW at, \A i \in 1 .. R : at[i] \in 1 .. P,
           \A i, j \in 1 .. R : i < j => at[i] < at[j],
           NEW k \in 0 .. P - 1, NEW m \in 0 .. R,
           \A i \in 1 .. m : at[i] <= k, \A i \in m + 1 .. R : at[i] > k
    PROVE  /\ (\A i \in 1 .. R : at[i] # k + 1)
                => \A i \in m + 1 .. R : at[i] > k + 1
           /\ (\E i \in 1 .. R : at[i] = k + 1)
                => m < R /\ at[m + 1] = k + 1 /\ \A i \in m + 2 .. R : at[i] > k + 1
<1>1. ASSUME \A i \in 1 .. R : at[i] # k + 1 PROVE \A i \in m + 1 .. R : at[i] > k + 1
  BY <1>1
<1>2. ASSUME NEW i \in 1 .. R, at[i] = k + 1
      PROVE  m < R /\ at[m + 1] = k + 1 /\ \A j \in m + 2 .. R : at[j] > k + 1
  <2>1. i \notin 1 .. m
    BY <1>2
  <2>2. ~(i > m + 1)
    <3> SUFFICES ASSUME i > m + 1 PROVE FALSE
      OBVIOUS
    <3>1. m + 1 \in 1 .. R /\ m + 1 \in m + 1 .. R
      BY <1>2
    <3>2. at[m + 1] < at[i] /\ at[m + 1] > k
      BY <3>1
    <3> QED
      BY <1>2, <3>1, <3>2
  <2>3. i = m + 1
    BY <2>1, <2>2
  <2>4. \A j \in m + 2 .. R : at[j] > k + 1
    BY <1>2, <2>3
  <2> QED
    BY <1>2, <2>3, <2>4
<1> QED
  BY <1>1, <1>2

\* One turn of the loop: because states and points match, it stops, or pops one
\* state and with a barrier its point; the error branches are not taken.
LEMMA Turn ==
    ASSUME NEW S, NEW p \in Seq(PendingState), NEW r \in Seq(S),
           NEW at \in [DOMAIN r -> DOMAIN p], MatchedAt(syncPoint, p, r, at),
           NEW k, NEW m, Reached(p, r, at, k, m)
    PROVE  \/ Stuck(p, r, at, k, m) /\ ApplyNext(After(p, r, k, m)) = After(p, r, k, m)
           \/ \E n \in {m, m + 1} :
                 /\ ~Stuck(p, r, at, k, m) /\ Reached(p, r, at, k + 1, n)
                 /\ ApplyNext(After(p, r, k, m)) = After(p, r, k + 1, n)
<1> DEFINE s == After(p, r, k, m)
           up == SubSeq(p, k + 1, Len(p))
           ur == SubSeq(r, m + 1, Len(r))
           P == Len(p)
           R == Len(r)
<1>0. /\ k \in 0 .. P /\ m \in 0 .. R /\ P \in Nat /\ R \in Nat
      /\ DOMAIN p = 1 .. P /\ DOMAIN r = 1 .. R
  BY LenProperties DEF Reached, P, R
<1>1. /\ s.pending = up /\ s.remote = ur
      /\ s.commit = IF k = 0 THEN <<>> ELSE <<p[k]>>
      /\ s.applied = {r[i] : i \in 1 .. m}
  BY DEF After
<1>2. /\ up = <<>> <=> k = P
      /\ k < P => Head(up) = p[k + 1] /\ Tail(up) = SubSeq(p, (k + 1) + 1, P)
  <2>1. k \in 0 .. Len(p) /\ up = SubSeq(p, k + 1, Len(p))
    BY DEF Reached
  <2> HIDE DEF up
  <2>2. up = <<>> <=> k = Len(p)
    <3>1. up \in Seq(PendingState) /\ Len(up) = Len(p) - k /\ Len(p) \in Nat
      BY <2>1
    <3>2. up = <<>> <=> Len(up) = 0
      BY <3>1, EmptySeq
    <3> QED
      BY <2>1, <3>1, <3>2
  <2>3. k < Len(p)
            => Head(up) = p[k + 1] /\ Tail(up) = SubSeq(p, (k + 1) + 1, Len(p))
    BY <2>1, RestHead
  <2> QED
    BY <2>2, <2>3
<1>3. /\ ur = <<>> <=> m = R
      /\ m < R => Head(ur) = r[m + 1] /\ Tail(ur) = SubSeq(r, (m + 1) + 1, R)
  <2>1. m \in 0 .. Len(r) /\ ur = SubSeq(r, m + 1, Len(r))
    BY DEF Reached
  <2> HIDE DEF ur
  <2>2. ur = <<>> <=> m = Len(r)
    <3>1. ur \in Seq(S) /\ Len(ur) = Len(r) - m /\ Len(r) \in Nat
      BY <2>1
    <3>2. ur = <<>> <=> Len(ur) = 0
      BY <3>1, EmptySeq
    <3> QED
      BY <2>1, <3>1, <3>2
  <2>3. m < Len(r)
            => Head(ur) = r[m + 1] /\ Tail(ur) = SubSeq(r, (m + 1) + 1, Len(r))
    BY <2>1, RestHead
  <2> QED
    BY <2>2, <2>3
<1> HIDE DEF s, up, ur, P, R
<1>4. CASE k = P
  BY <1>1, <1>2, <1>4 DEF Stuck, ApplyNext, P, s
<1>p. /\ \A i \in 1 .. R : at[i] \in 1 .. P
      /\ \A i, j \in 1 .. R : i < j => at[i] < at[j]
      /\ \A i \in 1 .. m : at[i] <= k
      /\ \A i \in m + 1 .. R : at[i] > k
  <2>1. \A i \in 1 .. R : at[i] \in 1 .. P
    BY <1>0
  <2>2. \A i, j \in 1 .. R : i < j => at[i] < at[j]
    BY <1>0 DEF MatchedAt
  <2>3. (\A i \in 1 .. m : at[i] <= k) /\ (\A i \in m + 1 .. R : at[i] > k)
    BY DEF Reached, P, R
  <2> QED
    BY <2>1, <2>2, <2>3
<1>a. \A i \in 1 .. m : syncPoint[r[i]].available
  BY DEF Reached, P, R
<1>b. ASSUME k < P
      PROVE  /\ (\A i \in 1 .. R : at[i] # k + 1)
                    => \A i \in m + 1 .. R : at[i] > k + 1
             /\ (\E i \in 1 .. R : at[i] = k + 1)
                    => /\ m < R /\ at[m + 1] = k + 1
                       /\ \A i \in m + 2 .. R : at[i] > k + 1
  BY <1>0, <1>b, <1>p, NextPlace
<1>5. CASE k < P /\ p[k + 1].barrierLayer = NoLayer
  <2>1. ApplyNext(s) = Popped(s)
    <3>1. up # <<>> /\ Head(up) = p[k + 1]
      BY <1>0, <1>2, <1>5
    <3> QED
      BY <1>1, <1>5, <3>1 DEF ApplyNext
  <2>2. Popped(s) = After(p, r, k + 1, m)
    <3>1. k + 1 # 0 /\ Head(up) = p[k + 1] /\ Tail(up) = SubSeq(p, (k + 1) + 1, P)
      BY <1>0, <1>2, <1>5
    <3> QED
      BY <1>1, <3>1 DEF Popped, After, ur, P, R
  <2>3. \A i \in 1 .. R : at[i] # k + 1
    BY <1>0, <1>5 DEF MatchedAt
  <2>4. \A i \in 1 .. m : at[i] <= k + 1
    BY <1>0, <1>p
  <2>5. Reached(p, r, at, k + 1, m)
    BY <1>0, <1>a, <1>b, <1>5, <2>3, <2>4 DEF Reached, P, R
  <2>6. ~Stuck(p, r, at, k, m)
    <3>1. k # P
      BY <1>0, <1>5
    <3> QED
      BY <1>5, <3>1 DEF Stuck, P
  <2> QED
    BY <2>1, <2>2, <2>5, <2>6 DEF s
<1>6. CASE k < P /\ p[k + 1].barrierLayer # NoLayer
  <2>1. \E i \in 1 .. R : at[i] = k + 1
    BY <1>0, <1>6 DEF MatchedAt
  <2>2. m < R /\ at[m + 1] = k + 1 /\ \A i \in m + 2 .. R : at[i] > k + 1
    BY <1>b, <1>6, <2>1
  <2>3. m + 1 \in DOMAIN r
    BY <1>0, <2>2
  <2>4. syncPoint[r[m + 1]].frameNumber = p[k + 1].frameNumber
    BY <2>2, <2>3 DEF MatchedAt
  <2>5. CASE ~syncPoint[r[m + 1]].available
    <3>1. Stuck(p, r, at, k, m)
      BY <1>6, <2>2, <2>5 DEF Stuck, P, R
    <3>2. ur # <<>> /\ Head(ur) = r[m + 1] /\ up # <<>> /\ Head(up) = p[k + 1]
      BY <1>0, <1>2, <1>3, <1>6, <2>2
    <3>3. ApplyNext(s) = s
      BY <1>1, <1>6, <2>4, <2>5, <3>2 DEF ApplyNext
    <3> QED
      BY <3>1, <3>3 DEF s
  <2>6. CASE syncPoint[r[m + 1]].available
    <3>1. ur # <<>> /\ Head(ur) = r[m + 1] /\ up # <<>> /\ Head(up) = p[k + 1]
      BY <1>0, <1>2, <1>3, <1>6, <2>2
    <3>2. ApplyNext(s) = Disposed(Popped(s))
      BY <1>1, <1>6, <2>4, <2>6, <3>1 DEF ApplyNext
    <3>3. {r[j] : j \in 1 .. m + 1} = {r[j] : j \in 1 .. m} \cup {r[m + 1]}
      <4>1. 1 .. m + 1 = (1 .. m) \cup {m + 1}
        BY <1>0
      <4> QED
        BY <4>1, Zenon
    <3>4. Disposed(Popped(s))
            = [pending |-> Tail(up), remote |-> Tail(ur), commit |-> <<p[k + 1]>>,
               applied |-> {r[j] : j \in 1 .. m} \cup {r[m + 1]}]
      BY <1>1, <3>1 DEF Disposed, Popped
    <3>5. Disposed(Popped(s)) = After(p, r, k + 1, m + 1)
      <4>1. /\ k + 1 # 0 /\ Tail(up) = SubSeq(p, (k + 1) + 1, P)
            /\ Tail(ur) = SubSeq(r, (m + 1) + 1, R)
        BY <1>0, <1>2, <1>3, <1>6, <2>2
      <4>2. After(p, r, k + 1, m + 1)
              = [pending |-> Tail(up), remote |-> Tail(ur), commit |-> <<p[k + 1]>>,
                 applied |-> {r[j] : j \in 1 .. m + 1}]
        BY <4>1 DEF After, P, R
      <4> QED
        BY <3>3, <3>4, <4>2
    <3>6. \A i \in 1 .. m + 1 : at[i] <= k + 1
      <4>1. \A i \in 1 .. m + 1 : i \in 1 .. m \/ i = m + 1
        BY <1>0
      <4>2. \A i \in 1 .. m : i \in 1 .. R
        BY <1>0
      <4>3. \A i \in 1 .. m : at[i] \in Nat /\ at[i] <= k + 1
        BY <1>0, <1>p, <4>2
      <4>4. k + 1 \in Nat /\ at[m + 1] <= k + 1
        BY <1>0, <2>2
      <4> QED
        BY <4>1, <4>3, <4>4
    <3>7. \A i \in 1 .. m + 1 : syncPoint[r[i]].available
      BY <1>0, <1>a, <2>6
    <3>8. Reached(p, r, at, k + 1, m + 1)
      BY <1>0, <1>6, <2>2, <3>6, <3>7 DEF Reached, P, R
    <3>9. ~Stuck(p, r, at, k, m)
      BY <1>0, <1>6, <2>6 DEF Stuck, P
    <3> QED
      BY <3>2, <3>5, <3>8, <3>9 DEF s
  <2> QED
    BY <2>5, <2>6
<1> QED
  BY <1>0, <1>4, <1>5, <1>6

\* NextTurn is ApplyNext.
LEMMA NextTurnIs == ASSUME NEW s PROVE NextTurn(s) = ApplyNext(s)
BY DEF NextTurn

\* g is what n turns of the loop make of base, for every n up to turns.
Iteration(g, base, turns) ==
    g = [n \in 0 .. turns |-> IF n = 0 THEN base ELSE NextTurn(g[n - 1])]

\* The function that the recursion of applyPendingStates defines exists.
LEMMA Iterates ==
    ASSUME NEW base, NEW turns \in Nat
    PROVE  \E g : Iteration(g, base, turns)
<1> DEFINE G(g, k) == Iteration(g, base, k)
           T == {k \in Nat : \E g : G(g, k)}
<1>1. 0 \in T
  <2>1. G([n \in 0 .. 0 |-> base], 0)
    BY DEF Iteration
  <2> QED
    BY <2>1
<1>2. ASSUME NEW k \in Nat, k \in T PROVE k + 1 \in T
  <2>1. PICK g : G(g, k)
    BY <1>2
  <2> DEFINE h == [n \in 0 .. k + 1 |-> IF n = k + 1 THEN NextTurn(g[k]) ELSE g[n]]
  <2>2. \A n \in 0 .. k : n # 0 => g[n] = NextTurn(g[n - 1])
    BY <2>1 DEF Iteration
  <2>3. g[0] = base
    BY <2>1 DEF Iteration
  <2>4. \A n \in 0 .. k : h[n] = g[n] /\ h[k + 1] = NextTurn(g[k])
    OBVIOUS
  <2> HIDE DEF G
  <2>5. \A n \in 0 .. k + 1 : h[n] = IF n = 0 THEN base ELSE NextTurn(h[n - 1])
    <3> SUFFICES ASSUME NEW n \in 0 .. k + 1
                 PROVE  h[n] = IF n = 0 THEN base ELSE NextTurn(h[n - 1])
      OBVIOUS
    <3> HIDE DEF h
    <3>1. CASE n = 0
      BY <2>3, <2>4, <3>1
    <3>2. CASE n \in 1 .. k
      <4>1. n \in 0 .. k /\ n - 1 \in 0 .. k /\ n # 0
        BY <3>2
      <4> QED
        BY <2>2, <2>4, <4>1
    <3>3. CASE n = k + 1
      <4>1. n # 0 /\ n - 1 = k /\ k \in 0 .. k
        BY <3>3
      <4> QED
        BY <2>4, <3>3, <4>1
    <3> QED
      BY <3>1, <3>2, <3>3
  <2>6. h = [n \in 0 .. k + 1 |-> h[n]]
    OBVIOUS
  <2> HIDE DEF h
  <2>7. G(h, k + 1)
    BY <2>5, <2>6 DEF G, Iteration
  <2> QED
    BY <2>7 
<1>3. turns \in T
  <2> HIDE DEF T
  <2>1. \A n \in 0 .. turns : n \in T
    BY <1>1, <1>2, Counting
  <2> QED
    BY <2>1
<1> QED
  BY <1>3

\* What the recursion of applyPendingStates defines.
LEMMA ApplyPendingStates ==
    ASSUME NEW s, NEW turns \in Nat, turns = Len(s.pending) + Len(s.remote), NEW base,
           base = [pending |-> s.pending, remote |-> s.remote,
                   commit |-> <<>>, applied |-> {}]
    PROVE  \E f : Iteration(f, base, turns) /\ applyPendingStates(s) = f[turns]
<1> DEFINE f == CHOOSE g : Iteration(g, base, turns)
<1>1. Iteration(f, base, turns)
  BY Iterates
<1>2. applyPendingStates(s) = f[turns]
  BY DEF applyPendingStates, Iteration
<1> QED
  BY <1>1, <1>2

\* applyPendingStates pops the states up to the first one that waits for a frame
\* that is not available, and disposes of the points of those states.
LEMMA AppliedStates ==
    ASSUME NEW s, NEW S, NEW p \in Seq(PendingState), NEW r \in Seq(S),
           s.pending = p, s.remote = r,
           NEW at \in [DOMAIN r -> DOMAIN p], MatchedAt(syncPoint, p, r, at)
    PROVE  \E k, m : /\ Reached(p, r, at, k, m) /\ Stuck(p, r, at, k, m)
                     /\ applyPendingStates(s) = After(p, r, k, m)
<1> DEFINE turns == Len(p) + Len(r)
           base == [pending |-> p, remote |-> r, commit |-> <<>>, applied |-> {}]
<1>1. Len(p) \in Nat /\ Len(r) \in Nat /\ turns \in Nat
  BY LenProperties
<1>2. PICK f : Iteration(f, base, turns) /\ applyPendingStates(s) = f[turns]
  <2>1. turns = Len(s.pending) + Len(s.remote)
    OBVIOUS
  <2>2. base = [pending |-> s.pending, remote |-> s.remote,
                commit |-> <<>>, applied |-> {}]
    OBVIOUS
  <2> HIDE DEF turns, base
  <2> QED
    BY <1>1, <2>1, <2>2, ApplyPendingStates
<1>3. f[0] = base
  BY <1>1, <1>2 DEF Iteration
<1>4. \A n \in 0 .. turns - 1 : f[n + 1] = ApplyNext(f[n])
  <2> SUFFICES ASSUME NEW n \in 0 .. turns - 1 PROVE f[n + 1] = ApplyNext(f[n])
    OBVIOUS
  <2> HIDE DEF turns, base
  <2>1. n + 1 \in 0 .. turns /\ n + 1 # 0 /\ (n + 1) - 1 = n
    BY <1>1
  <2>2. f[n + 1] = NextTurn(f[n])
    BY <1>2, <2>1 DEF Iteration
  <2> QED
    BY <2>2, NextTurnIs
<1> DEFINE Good(n, k, m) == /\ Reached(p, r, at, k, m) /\ f[n] = After(p, r, k, m)
                            /\ Stuck(p, r, at, k, m) \/ k >= n
           T == {n \in Nat : \E k, m : Good(n, k, m)}
<1>5. 0 \in T
  <2>1. base = After(p, r, 0, 0)
    <3>1. SubSeq(p, 0 + 1, Len(p)) = p /\ SubSeq(r, 0 + 1, Len(r)) = r
      BY SubSeqFull
    <3>2. {r[i] : i \in 1 .. 0} = {}
      OBVIOUS
    <3> QED
      BY <3>1, <3>2 DEF After
  <2>2. at \in [1 .. Len(r) -> 1 .. Len(p)]
    BY LenProperties
  <2>3. Reached(p, r, at, 0, 0)
    BY <1>1, <2>2 DEF Reached
  <2>4. Good(0, 0, 0)
    BY <1>3, <2>1, <2>3
  <2> QED
    BY <2>4
<1>6. ASSUME NEW n \in 0 .. turns - 1, n \in T PROVE n + 1 \in T
  <2>1. PICK k, m : Good(n, k, m)
    BY <1>6
  <2>2. k \in Nat /\ n \in Nat
    BY <1>1, <2>1 DEF Reached
  <2>3. CASE Stuck(p, r, at, k, m) /\ ApplyNext(After(p, r, k, m)) = After(p, r, k, m)
    <3>1. Good(n + 1, k, m)
      BY <1>4, <1>6, <2>1, <2>3
    <3> QED
      BY <2>2, <3>1
  <2>4. ASSUME NEW j \in {m, m + 1}, Reached(p, r, at, k + 1, j),
               ApplyNext(After(p, r, k, m)) = After(p, r, k + 1, j), ~Stuck(p, r, at, k, m)
        PROVE  n + 1 \in T
    <3>1. f[n + 1] = After(p, r, k + 1, j)
      BY <1>4, <1>6, <2>1, <2>4
    <3>2. k + 1 >= n + 1
      BY <2>1, <2>2, <2>4
    <3>3. Good(n + 1, k + 1, j)
      BY <2>4, <3>1, <3>2
    <3> QED
      BY <2>2, <3>3
  <2> QED
    <3>1. Reached(p, r, at, k, m)
      BY <2>1
    <3>2. \/ Stuck(p, r, at, k, m) /\ ApplyNext(After(p, r, k, m)) = After(p, r, k, m)
          \/ \E j \in {m, m + 1} :
                /\ ~Stuck(p, r, at, k, m) /\ Reached(p, r, at, k + 1, j)
                /\ ApplyNext(After(p, r, k, m)) = After(p, r, k + 1, j)
      BY <3>1, Turn
    <3> HIDE DEF T, turns
    <3> QED
      BY <2>3, <2>4, <3>2, Zenon
<1>7. \A n \in 0 .. turns : n \in T
  <2> HIDE DEF T, turns
  <2> QED
    BY <1>1, <1>5, <1>6, Counting
<1>8. PICK k, m : Good(turns, k, m)
  <2> HIDE DEF turns
  <2>1. turns \in T
    BY <1>1, <1>7
  <2> QED
    BY <2>1
<1>9. Stuck(p, r, at, k, m)
  <2>1. k \in 0 .. Len(p) /\ (k >= Len(p) + Len(r) => k = Len(p))
    BY <1>1, <1>8 DEF Reached
  <2> QED
    BY <1>1, <1>8, <2>1 DEF Stuck
<1> QED
  BY <1>2, <1>8, <1>9

-----------------------------------------------------------------------------
(* States and points that match                                            *)

\* Points that keep their layer and frame match the same states.
LEMMA MatchedPoints ==
    ASSUME NEW p, NEW r, NEW points, NEW new,
           \A i \in DOMAIN r : /\ new[r[i]].frameNumber = points[r[i]].frameNumber
                               /\ new[r[i]].of = points[r[i]].of,
           Matched(points, p, r)
    PROVE  Matched(new, p, r)
<1>1. PICK at \in [DOMAIN r -> DOMAIN p] : MatchedAt(points, p, r, at)
  BY DEF Matched
<1>2. MatchedAt(new, p, r, at)
  BY <1>1 DEF MatchedAt
<1> QED
  BY <1>2 DEF Matched

\* A state without a barrier needs no point.
LEMMA MatchedPush ==
    ASSUME NEW S, NEW p \in Seq(PendingState), NEW r \in Seq(S), NEW points,
           NEW st \in PendingState, st.barrierLayer = NoLayer,
           Matched(points, p, r)
    PROVE  Matched(points, Append(p, st), r)
<1>1. PICK at \in [DOMAIN r -> DOMAIN p] : MatchedAt(points, p, r, at)
  BY DEF Matched
<1> DEFINE q == Append(p, st)
           n == Len(p)
           D == DOMAIN r
<1>2. /\ DOMAIN p = 1 .. n /\ DOMAIN q = 1 .. n + 1 /\ n \in Nat
      /\ \A i \in 1 .. n : q[i] = p[i]
      /\ q[n + 1] = st
  BY AppendProperties, LenProperties
<1> HIDE DEF q, n, D
<1>a. \A i \in D : at[i] \in 1 .. n
  BY <1>1, <1>2 DEF D
<1>b. /\ \A i, j \in D : i < j => at[i] < at[j]
      /\ \A k \in 1 .. n : p[k].barrierLayer # NoLayer <=> \E i \in D : at[i] = k
      /\ \A i \in D : /\ points[r[i]].frameNumber = p[at[i]].frameNumber
                      /\ points[r[i]].of = p[at[i]].barrierLayer
  BY <1>1, <1>2 DEF MatchedAt, D
<1>3. at \in [D -> 1 .. n + 1]
  BY <1>1, <1>2, <1>a DEF D
<1>4. \A k \in 1 .. n + 1 : q[k].barrierLayer # NoLayer <=> \E i \in D : at[i] = k
  <2>1. \A k \in 1 .. n : q[k].barrierLayer # NoLayer <=> \E i \in D : at[i] = k
    BY <1>2, <1>b
  <2>2. ~ \E i \in D : at[i] = n + 1
    BY <1>2, <1>a
  <2>3. \A k \in 1 .. n + 1 : k \in 1 .. n \/ k = n + 1
    BY <1>2
  <2> QED
    BY <1>2, <2>1, <2>2, <2>3
<1>5. \A i \in D : /\ points[r[i]].frameNumber = q[at[i]].frameNumber
                   /\ points[r[i]].of = q[at[i]].barrierLayer
  BY <1>2, <1>a, <1>b
<1>6. MatchedAt(points, q, r, at)
  BY <1>2, <1>b, <1>4, <1>5 DEF MatchedAt, D
<1> QED
  BY <1>2, <1>3, <1>6 DEF Matched, q, D

\* A state with a barrier and its point are added at the same time.
LEMMA MatchedDefer ==
    ASSUME NEW S, NEW p \in Seq(PendingState), NEW r \in Seq(S), NEW points,
           NEW st \in PendingState, NEW new \in S, st.barrierLayer # NoLayer,
           points[new].frameNumber = st.frameNumber, points[new].of = st.barrierLayer,
           Matched(points, p, r)
    PROVE  Matched(points, Append(p, st), Append(r, new))
<1>1. PICK at \in [DOMAIN r -> DOMAIN p] : MatchedAt(points, p, r, at)
  BY DEF Matched
<1> DEFINE q == Append(p, st)
           u == Append(r, new)
           n == Len(p)
           m == Len(r)
           to == [i \in 1 .. m + 1 |-> IF i = m + 1 THEN n + 1 ELSE at[i]]
<1>2. /\ DOMAIN p = 1 .. n /\ DOMAIN q = 1 .. n + 1 /\ n \in Nat
      /\ \A i \in 1 .. n : q[i] = p[i]
      /\ q[n + 1] = st
  BY AppendProperties, LenProperties
<1>3. /\ DOMAIN r = 1 .. m /\ DOMAIN u = 1 .. m + 1 /\ m \in Nat
      /\ \A i \in 1 .. m : u[i] = r[i]
      /\ u[m + 1] = new
  BY AppendProperties, LenProperties
<1> HIDE DEF q, u, n, m
<1>a. \A i \in 1 .. m : at[i] \in 1 .. n
  BY <1>1, <1>2, <1>3
<1>b. /\ \A i, j \in 1 .. m : i < j => at[i] < at[j]
      /\ \A k \in 1 .. n : p[k].barrierLayer # NoLayer <=> \E i \in 1 .. m : at[i] = k
      /\ \A i \in 1 .. m : /\ points[r[i]].frameNumber = p[at[i]].frameNumber
                           /\ points[r[i]].of = p[at[i]].barrierLayer
  BY <1>1, <1>2, <1>3 DEF MatchedAt
<1>c. to[m + 1] = n + 1 /\ \A i \in 1 .. m : to[i] = at[i]
  BY <1>3
<1>d. to \in [1 .. m + 1 -> 1 .. n + 1]
  BY <1>2, <1>3, <1>a
<1> HIDE DEF to
<1>e. \A i \in 1 .. m + 1 : i \in 1 .. m \/ i = m + 1
  BY <1>3
<1>f. \A k \in 1 .. n + 1 : k \in 1 .. n \/ k = n + 1
  BY <1>2
<1>4. \A i, j \in 1 .. m + 1 : i < j => to[i] < to[j]
  BY <1>2, <1>3, <1>a, <1>b, <1>c
<1>5. \A k \in 1 .. n + 1 : q[k].barrierLayer # NoLayer
                                <=> \E i \in 1 .. m + 1 : to[i] = k
  <2>1. ASSUME NEW k \in 1 .. n
        PROVE  q[k].barrierLayer # NoLayer <=> \E i \in 1 .. m + 1 : to[i] = k
    <3>1. k # n + 1 /\ \A i \in 1 .. m : i \in 1 .. m + 1
      BY <1>2, <1>3
    <3>2. (\E i \in 1 .. m + 1 : to[i] = k) <=> \E i \in 1 .. m : at[i] = k
      BY <1>c, <1>e, <3>1
    <3> QED
      BY <1>2, <1>b, <3>2
  <2>2. m + 1 \in 1 .. m + 1
    BY <1>3
  <2> QED
    BY <1>2, <1>c, <1>f, <2>1, <2>2
<1>6. \A i \in 1 .. m + 1 : /\ points[u[i]].frameNumber = q[to[i]].frameNumber
                            /\ points[u[i]].of = q[to[i]].barrierLayer
  <2>1. ASSUME NEW i \in 1 .. m
        PROVE  u[i] = r[i] /\ to[i] = at[i] /\ q[to[i]] = p[at[i]]
    BY <1>2, <1>3, <1>a, <1>c
  <2>2. ASSUME NEW i \in 1 .. m
        PROVE  /\ points[u[i]].frameNumber = q[to[i]].frameNumber
               /\ points[u[i]].of = q[to[i]].barrierLayer
    BY <1>b, <2>1
  <2>3. /\ points[u[m + 1]].frameNumber = q[to[m + 1]].frameNumber
        /\ points[u[m + 1]].of = q[to[m + 1]].barrierLayer
    BY <1>2, <1>3, <1>c
  <2> QED
    BY <1>e, <2>2, <2>3
<1>7. MatchedAt(points, q, u, to)
  BY <1>2, <1>3, <1>4, <1>5, <1>6 DEF MatchedAt
<1> QED
  BY <1>2, <1>3, <1>d, <1>7 DEF Matched, q, u

\* What is left when states are popped together with their points.
LEMMA MatchedRest ==
    ASSUME NEW S, NEW p \in Seq(PendingState), NEW r \in Seq(S),
           NEW at \in [DOMAIN r -> DOMAIN p], MatchedAt(syncPoint, p, r, at),
           NEW k, NEW m, Reached(p, r, at, k, m)
    PROVE  Matched(syncPoint, SubSeq(p, k + 1, Len(p)), SubSeq(r, m + 1, Len(r)))
<1> DEFINE q == SubSeq(p, k + 1, Len(p))
           u == SubSeq(r, m + 1, Len(r))
           P == Len(p)
           R == Len(r)
           to == [i \in 1 .. R - m |-> at[m + i] - k]
<1>1. /\ k \in 0 .. P /\ m \in 0 .. R /\ P \in Nat /\ R \in Nat
      /\ DOMAIN p = 1 .. P /\ DOMAIN r = 1 .. R
  BY LenProperties DEF Reached
<1>2. DOMAIN q = 1 .. P - k /\ \A i \in 1 .. P - k : q[i] = p[k + i]
  BY <1>1, Rest, LenProperties
<1>3. DOMAIN u = 1 .. R - m /\ \A i \in 1 .. R - m : u[i] = r[m + i]
  BY <1>1, Rest, LenProperties
<1>4. /\ \A i \in 1 .. m : at[i] <= k
      /\ \A i \in m + 1 .. R : at[i] > k
  BY DEF Reached
<1> HIDE DEF q, u, P, R
<1>a. \A i \in 1 .. R : at[i] \in 1 .. P
  BY <1>1
<1>b. /\ \A i, j \in 1 .. R : i < j => at[i] < at[j]
      /\ \A j \in 1 .. P : p[j].barrierLayer # NoLayer <=> \E i \in 1 .. R : at[i] = j
      /\ \A i \in 1 .. R : /\ syncPoint[r[i]].frameNumber = p[at[i]].frameNumber
                           /\ syncPoint[r[i]].of = p[at[i]].barrierLayer
  BY <1>1 DEF MatchedAt
<1>c. \A i \in 1 .. R - m : m + i \in 1 .. R /\ m + i \in m + 1 .. R
  BY <1>1
<1>d. \A i \in 1 .. R - m : to[i] \in 1 .. P - k /\ k + to[i] = at[m + i]
  BY <1>1, <1>4, <1>a, <1>c
<1>e. to \in [1 .. R - m -> 1 .. P - k]
  BY <1>d
<1> HIDE DEF to
<1>5. \A i, j \in 1 .. R - m : i < j => to[i] < to[j]
  <2> SUFFICES ASSUME NEW i \in 1 .. R - m, NEW j \in 1 .. R - m, i < j
               PROVE  to[i] < to[j]
    OBVIOUS
  <2>0. m + i < m + j
    BY <1>1
  <2>1. at[m + i] < at[m + j]
    BY <1>b, <1>c, <2>0
  <2>2. /\ to[i] \in Int /\ k + to[i] = at[m + i]
        /\ to[j] \in Int /\ k + to[j] = at[m + j] /\ k \in Int
    <3>1. \A h \in 1 .. P - k : h \in Int
      OBVIOUS
    <3>2. k \in Int
      BY <1>1
    <3> QED
      BY <1>d, <3>1, <3>2, Zenon
  <2>3. k + to[i] < k + to[j]
    BY <2>1, <2>2, Zenon
  <2> HIDE DEF to
  <2> QED
    BY <2>2, <2>3
<1>6. \A j \in 1 .. P - k : q[j].barrierLayer # NoLayer
                                <=> \E i \in 1 .. R - m : to[i] = j
  <2> SUFFICES ASSUME NEW j \in 1 .. P - k
               PROVE  q[j].barrierLayer # NoLayer <=> \E i \in 1 .. R - m : to[i] = j
    OBVIOUS
  <2>1. k + j \in 1 .. P /\ k + j > k
    BY <1>1
  <2>2. q[j].barrierLayer # NoLayer <=> \E i \in 1 .. R : at[i] = k + j
    BY <1>2, <1>b, <2>1
  <2>3. ASSUME NEW i \in 1 .. R, at[i] = k + j PROVE i - m \in 1 .. R - m /\ to[i - m] = j
    <3>1. i \notin 1 .. m
      BY <1>1, <1>4, <2>1, <2>3
    <3>2. i - m \in 1 .. R - m /\ m + (i - m) = i
      BY <1>1, <3>1
    <3>3. k + to[i - m] = k + j /\ to[i - m] \in 1 .. P - k
      BY <1>d, <2>3, <3>2
    <3> QED
      BY <1>1, <3>2, <3>3
  <2>4. ASSUME NEW i \in 1 .. R - m, to[i] = j PROVE m + i \in 1 .. R /\ at[m + i] = k + j
    BY <1>c, <1>d, <2>4
  <2> QED
    BY <2>2, <2>3, <2>4
<1>7. \A i \in 1 .. R - m : /\ syncPoint[u[i]].frameNumber = q[to[i]].frameNumber
                            /\ syncPoint[u[i]].of = q[to[i]].barrierLayer
  <2> SUFFICES ASSUME NEW i \in 1 .. R - m
               PROVE  /\ syncPoint[u[i]].frameNumber = q[to[i]].frameNumber
                      /\ syncPoint[u[i]].of = q[to[i]].barrierLayer
    OBVIOUS
  <2>1. u[i] = r[m + i] /\ q[to[i]] = p[at[m + i]]
    BY <1>2, <1>3, <1>d
  <2> QED
    BY <1>b, <1>c, <2>1
<1>8. MatchedAt(syncPoint, q, u, to)
  BY <1>2, <1>3, <1>5, <1>6, <1>7 DEF MatchedAt
<1> QED
  BY <1>2, <1>3, <1>e, <1>8 DEF Matched, q, u

-----------------------------------------------------------------------------
(* The states of one layer: c is current, d is drawn, p are pending        *)

\* The types of the two states of a layer.
CurrentState == [version : Version, hidden : BOOLEAN, modified : BOOLEAN]
DrawingState == [version : Version, hidden : BOOLEAN]

\* The versions grow from the state drawn to the current one.
VersionsGrow(c, d, p) ==
    /\ d.version <= c.version
    /\ \A i \in 1 .. Len(p) : d.version <= p[i].version /\ p[i].version <= c.version
    /\ \A i, j \in 1 .. Len(p) : i <= j => p[i].version <= p[j].version

\* A layer that was hidden stays hidden.
HidesForGood(c, d, p) ==
    /\ d.hidden => c.hidden
    /\ \A i \in 1 .. Len(p) :
          (d.hidden => p[i].hidden) /\ (p[i].hidden => c.hidden)
    /\ \A i, j \in 1 .. Len(p) : i <= j => (p[i].hidden => p[j].hidden)

\* The state that will be drawn last is the current one.
EndsInCurrent(c, d, p) ==
    IF Len(p) = 0 THEN d.version = c.version ELSE p[Len(p)].version = c.version

\* How the states of a layer are related; a state that is modified is not
\* pushed yet.
StateInv(c, d, p) ==
    /\ VersionsGrow(c, d, p)
    /\ HidesForGood(c, d, p)
    /\ ~c.modified => EndsInCurrent(c, d, p)

\* The current state may be put at the end of the states that wait.
LEMMA AppendState ==
    ASSUME NEW c \in CurrentState, NEW d \in DrawingState,
           NEW p \in Seq(PendingState), NEW st \in PendingState,
           st.version = c.version, st.hidden = c.hidden,
           VersionsGrow(c, d, p), HidesForGood(c, d, p)
    PROVE  /\ VersionsGrow(c, d, Append(p, st)) /\ HidesForGood(c, d, Append(p, st))
           /\ EndsInCurrent(c, d, Append(p, st))
<1> DEFINE q == Append(p, st)
           n == Len(p)
<1>1. /\ Len(q) = n + 1 /\ n \in Nat /\ q[n + 1] = st
      /\ \A i \in 1 .. n : q[i] = p[i] /\ p[i] \in PendingState
  BY AppendProperties, LenProperties, ElementOfSeq
<1> HIDE DEF q
<1>2. \A i \in 1 .. n + 1 : i \in 1 .. n \/ i = n + 1
  BY <1>1
<1>3. /\ c.version \in Nat /\ d.version \in Nat /\ c.hidden \in BOOLEAN
      /\ d.hidden \in BOOLEAN /\ st.version \in Nat /\ st.hidden \in BOOLEAN
      /\ \A i \in 1 .. n : p[i].version \in Nat /\ p[i].hidden \in BOOLEAN
  BY <1>1 DEF CurrentState, DrawingState, PendingState, Version
<1>4. VersionsGrow(c, d, q)
  <2>1. \A i \in 1 .. n : d.version <= q[i].version /\ q[i].version <= c.version
    BY <1>1 DEF VersionsGrow
  <2>2. \A i, j \in 1 .. n : i <= j => q[i].version <= q[j].version
    BY <1>1 DEF VersionsGrow
  <2>3. d.version <= c.version
    BY DEF VersionsGrow
  <2>4. \A i \in 1 .. n + 1 : d.version <= q[i].version /\ q[i].version <= c.version
    BY <1>1, <1>2, <1>3, <2>1, <2>3
  <2>5. \A i, j \in 1 .. n + 1 : i <= j => q[i].version <= q[j].version
    <3> SUFFICES ASSUME NEW i \in 1 .. n + 1, NEW j \in 1 .. n + 1, i <= j
                 PROVE  q[i].version <= q[j].version
      OBVIOUS
    <3>1. CASE j \in 1 .. n
      <4>1. i \in 1 .. n
        BY <1>1, <3>1
      <4> QED
        BY <2>2, <3>1, <4>1
    <3>2. CASE j = n + 1
      BY <1>1, <2>4, <3>2
    <3> QED
      BY <1>2, <3>1, <3>2
  <2> QED
    BY <1>1, <2>3, <2>4, <2>5 DEF VersionsGrow
<1>5. HidesForGood(c, d, q)
  <2>0. d.hidden => c.hidden
    BY DEF HidesForGood
  <2>1. \A i \in 1 .. n : (d.hidden => q[i].hidden) /\ (q[i].hidden => c.hidden)
    BY <1>1 DEF HidesForGood
  <2>2. \A i, j \in 1 .. n : i <= j => (q[i].hidden => q[j].hidden)
    BY <1>1 DEF HidesForGood
  <2>3. \A i \in 1 .. n + 1 : (d.hidden => q[i].hidden) /\ (q[i].hidden => c.hidden)
    <3>1. (d.hidden => q[n + 1].hidden) /\ (q[n + 1].hidden => c.hidden)
      BY <1>1, <2>0
    <3> QED
      BY <1>2, <2>1, <3>1
  <2>4. \A i, j \in 1 .. n + 1 : i <= j => (q[i].hidden => q[j].hidden)
    <3> SUFFICES ASSUME NEW i \in 1 .. n + 1, NEW j \in 1 .. n + 1, i <= j
                 PROVE  q[i].hidden => q[j].hidden
      OBVIOUS
    <3>1. CASE j \in 1 .. n
      <4>1. i \in 1 .. n
        BY <1>1, <3>1
      <4> QED
        BY <2>2, <3>1, <4>1
    <3>2. CASE j = n + 1
      BY <1>1, <2>3, <3>2
    <3> QED
      BY <1>2, <3>1, <3>2
  <2> QED
    BY <1>1, <2>0, <2>3, <2>4 DEF HidesForGood
<1>6. EndsInCurrent(c, d, q)
  BY <1>1 DEF EndsInCurrent
<1> QED
  BY <1>4, <1>5, <1>6 DEF q

\* When the k-th state is drawn, those behind it are left.
LEMMA DrawState ==
    ASSUME NEW c \in CurrentState, NEW d \in DrawingState,
           NEW p \in Seq(PendingState), NEW k \in 1 .. Len(p), NEW e \in DrawingState,
           e.version = p[k].version, e.hidden = p[k].hidden,
           VersionsGrow(c, d, p), HidesForGood(c, d, p), EndsInCurrent(c, d, p)
    PROVE  /\ VersionsGrow(c, e, SubSeq(p, k + 1, Len(p)))
           /\ HidesForGood(c, e, SubSeq(p, k + 1, Len(p)))
           /\ EndsInCurrent(c, e, SubSeq(p, k + 1, Len(p)))
           /\ d.version <= e.version /\ (d.hidden => e.hidden)
<1> DEFINE q == SubSeq(p, k + 1, Len(p))
           n == Len(p)
<1>1. /\ Len(q) = n - k /\ n \in Nat /\ k \in 1 .. n
      /\ \A i \in 1 .. n - k : q[i] = p[k + i]
  BY Rest, LenProperties
<1> HIDE DEF q, n
<1>2. \A i \in 1 .. n - k : k + i \in 1 .. n /\ k <= k + i
  BY <1>1
<1>3. VersionsGrow(c, e, q)
  <2>1. \A i, j \in 1 .. n - k : i <= j => k + i <= k + j
    BY <1>1
  <2> QED
    BY <1>1, <1>2, <2>1 DEF VersionsGrow, n
<1>4. HidesForGood(c, e, q)
  <2>1. \A i, j \in 1 .. n - k : i <= j => k + i <= k + j
    BY <1>1
  <2>2. /\ \A i \in 1 .. n : p[i].hidden => c.hidden
        /\ \A i, j \in 1 .. n : i <= j => (p[i].hidden => p[j].hidden)
    BY DEF HidesForGood, n
  <2>3. e.hidden => c.hidden
    BY <1>1, <2>2
  <2>4. \A i \in 1 .. n - k : (e.hidden => q[i].hidden) /\ (q[i].hidden => c.hidden)
    BY <1>1, <1>2, <2>2
  <2>5. \A i, j \in 1 .. n - k : i <= j => (q[i].hidden => q[j].hidden)
    BY <1>1, <1>2, <2>1, <2>2
  <2> QED
    BY <1>1, <2>3, <2>4, <2>5 DEF HidesForGood
<1>5. EndsInCurrent(c, e, q)
  <2>1. p[n].version = c.version
    BY <1>1 DEF EndsInCurrent, n
  <2>2. CASE k = n
    BY <1>1, <2>1, <2>2 DEF EndsInCurrent
  <2>3. CASE k # n
    <3>1. n - k \in 1 .. n - k /\ k + (n - k) = n /\ n - k # 0
      BY <1>1, <2>3
    <3>2. q[n - k] = p[n]
      BY <1>1, <3>1
    <3> QED
      BY <1>1, <2>1, <3>1, <3>2 DEF EndsInCurrent
  <2> QED
    BY <2>2, <2>3
<1>6. d.version <= e.version /\ (d.hidden => e.hidden)
  <2>1. d.version <= p[k].version
    BY <1>1 DEF VersionsGrow, n
  <2>2. d.hidden => p[k].hidden
    BY <1>1 DEF HidesForGood, n
  <2> QED
    BY <2>1, <2>2
<1> QED
  BY <1>3, <1>4, <1>5, <1>6 DEF q

-----------------------------------------------------------------------------
(* Sync points                                                             *)

\* The type of a sync point: layer "by" waits for a frame of layer "of".
SyncPoint == [of : Layers, by : Layers, frameNumber : Nat,
              available : BOOLEAN, applied : BOOLEAN]

\* new has the points of old, of which some were made available and some were
\* marked as applied.
PointsStep(old, new, available, applied) ==
    /\ new \in Seq(SyncPoint) /\ DOMAIN new = DOMAIN old
    /\ \A i \in DOMAIN old :
          /\ new[i].of = old[i].of /\ new[i].by = old[i].by
          /\ new[i].frameNumber = old[i].frameNumber
          /\ new[i].available <=> old[i].available \/ i \in available
          /\ new[i].applied <=> old[i].applied \/ i \in applied

\* Making points available, or marking them as applied, leaves the rest of them.
LEMMA SetPoints ==
    ASSUME NEW points \in Seq(SyncPoint), NEW which
    PROVE  /\ PointsStep(points, SetAvailable(points, which), which, {})
           /\ PointsStep(points, SetApplied(points, which), {}, which)
<1>1. DOMAIN points = 1 .. Len(points) /\ Len(points) \in Nat
  BY LenProperties
<1>2. \A i \in DOMAIN points : points[i] \in SyncPoint
  BY <1>1, ElementOfSeq
<1>3. ASSUME NEW i \in DOMAIN points, NEW b \in BOOLEAN
      PROVE  LET new == [points[i] EXCEPT !.available = b] IN
             /\ new \in SyncPoint
             /\ new.of = points[i].of /\ new.by = points[i].by
             /\ new.frameNumber = points[i].frameNumber
             /\ new.applied = points[i].applied
             /\ new.available = b
  BY <1>2 DEF SyncPoint
<1>4. ASSUME NEW i \in DOMAIN points, NEW b \in BOOLEAN
      PROVE  LET new == [points[i] EXCEPT !.applied = b] IN
             /\ new \in SyncPoint
             /\ new.of = points[i].of /\ new.by = points[i].by
             /\ new.frameNumber = points[i].frameNumber
             /\ new.available = points[i].available
             /\ new.applied = b
  BY <1>2 DEF SyncPoint
<1>5. \A i \in DOMAIN points : /\ (points[i].available \/ i \in which) \in BOOLEAN
                               /\ (points[i].applied \/ i \in which) \in BOOLEAN
  OBVIOUS
<1>6. \A i \in DOMAIN points :
        /\ SetAvailable(points, which)[i]
              = [points[i] EXCEPT !.available = points[i].available \/ i \in which]
        /\ SetApplied(points, which)[i]
              = [points[i] EXCEPT !.applied = points[i].applied \/ i \in which]
  BY DEF SetAvailable, SetApplied
<1>7. DOMAIN SetAvailable(points, which) = DOMAIN points /\ DOMAIN SetApplied(points, which) = DOMAIN points
  BY DEF SetAvailable, SetApplied
<1>8. SetAvailable(points, which) \in [DOMAIN points -> SyncPoint]
  BY <1>3, <1>5, <1>6 DEF SetAvailable
<1>9. SetApplied(points, which) \in [DOMAIN points -> SyncPoint]
  BY <1>4, <1>5, <1>6 DEF SetApplied
<1>10. \A f \in [1 .. Len(points) -> SyncPoint] : f \in Seq(SyncPoint)
  BY <1>1
<1>11. \A i \in DOMAIN points :
          LET new == SetAvailable(points, which)[i] IN
          /\ new.of = points[i].of /\ new.by = points[i].by
          /\ new.frameNumber = points[i].frameNumber
          /\ new.applied = points[i].applied
          /\ new.available <=> points[i].available \/ i \in which
  <2> TAKE i \in DOMAIN points
  <2> DEFINE b == points[i].available \/ i \in which
  <2>1. b \in BOOLEAN
    OBVIOUS
  <2>2. SetAvailable(points, which)[i] = [points[i] EXCEPT !.available = b]
    BY <1>6
  <2>3. b <=> points[i].available \/ i \in which
    OBVIOUS
  <2> HIDE DEF b
  <2> QED
    BY <1>3, <2>1, <2>2, <2>3
<1>12. \A i \in DOMAIN points :
          LET new == SetApplied(points, which)[i] IN
          /\ new.of = points[i].of /\ new.by = points[i].by
          /\ new.frameNumber = points[i].frameNumber
          /\ new.available = points[i].available
          /\ new.applied <=> points[i].applied \/ i \in which
  <2> TAKE i \in DOMAIN points
  <2> DEFINE b == points[i].applied \/ i \in which
  <2>1. b \in BOOLEAN
    OBVIOUS
  <2>2. SetApplied(points, which)[i] = [points[i] EXCEPT !.applied = b]
    BY <1>6
  <2>3. b <=> points[i].applied \/ i \in which
    OBVIOUS
  <2> HIDE DEF b
  <2> QED
    BY <1>4, <2>1, <2>2, <2>3
<1>13. SetAvailable(points, which) \in Seq(SyncPoint) /\ SetApplied(points, which) \in Seq(SyncPoint)
  BY <1>1, <1>8, <1>9, <1>10
<1> QED
  BY <1>7, <1>11, <1>12, <1>13 DEF PointsStep

\* Both at a time.
LEMMA SetBoth ==
    ASSUME NEW points \in Seq(SyncPoint), NEW which, NEW applied
    PROVE  PointsStep(points, SetAvailable(SetApplied(points, applied), which),
                      which, applied)
<1> DEFINE mid == SetApplied(points, applied)
           new == SetAvailable(mid, which)
<1>1. PointsStep(points, mid, {}, applied)
  BY SetPoints
<1>2. PointsStep(mid, new, which, {})
  <2>1. mid \in Seq(SyncPoint)
    BY <1>1 DEF PointsStep
  <2> HIDE DEF mid
  <2> QED
    BY <2>1, SetPoints
<1> HIDE DEF mid, new
<1>3. PointsStep(points, new, which, applied)
  BY <1>1, <1>2 DEF PointsStep
<1> QED
  BY <1>3 DEF new, mid

-----------------------------------------------------------------------------
(* The operations on a layer                                               *)

\* The type of what a layer keeps, with sync points from a set.
LayerState(points) == [current : CurrentState, drawing : DrawingState,
                       pending : Seq(PendingState), remote : Seq(points)]

\* pushPendingState puts what was changed at the end of the states that wait.
LEMMA PushState ==
    ASSUME NEW S, NEW points, NEW s \in LayerState(S),
           StateInv(s.current, s.drawing, s.pending), Matched(points, s.pending, s.remote)
    PROVE  LET t == pushPendingState(s) IN
           /\ t \in LayerState(S)
           /\ t.current = s.current /\ t.drawing = s.drawing /\ t.remote = s.remote
           /\ VersionsGrow(t.current, t.drawing, t.pending)
           /\ HidesForGood(t.current, t.drawing, t.pending)
           /\ EndsInCurrent(t.current, t.drawing, t.pending)
           /\ Matched(points, t.pending, t.remote)
           /\ s.pending # <<>> => t.pending # <<>> /\ Head(t.pending) = Head(s.pending)
<1> DEFINE st == [version |-> s.current.version, hidden |-> s.current.hidden,
                  barrierLayer |-> NoLayer, frameNumber |-> 0]
           q == Append(s.pending, st)
           t == [s EXCEPT !.pending = q]
<1>0. /\ s.current \in CurrentState /\ s.drawing \in DrawingState
      /\ s.pending \in Seq(PendingState) /\ s.remote \in Seq(S)
  BY DEF LayerState
<1>1. CASE ~s.current.modified
  BY <1>1 DEF pushPendingState, StateInv
<1>2. CASE s.current.modified
  <2>1. st \in PendingState /\ st.barrierLayer = NoLayer
        /\ st.version = s.current.version /\ st.hidden = s.current.hidden
    BY <1>0 DEF CurrentState, PendingState
  <2> HIDE DEF st
  <2>2. q \in Seq(PendingState) /\ q # <<>>
        /\ (s.pending # <<>> => Head(q) = Head(s.pending))
    BY <1>0, <2>1, AppendProperties, HeadTailAppend
  <2>3. /\ VersionsGrow(s.current, s.drawing, q) /\ HidesForGood(s.current, s.drawing, q)
        /\ EndsInCurrent(s.current, s.drawing, q)
    BY <1>0, <2>1, AppendState DEF StateInv
  <2>4. Matched(points, q, s.remote)
    BY <1>0, <2>1, MatchedPush
  <2> HIDE DEF q
  <2>5. /\ t \in LayerState(S) /\ t.pending = q
        /\ t.current = s.current /\ t.drawing = s.drawing /\ t.remote = s.remote
    BY <1>0, <2>2 DEF LayerState
  <2> HIDE DEF t
  <2>6. pushPendingState(s) = t
    BY <1>2 DEF pushPendingState, t, q, st
  <2> QED
    BY <2>2, <2>3, <2>4, <2>5, <2>6
<1> QED
  BY <1>1, <1>2

\* doTransaction(l) makes new of the state of l.
Transacted(l, new, which, applied) ==
    LET old == layer[l] IN
    /\ new \in LayerState(DOMAIN syncPoint)
    /\ layer' = [layer EXCEPT ![l] = new]
    /\ PointsStep(syncPoint, syncPoint', which, applied)
    /\ applied \subseteq DOMAIN syncPoint /\ \A i \in applied : syncPoint[i].available
    /\ which \subseteq mLocalSyncPoints[l] /\ (which # {} => new.drawing.hidden)
    /\ mLocalSyncPoints' \in {mLocalSyncPoints, [mLocalSyncPoints EXCEPT ![l] = {}]}
    /\ mTransactionFlags' = IF new.pending # <<>> THEN mTransactionFlags \cup {l}
                                                  ELSE mTransactionFlags \ {l}
    /\ new.current.version = old.current.version
    /\ old.drawing.version <= new.drawing.version
    /\ old.drawing.hidden => new.drawing.hidden
    /\ StateInv(new.current, new.drawing, new.pending)
    /\ Matched(syncPoint, new.pending, new.remote)
    /\ Range(new.remote) \subseteq Range(old.remote)
    /\ IF new.pending = <<>> THEN new.drawing.version = new.current.version
                             ELSE Head(new.pending).barrierLayer # NoLayer

\* What doTransaction does, without its loop.
LEMMA DoTransaction ==
    ASSUME syncPoint \in Seq(SyncPoint), layer \in [Layers -> LayerState(DOMAIN syncPoint)],
           mLocalSyncPoints \in [Layers -> SUBSET DOMAIN syncPoint], NEW l \in Layers,
           StateInv(layer[l].current, layer[l].drawing, layer[l].pending),
           Matched(syncPoint, layer[l].pending, layer[l].remote), doTransaction(l)
    PROVE  \E new, which, applied : Transacted(l, new, which, applied)
<1> DEFINE D == DOMAIN syncPoint
           t == pushPendingState(layer[l])
           c == t.current
           d == t.drawing
           p == t.pending
           r == t.remote
           a == applyPendingStates(t)
<1>1. /\ t \in LayerState(D)
      /\ c = layer[l].current /\ d = layer[l].drawing /\ r = layer[l].remote
      /\ VersionsGrow(c, d, p) /\ HidesForGood(c, d, p) /\ EndsInCurrent(c, d, p)
      /\ Matched(syncPoint, p, r)
  BY PushState
<1>2. doTransaction(l) =>
      /\ layer' = [layer EXCEPT ![l] =
            [current |-> [c EXCEPT !.modified = FALSE],
             drawing |-> IF a.commit = <<>> THEN d
                         ELSE [version |-> Head(a.commit).version,
                               hidden |-> Head(a.commit).hidden],
             pending |-> a.pending, remote |-> a.remote]]
      /\ syncPoint' = IF a.commit # <<>> /\ Head(a.commit).hidden
                       THEN SetAvailable(SetApplied(syncPoint, a.applied), mLocalSyncPoints[l])
                       ELSE SetApplied(syncPoint, a.applied)
      /\ mLocalSyncPoints' = [mLocalSyncPoints EXCEPT ![l] =
                                IF a.commit # <<>> /\ Head(a.commit).hidden THEN {} ELSE @]
      /\ mTransactionFlags' = IF a.pending # <<>> THEN mTransactionFlags \cup {l}
                                                  ELSE mTransactionFlags \ {l}
  BY DEF doTransaction, NeedsTransaction
<1> HIDE DEF t
<1>3. /\ c \in CurrentState /\ d \in DrawingState
      /\ p \in Seq(PendingState) /\ r \in Seq(D)
  BY <1>1 DEF LayerState
<1>4. PICK at \in [DOMAIN r -> DOMAIN p] : MatchedAt(syncPoint, p, r, at)
  BY <1>1 DEF Matched
<1>5. PICK k, m : /\ Reached(p, r, at, k, m) /\ Stuck(p, r, at, k, m)
                  /\ a = After(p, r, k, m)
  BY <1>3, <1>4, AppliedStates
<1> HIDE DEF a, p, r, c, d, D
<1> DEFINE q == SubSeq(p, k + 1, Len(p))
           u == SubSeq(r, m + 1, Len(r))
           applied == {r[i] : i \in 1 .. m}
<1>6. /\ a.pending = q /\ a.remote = u /\ a.applied = applied
      /\ a.commit = IF k = 0 THEN <<>> ELSE <<p[k]>>
  BY <1>5 DEF After
<1>7. /\ k \in 0 .. Len(p) /\ m \in 0 .. Len(r) /\ Len(p) \in Nat /\ Len(r) \in Nat
      /\ DOMAIN r = 1 .. Len(r)
  BY <1>3, <1>5, LenProperties DEF Reached
<1>8. /\ q \in Seq(PendingState) /\ (q = <<>> <=> k = Len(p))
      /\ (k < Len(p) => Head(q) = p[k + 1]) /\ Len(q) = Len(p) - k
  BY <1>3, <1>7, Rest
<1>9. u \in Seq(D) /\ Len(u) = Len(r) - m /\ \A i \in 1 .. Len(r) - m : u[i] = r[m + i]
  <2>1. r \in Seq(D) /\ m \in 0 .. Len(r)
    BY <1>3, <1>7
  <2>2. u \in Seq(D)
    BY <2>1, Rest
  <2>3. Len(u) = Len(r) - m
    BY <2>1, Rest
  <2>4. \A i \in 1 .. Len(r) - m : u[i] = r[m + i]
    BY <2>1, Rest
  <2> QED
    BY <2>2, <2>3, <2>4
<1>10. applied \subseteq D /\ \A i \in applied : syncPoint[i].available
  <2>1. \A i \in 1 .. m : r[i] \in D
    BY <1>3, <1>7, ElementOfSeq
  <2>2. \A i \in 1 .. m : syncPoint[r[i]].available
    BY <1>5 DEF Reached
  <2> QED
    BY <2>1, <2>2
<1>11. Matched(syncPoint, q, u)
  BY <1>3, <1>4, <1>5, MatchedRest
<1>12. Range(u) \subseteq Range(r)
  <2>1. DOMAIN u = 1 .. Len(r) - m
    BY <1>9, LenProperties
  <2>2. \A i \in 1 .. Len(r) - m : m + i \in DOMAIN r
    BY <1>7
  <2> QED
    BY <1>9, <2>1, <2>2 DEF Range
<1>13. q # <<>> => Head(q).barrierLayer # NoLayer
  BY <1>5, <1>7, <1>8 DEF Stuck
<1> DEFINE e == IF k = 0 THEN d ELSE [version |-> p[k].version, hidden |-> p[k].hidden]
<1>14. /\ e \in DrawingState
       /\ VersionsGrow(c, e, q) /\ HidesForGood(c, e, q) /\ EndsInCurrent(c, e, q)
       /\ d.version <= e.version /\ (d.hidden => e.hidden)
  <2>1. CASE k = 0
    <3>1. q = p
      BY <1>3, <2>1, SubSeqFull
    <3>2. d.version <= d.version
      BY <1>3 DEF DrawingState, Version
    <3> QED
      BY <1>1, <1>3, <2>1, <3>1, <3>2
  <2>2. CASE k # 0
    <3>1. k \in 1 .. Len(p)
      BY <1>7, <2>2
    <3>2. p[k] \in PendingState
      BY <1>3, <3>1, ElementOfSeq
    <3>3. e \in DrawingState /\ e.version = p[k].version /\ e.hidden = p[k].hidden
      BY <2>2, <3>2 DEF DrawingState, PendingState
    <3> HIDE DEF e, q
    <3> QED
      BY <1>1, <1>3, <3>1, <3>3, DrawState DEF q
  <2> QED
    BY <2>1, <2>2
<1> DEFINE new == [current |-> [c EXCEPT !.modified = FALSE], drawing |-> e,
                   pending |-> q, remote |-> u]
           hides == k # 0 /\ p[k].hidden
           which == IF hides THEN mLocalSyncPoints[l] ELSE {}
<1> HIDE DEF q, u, applied
<1>15. /\ layer' = [layer EXCEPT ![l] = new]
       /\ mTransactionFlags' = IF q # <<>> THEN mTransactionFlags \cup {l}
                                           ELSE mTransactionFlags \ {l}
       /\ syncPoint' = IF hides THEN SetAvailable(SetApplied(syncPoint, applied), mLocalSyncPoints[l])
                                ELSE SetApplied(syncPoint, applied)
       /\ mLocalSyncPoints' = [mLocalSyncPoints EXCEPT ![l] = IF hides THEN {} ELSE @]
  BY <1>2, <1>6
<1>16. PointsStep(syncPoint, syncPoint', which, applied)
  BY <1>15, SetPoints, SetBoth
<1>17. which \subseteq mLocalSyncPoints[l] /\ (which # {} => new.drawing.hidden)
  OBVIOUS
<1>18. mLocalSyncPoints' \in {mLocalSyncPoints, [mLocalSyncPoints EXCEPT ![l] = {}]}
  BY <1>15
<1> HIDE DEF e, which
<1>19. /\ new \in LayerState(D) /\ new.current.version = c.version
       /\ new.current.hidden = c.hidden /\ new.drawing = e
       /\ new.pending = q /\ new.remote = u
  BY <1>3, <1>8, <1>9, <1>14 DEF LayerState, CurrentState
<1> HIDE DEF new, hides
<1>20. StateInv(new.current, new.drawing, new.pending)
  BY <1>14, <1>19 DEF StateInv, VersionsGrow, HidesForGood, EndsInCurrent
<1>21. q = <<>> => e.version = c.version
  BY <1>7, <1>8, <1>14 DEF EndsInCurrent
<1>22. Transacted(l, new, which, applied)
  BY <1>1, <1>10, <1>11, <1>12, <1>13, <1>14, <1>15, <1>16, <1>17, <1>18, <1>19, <1>20,
     <1>21 DEF Transacted, D
<1> QED
  BY <1>22

\* A setter makes a new version of the current state.
LEMMA ChangeState ==
    ASSUME NEW S, NEW s \in LayerState(S), NEW hide \in BOOLEAN,
           VersionsGrow(s.current, s.drawing, s.pending),
           HidesForGood(s.current, s.drawing, s.pending)
    PROVE  LET t == Changed(s, hide) IN
           /\ t \in LayerState(S)
           /\ t.drawing = s.drawing /\ t.pending = s.pending /\ t.remote = s.remote
           /\ t.current.version = s.current.version + 1 /\ t.current.modified
           /\ VersionsGrow(t.current, t.drawing, t.pending)
           /\ HidesForGood(t.current, t.drawing, t.pending)
<1> DEFINE c == [version |-> s.current.version + 1,
                 hidden |-> s.current.hidden \/ hide, modified |-> TRUE]
           t == [s EXCEPT !.current = c]
<1>0. /\ s.current \in CurrentState /\ s.drawing \in DrawingState
      /\ s.pending \in Seq(PendingState) /\ s.remote \in Seq(S)
  BY DEF LayerState
<1>1. /\ c \in CurrentState /\ c.version = s.current.version + 1
      /\ (s.current.hidden => c.hidden) /\ c.modified
  BY <1>0 DEF CurrentState, Version
<1>2. s.current.version \in Nat /\ s.drawing.version \in Nat
  BY <1>0 DEF CurrentState, DrawingState, Version
<1>3. \A i \in 1 .. Len(s.pending) : s.pending[i].version \in Nat
  <2>1. \A i \in 1 .. Len(s.pending) : s.pending[i] \in PendingState
    BY <1>0, ElementOfSeq
  <2> QED
    BY <2>1 DEF PendingState, Version
<1> HIDE DEF c
<1>4. VersionsGrow(c, s.drawing, s.pending)
  BY <1>1, <1>2, <1>3 DEF VersionsGrow
<1>5. HidesForGood(c, s.drawing, s.pending)
  BY <1>1 DEF HidesForGood
<1>6. /\ t \in LayerState(S) /\ t.current = c /\ t.drawing = s.drawing
      /\ t.pending = s.pending /\ t.remote = s.remote
  BY <1>0, <1>1 DEF LayerState
<1>7. Changed(s, hide) = t
  BY DEF Changed, c
<1> HIDE DEF t
<1> QED
  BY <1>1, <1>4, <1>5, <1>6, <1>7

\* A new point is added to those there are.
PointsGrow(old, new, l) ==
    /\ new \in Seq(SyncPoint) /\ DOMAIN old \subseteq DOMAIN new
    /\ \A i \in DOMAIN old : new[i] = old[i]
    /\ \A i \in DOMAIN new \ DOMAIN old :
          new[i].by = l /\ ~new[i].available /\ ~new[i].applied

\* A call makes new of the state of l.
Requested(l, new) ==
    LET old == layer[l] IN
    /\ new \in LayerState(DOMAIN syncPoint')
    /\ layer' = [layer EXCEPT ![l] = new]
    /\ PointsGrow(syncPoint, syncPoint', l)
    /\ mLocalSyncPoints' \in [Layers -> SUBSET DOMAIN syncPoint']
    /\ \A k \in Layers : \A i \in mLocalSyncPoints'[k] :
          i \in mLocalSyncPoints[k] \/ syncPoint'[i].of = k
    /\ mTransactionFlags' \in {mTransactionFlags, mTransactionFlags \cup {l}}
    /\ new.drawing = old.drawing
    /\ StateInv(new.current, new.drawing, new.pending)
    /\ Matched(syncPoint', new.pending, new.remote)
    /\ \A i \in DOMAIN new.remote :
          new.remote[i] \in Range(old.remote) \/ syncPoint'[new.remote[i]].by = l
    /\ old.pending # <<>> => new.pending # <<>> /\ Head(new.pending) = Head(old.pending)

\* deferTransactionUntil: the state waits at the end of the list, with its point
\* or without a barrier.
LEMMA DeferState ==
    ASSUME syncPoint \in Seq(SyncPoint),
           mLocalSyncPoints \in [Layers -> SUBSET DOMAIN syncPoint], NEW l \in Layers,
           NEW s \in LayerState(DOMAIN syncPoint), NEW barrier \in Layers, NEW frame \in Nat,
           VersionsGrow(s.current, s.drawing, s.pending),
           HidesForGood(s.current, s.drawing, s.pending),
           Matched(syncPoint, s.pending, s.remote),
           s.drawing = layer[l].drawing, s.remote = layer[l].remote,
           layer[l].pending # <<>>
              => s.pending # <<>> /\ Head(s.pending) = Head(layer[l].pending),
           deferTransactionUntil(l, s, barrier, frame),
           mTransactionFlags' \in {mTransactionFlags, mTransactionFlags \cup {l}}
    PROVE  \E new : Requested(l, new) /\ new.current.version = s.current.version
<1> DEFINE D == DOMAIN syncPoint
           n == Len(syncPoint)
           holds == BarrierHolds(barrier, frame)
           st == [version |-> s.current.version, hidden |-> s.current.hidden,
                  barrierLayer |-> IF holds THEN barrier ELSE NoLayer,
                  frameNumber |-> frame]
           q == Append(s.pending, st)
           u == IF holds THEN Append(s.remote, n + 1) ELSE s.remote
           c == [s.current EXCEPT !.modified = FALSE]
           new == [current |-> c, drawing |-> s.drawing, pending |-> q, remote |-> u]
           pt == [of |-> barrier, by |-> l, frameNumber |-> frame,
                  available |-> FALSE, applied |-> FALSE]
<1>0. /\ s.current \in CurrentState /\ s.drawing \in DrawingState
      /\ s.pending \in Seq(PendingState) /\ s.remote \in Seq(D)
      /\ D = 1 .. n /\ n \in Nat
  BY LenProperties DEF LayerState
<1>1. /\ layer' = [layer EXCEPT ![l] = new]
      /\ holds => /\ syncPoint' = Append(syncPoint, pt)
                  /\ mLocalSyncPoints' = [mLocalSyncPoints EXCEPT ![barrier] = @ \cup {n + 1}]
      /\ ~holds => UNCHANGED <<syncPoint, mLocalSyncPoints>>
  BY DEF deferTransactionUntil
<1>2. /\ st \in PendingState /\ st.version = s.current.version
      /\ st.hidden = s.current.hidden /\ st.frameNumber = frame
      /\ st.barrierLayer = IF holds THEN barrier ELSE NoLayer
  BY <1>0 DEF CurrentState, PendingState
<1> HIDE DEF st
<1>3. /\ q \in Seq(PendingState) /\ q # <<>>
      /\ s.pending # <<>> => Head(q) = Head(s.pending)
  <2>1. s.pending \in Seq(PendingState) /\ st \in PendingState
    BY <1>0, <1>2
  <2>2. q \in Seq(PendingState) /\ q # <<>>
    BY <2>1, AppendProperties
  <2> QED
    BY <2>1, <2>2, HeadTailAppend
<1>4. /\ VersionsGrow(s.current, s.drawing, q) /\ HidesForGood(s.current, s.drawing, q)
      /\ EndsInCurrent(s.current, s.drawing, q)
  BY <1>0, <1>2, AppendState
<1>5. c \in CurrentState /\ c.version = s.current.version /\ c.hidden = s.current.hidden
  BY <1>0 DEF CurrentState
<1> HIDE DEF c, holds
<1>6. StateInv(c, s.drawing, q)
  BY <1>4, <1>5 DEF StateInv, VersionsGrow, HidesForGood, EndsInCurrent
<1>7. pt \in SyncPoint /\ pt.of = barrier /\ pt.by = l /\ pt.frameNumber = frame
      /\ ~pt.available /\ ~pt.applied
  BY DEF SyncPoint
<1> HIDE DEF pt
<1>8. PointsGrow(syncPoint, syncPoint', l)
  <2>1. CASE holds
    <3>1. /\ syncPoint' \in Seq(SyncPoint) /\ Len(syncPoint') = n + 1
          /\ \A i \in 1 .. n : syncPoint'[i] = syncPoint[i]
          /\ syncPoint'[n + 1] = pt
      <4>1. syncPoint' = Append(syncPoint, pt) /\ pt \in SyncPoint
        BY <1>1, <1>7, <2>1
      <4> QED
        BY <4>1, AppendProperties
    <3>2. DOMAIN syncPoint' = 1 .. n + 1
      BY <3>1, LenProperties
    <3>3. D \subseteq 1 .. n + 1 /\ (1 .. n + 1) \ D = {n + 1}
      BY <1>0
    <3> QED
      BY <1>0, <1>7, <3>1, <3>2, <3>3 DEF PointsGrow
  <2>2. CASE ~holds
    BY <1>1, <2>2 DEF PointsGrow
  <2> QED
    BY <2>1, <2>2
<1>9. holds => /\ n + 1 \in DOMAIN syncPoint' /\ syncPoint'[n + 1] = pt
  <2> SUFFICES ASSUME holds PROVE n + 1 \in DOMAIN syncPoint' /\ syncPoint'[n + 1] = pt
    OBVIOUS
  <2>1. Append(syncPoint, pt) \in Seq(SyncPoint) /\ Len(Append(syncPoint, pt)) = n + 1
        /\ Append(syncPoint, pt)[n + 1] = pt
    BY <1>7, AppendProperties
  <2> QED
    BY <1>0, <1>1, <2>1, LenProperties
<1>10. D \subseteq DOMAIN syncPoint' /\ s.remote \in Seq(DOMAIN syncPoint')
  BY <1>0, <1>8, SeqMonotonic DEF PointsGrow
<1>11. /\ mLocalSyncPoints' \in [Layers -> SUBSET DOMAIN syncPoint']
       /\ \A k \in Layers : \A i \in mLocalSyncPoints'[k] :
             i \in mLocalSyncPoints[k] \/ syncPoint'[i].of = k
  <2>1. CASE holds
    <3>1. mLocalSyncPoints' = [mLocalSyncPoints EXCEPT ![barrier] = @ \cup {n + 1}]
      BY <1>1, <2>1
    <3>2. n + 1 \in DOMAIN syncPoint' /\ syncPoint'[n + 1].of = barrier
      BY <1>7, <1>9, <2>1
    <3> HIDE DEF n
    <3> QED
      BY <1>10, <3>1, <3>2
  <2>2. CASE ~holds
    BY <1>1, <2>2
  <2> QED
    BY <2>1, <2>2
<1>12. Matched(syncPoint', s.pending, s.remote)
  <2>1. \A i \in DOMAIN s.remote : s.remote[i] \in D
    BY <1>0, ElementOfSeq, LenProperties
  <2> QED
    BY <1>8, <2>1, MatchedPoints DEF PointsGrow
<1>13. Matched(syncPoint', q, u)
  <2>1. CASE holds
    <3>1. barrier # NoLayer
      BY LayerAssumption DEF NoLayer
    <3> QED
      BY <1>0, <1>2, <1>7, <1>9, <1>10, <1>12, <2>1, <3>1, MatchedDefer
  <2>2. CASE ~holds
    BY <1>0, <1>2, <1>12, <2>2, MatchedPush
  <2> QED
    BY <2>1, <2>2
<1>14. /\ u \in Seq(DOMAIN syncPoint')
       /\ \A i \in DOMAIN u : u[i] \in Range(s.remote) \/ syncPoint'[u[i]].by = l
  <2>1. CASE holds
    <3> DEFINE m == Len(s.remote)
    <3>1. /\ u \in Seq(DOMAIN syncPoint') /\ Len(u) = m + 1 /\ u[m + 1] = n + 1
          /\ \A i \in 1 .. m : u[i] = s.remote[i]
      BY <1>9, <1>10, <2>1, AppendProperties
    <3>2. DOMAIN u = 1 .. m + 1 /\ DOMAIN s.remote = 1 .. m /\ m \in Nat
      BY <1>10, <3>1, LenProperties
    <3>3. \A i \in 1 .. m + 1 : i \in 1 .. m \/ i = m + 1
      BY <3>2
    <3> HIDE DEF m, u
    <3> QED
      BY <1>7, <1>9, <2>1, <3>1, <3>2, <3>3 DEF Range
  <2>2. CASE ~holds
    BY <1>10, <2>2 DEF Range
  <2> QED
    BY <2>1, <2>2
<1> HIDE DEF q, u
<1>15. /\ new \in LayerState(DOMAIN syncPoint') /\ new.current = c /\ new.drawing = s.drawing
       /\ new.pending = q /\ new.remote = u
  BY <1>0, <1>3, <1>5, <1>14 DEF LayerState
<1> HIDE DEF new
<1>16. Requested(l, new)
  BY <1>1, <1>3, <1>6, <1>8, <1>11, <1>13, <1>14, <1>15 DEF Requested
<1> QED
  BY <1>5, <1>15, <1>16

\* Every call is about a layer that exists, with a barrier if it defers.
LEMMA CallFields ==
    ASSUME NEW c \in Call
    PROVE  /\ c.layer \in Layers /\ c.mode \in {"async", "sync", "anim"}
           /\ c.what \in {"none", "change", "hide", "destroy", "defer", "deferChange"}
           /\ c.what \in {"defer", "deferChange"}
                  => c.barrier \in Layers /\ c.frame \in Nat
<1>1. Min(Layers) \in Layers
  BY LayerAssumption, MinIsIn
<1>2. MaxFrame \in Nat /\ BufferLayers \subseteq Layers
  BY LayerAssumption
<1>3. c.mode \in Mode /\ Mode \subseteq {"async", "sync", "anim"}
  BY TransactionsAssumption DEF Call
<1>4. CASE c \in [layer : {Min(Layers)}, what : What \cap {"none"}, mode : Mode,
                  barrier : {NoLayer}, frame : {0}]
  BY <1>1, <1>3, <1>4
<1>5. CASE c \in [layer : Layers, what : What \cap {"change", "hide", "destroy"},
                  mode : Mode, barrier : {NoLayer}, frame : {0}]
  BY <1>3, <1>5
<1>6. CASE c \in [layer : Layers, what : What \cap {"defer", "deferChange"}, mode : Mode,
                  barrier : BufferLayers, frame : 1 .. MaxFrame]
  <2>1. c.frame \in 1 .. MaxFrame /\ c.barrier \in BufferLayers /\ c.layer \in Layers
        /\ c.what \in {"defer", "deferChange"}
    BY <1>6
  <2>2. \A n \in 1 .. MaxFrame : n \in Nat
    BY <1>2
  <2>3. c.frame \in Nat /\ c.barrier \in Layers
    BY <1>2, <2>1, <2>2
  <2> QED
    BY <1>3, <2>1, <2>3
<1> QED
  BY <1>4, <1>5, <1>6 DEF Call

\* What is known of the states of the layers and their points.
LayerInv ==
    /\ syncPoint \in Seq(SyncPoint)
    /\ layer \in [Layers -> LayerState(DOMAIN syncPoint)]
    /\ mLocalSyncPoints \in [Layers -> SUBSET DOMAIN syncPoint]
    /\ \A l \in Layers : StateInv(layer[l].current, layer[l].drawing, layer[l].pending)
    /\ PointsMatchStates

\* What a call does to its layer.
LEMMA ClientStep ==
    ASSUME LayerInv, NEW c \in Call, ClientState(c)
    PROVE  \/ UNCHANGED stateVars
           \/ /\ life[c.layer] = "live"
              /\ life' = [life EXCEPT ![c.layer] = "removing"]
              /\ UNCHANGED <<layer, mLocalSyncPoints, syncPoint, mTransactionFlags>>
           \/ \E new :
                 /\ Requested(c.layer, new)
                 /\ life[c.layer] = "live" /\ UNCHANGED life
                 /\ \/ new.current.version = layer[c.layer].current.version
                    \/ /\ new.current.version = layer[c.layer].current.version + 1
                       /\ "traversal" \in ReturnedFlags(c)
                       /\ c.layer \in mTransactionFlags'
<1> DEFINE l == c.layer
           s == layer[l]
           D == DOMAIN syncPoint
<1>0. /\ l \in Layers
      /\ c.what \in {"none", "change", "hide", "destroy", "defer", "deferChange"}
      /\ c.what \in {"defer", "deferChange"} => c.barrier \in Layers /\ c.frame \in Nat
  BY CallFields
<1>1. /\ s \in LayerState(D) /\ StateInv(s.current, s.drawing, s.pending)
      /\ Matched(syncPoint, s.pending, s.remote)
      /\ syncPoint \in Seq(SyncPoint) /\ mLocalSyncPoints \in [Layers -> SUBSET D]
  BY <1>0 DEF LayerInv, PointsMatchStates
<1>2. l # NoLayer
  BY <1>0, LayerAssumption DEF NoLayer
<1>3. CASE c.what = "none" \/ life[l] # "live"
  BY <1>3 DEF ClientState
<1>4. CASE c.what \in {"change", "hide"} /\ life[l] = "live"
  <2> DEFINE h == c.what = "hide"
             t == Changed(s, h)
  <2>1. h \in BOOLEAN
    OBVIOUS
  <2>2. /\ layer' = [layer EXCEPT ![l] = t] /\ mTransactionFlags' = mTransactionFlags \cup {l}
        /\ UNCHANGED <<mLocalSyncPoints, syncPoint, life>>
    BY <1>4 DEF ClientState
  <2>3. "traversal" \in ReturnedFlags(c)
    BY <1>2, <1>4 DEF ReturnedFlags
  <2> HIDE DEF h
  <2>4. /\ t \in LayerState(D)
        /\ t.drawing = s.drawing /\ t.pending = s.pending /\ t.remote = s.remote
        /\ t.current.version = s.current.version + 1 /\ t.current.modified
        /\ VersionsGrow(t.current, t.drawing, t.pending)
        /\ HidesForGood(t.current, t.drawing, t.pending)
    BY <1>1, <2>1, ChangeState DEF StateInv
  <2> HIDE DEF t
  <2>5. StateInv(t.current, t.drawing, t.pending)
    BY <2>4 DEF StateInv
  <2>6. PointsGrow(syncPoint, syncPoint', l)
    BY <1>1, <2>2 DEF PointsGrow
  <2>7. \A i \in DOMAIN t.remote : t.remote[i] \in Range(s.remote)
    BY <2>4 DEF Range
  <2>8. Requested(l, t)
    BY <1>1, <2>2, <2>4, <2>5, <2>6, <2>7 DEF Requested
  <2> QED
    BY <1>4, <2>2, <2>3, <2>4, <2>8
<1>5. CASE c.what = "destroy" /\ life[l] = "live"
  BY <1>5 DEF ClientState
<1>6. CASE c.what \in {"defer", "deferChange"} /\ life[l] = "live"
  <2> DEFINE t == pushPendingState(s)
             v == IF c.what = "defer" THEN t ELSE Changed(t, FALSE)
  <2>1. /\ t \in LayerState(D)
        /\ t.current = s.current /\ t.drawing = s.drawing /\ t.remote = s.remote
        /\ VersionsGrow(t.current, t.drawing, t.pending)
        /\ HidesForGood(t.current, t.drawing, t.pending)
        /\ Matched(syncPoint, t.pending, t.remote)
        /\ s.pending # <<>> => t.pending # <<>> /\ Head(t.pending) = Head(s.pending)
    BY <1>1, PushState
  <2>2. /\ deferTransactionUntil(l, v, c.barrier, c.frame)
        /\ mTransactionFlags' =
              IF c.what = "defer" /\ life[c.barrier] = "dead"
                 THEN mTransactionFlags ELSE mTransactionFlags \cup {l}
        /\ UNCHANGED life
    BY <1>6 DEF ClientState
  <2> HIDE DEF t
  <2>3. /\ v \in LayerState(D)
        /\ v.drawing = s.drawing /\ v.remote = s.remote
        /\ VersionsGrow(v.current, v.drawing, v.pending)
        /\ HidesForGood(v.current, v.drawing, v.pending)
        /\ Matched(syncPoint, v.pending, v.remote)
        /\ s.pending # <<>> => v.pending # <<>> /\ Head(v.pending) = Head(s.pending)
        /\ v.current.version = IF c.what = "defer" THEN s.current.version
                                                   ELSE s.current.version + 1
    <3>1. CASE c.what = "defer"
      BY <2>1, <3>1
    <3>2. CASE c.what # "defer"
      BY <2>1, <3>2, ChangeState
    <3> QED
      BY <3>1, <3>2
  <2> HIDE DEF v
  <2>4. PICK new : Requested(l, new) /\ new.current.version = v.current.version
    BY <1>0, <1>1, <1>6, <2>2, <2>3, DeferState
  <2>5. CASE c.what = "defer"
    BY <1>6, <2>2, <2>3, <2>4, <2>5
  <2>6. CASE c.what = "deferChange"
    <3>1. "traversal" \in ReturnedFlags(c)
      BY <1>2, <1>6, <2>6 DEF ReturnedFlags
    <3>2. new.current.version = s.current.version + 1 /\ l \in mTransactionFlags'
      BY <2>2, <2>3, <2>4, <2>6
    <3> QED
      BY <1>6, <2>2, <2>4, <3>1, <3>2
  <2> QED
    BY <1>6, <2>5, <2>6
<1> QED
  BY <1>0, <1>3, <1>4, <1>5, <1>6

-----------------------------------------------------------------------------
(* What the steps do to the layers                                         *)

\* A thread that is in setTransactionState has a call.
CallKept == \A t \in Thread : threadState[t] # "idle" => call[t] \in Call

\* A frame of l, the given one or a later one, has signaled, is droppable or was
\* latched.
FrameIsThere(frame, l) ==
    \/ frame <= signaled[l]
    \/ \E other \in droppable[l] : frame <= other
    \/ frame <= mCurrentFrameNumber[l]

\* Points of layers whose frames are there.
FramesThere(which) ==
    \A i \in which : \E l \in Layers :
        i \in mLocalSyncPoints[l] /\ FrameIsThere(syncPoint[i].frameNumber, l)

\* The frame numbers of a queue are numbers.
FrameTypes ==
    /\ mQueue \in [Layers -> Seq(1 .. MaxFrame)]
    /\ mQueueItems \in [Layers -> Seq(1 .. MaxFrame)]
    /\ droppable \in [Layers -> SUBSET (1 .. MaxFrame)]
    /\ mLastFrameNumberReceived \in [Layers -> 0 .. MaxFrame]
    /\ signaled \in [Layers -> 0 .. MaxFrame]
    /\ mCurrentFrameNumber \in [Layers -> 0 .. MaxFrame]

\* The frame at the head of the queue has signaled or is droppable.
LEMMA ReachedFrames ==
    ASSUME LayerInv, FrameTypes, NEW l \in Layers, NEW i \in mLocalSyncPoints[l],
           syncPoint[i].frameNumber <= getHeadFrameNumber(l), headFenceHasSignaled(l)
    PROVE  FrameIsThere(syncPoint[i].frameNumber, l)
<1>0. MaxFrame \in Nat
  BY LayerAssumption
<1>1. i \in DOMAIN syncPoint
  BY DEF LayerInv
<1>2. syncPoint[i] \in SyncPoint
  BY <1>1, ElementOfSeq, LenProperties DEF LayerInv
<1>3. syncPoint[i].frameNumber \in Nat
  BY <1>2 DEF SyncPoint
<1>4. signaled[l] \in Nat /\ mCurrentFrameNumber[l] \in Nat
  BY <1>0 DEF FrameTypes
<1>5. CASE mQueueItems[l] = <<>>
  BY <1>5 DEF getHeadFrameNumber, FrameIsThere
<1>6. CASE mQueueItems[l] # <<>>
  <2>1. Head(mQueueItems[l]) \in 1 .. MaxFrame
    BY <1>6, HeadTailProperties DEF FrameTypes
  <2>2. /\ Head(mQueueItems[l]) \in droppable[l] \/ Head(mQueueItems[l]) <= signaled[l]
        /\ syncPoint[i].frameNumber <= Head(mQueueItems[l])
    BY <1>6 DEF getHeadFrameNumber, headFenceHasSignaled
  <2>3. CASE Head(mQueueItems[l]) \in droppable[l]
    BY <2>2, <2>3 DEF FrameIsThere
  <2>4. CASE Head(mQueueItems[l]) <= signaled[l]
    BY <1>0, <1>3, <1>4, <2>1, <2>2, <2>4 DEF FrameIsThere
  <2> QED
    BY <2>2, <2>3, <2>4
<1> QED
  BY <1>5, <1>6

\* Every step, as far as the states of the layers and their points go.
LEMMA StateSteps ==
    ASSUME LayerInv, FrameTypes, CallKept, todo \subseteq Layers, [Next]_vars
    PROVE  \/ UNCHANGED stateVars
           \/ \E which :
                 /\ PointsStep(syncPoint, syncPoint', which, {}) /\ FramesThere(which)
                 /\ UNCHANGED <<layer, mLocalSyncPoints, mTransactionFlags, life>>
           \/ /\ traverseLayer
              /\ \E new, which, applied : Transacted(NextLayer, new, which, applied)
              /\ UNCHANGED life
           \/ \E t \in Thread, c \in Call : \E new :
                 applyCall(t, c) /\ Requested(c.layer, new) /\ UNCHANGED life
           \/ /\ UNCHANGED <<layer, mLocalSyncPoints, syncPoint, mTransactionFlags>>
              /\ \A l \in Layers : life'[l] # life[l]
                    => life[l] \in {"live", "removing"} /\ life'[l] # "live"
           \/ \E l \in Layers : destroyLayer(l)
           \/ \E l \in Layers :
                 /\ mLocalSyncPoints' = [mLocalSyncPoints EXCEPT
                                            ![l] = @ \ Erased(l, mCurrentFrameNumber'[l])]
                 /\ UNCHANGED <<layer, syncPoint, mTransactionFlags, life>>
<1>0. todo # {} => NextLayer \in Layers
  BY LayerAssumption, MinIsIn DEF NextLayer
<1>c. ASSUME NEW t \in Thread, NEW c \in Call, applyCall(t, c)
      PROVE  \/ UNCHANGED stateVars
             \/ \E new : Requested(c.layer, new) /\ UNCHANGED life
             \/ /\ UNCHANGED <<layer, mLocalSyncPoints, syncPoint, mTransactionFlags>>
                /\ \A l \in Layers : life'[l] # life[l]
                      => life[l] \in {"live", "removing"} /\ life'[l] # "live"
  <2>1. ClientState(c)
    BY <1>c DEF applyCall
  <2>2. CASE /\ life[c.layer] = "live"
             /\ life' = [life EXCEPT ![c.layer] = "removing"]
             /\ UNCHANGED <<layer, mLocalSyncPoints, syncPoint, mTransactionFlags>>
    BY <2>2
  <2> QED
    BY <2>1, <2>2, ClientStep
<1>1. CASE eventReceiver \/ frameMissed \/ invalidate \/ gatherLayers \/ presentLater
           \/ pageFlipDone \/ handleMessageRefresh \/ presentFenceSignals
  BY <1>1 DEF eventReceiver, frameMissed, invalidate, gatherLayers, presentLater,
              pageFlipDone, handleMessageRefresh, presentFenceSignals
<1>2. CASE handleTransaction
  <2> DEFINE live == {l \in Layers : life[l] = "live"}
             which == UNION {ReachedPoints(l) : l \in live}
  <2>1. CASE transactionFlags = {}
    BY <1>2, <2>1 DEF handleTransaction, stateVars
  <2>2. CASE transactionFlags # {}
    <3>1. syncPoint' = SetAvailable(syncPoint, which)
          /\ UNCHANGED <<layer, mLocalSyncPoints, mTransactionFlags, life>>
      BY <1>2, <2>2 DEF handleTransaction
    <3>2. FramesThere(which)
      <4> SUFFICES ASSUME NEW i \in which
                   PROVE  \E l \in Layers : /\ i \in mLocalSyncPoints[l]
                                            /\ FrameIsThere(syncPoint[i].frameNumber, l)
        BY DEF FramesThere
      <4>1. PICK l \in Layers : i \in ReachedPoints(l)
        OBVIOUS
      <4> QED
        BY <4>1, ReachedFrames DEF ReachedPoints
    <3> HIDE DEF which
    <3> QED
      BY <3>1, <3>2, SetPoints DEF LayerInv
  <2> QED
    BY <2>1, <2>2
<1>3. CASE traverseLayer
  <2>1. CASE NextLayer \in mTransactionFlags
    <3>1. doTransaction(NextLayer) /\ UNCHANGED life /\ NextLayer \in Layers
      BY <1>0, <1>3, <2>1 DEF traverseLayer
    <3>2. \E new, which, applied : Transacted(NextLayer, new, which, applied)
      BY <3>1, DoTransaction DEF LayerInv, PointsMatchStates
    <3> QED
      BY <1>3, <3>1, <3>2
  <2>2. CASE NextLayer \notin mTransactionFlags
    BY <1>3, <2>2 DEF traverseLayer, stateVars
  <2> QED
    BY <2>1, <2>2
<1>4. CASE commitTransaction
  BY <1>4 DEF commitTransaction
<1>5. CASE latchBuffer
  <2> DEFINE l == NextLayer
             tries == ~(mQueueItems[l] = <<>> \/ l \in mRefreshPending) /\ headFenceHasSignaled(l)
             which == IF tries THEN NotifiedPoint(l) ELSE {}
  <2>1. syncPoint' = SetAvailable(syncPoint, which) /\ l \in Layers
        /\ UNCHANGED <<layer, mLocalSyncPoints, mTransactionFlags, life>>
    BY <1>0, <1>5 DEF latchBuffer
  <2>2. FramesThere(which)
    <3> SUFFICES ASSUME NEW i \in which
                 PROVE  /\ i \in mLocalSyncPoints[l]
                        /\ FrameIsThere(syncPoint[i].frameNumber, l)
      BY <2>1 DEF FramesThere
    <3>1. headFenceHasSignaled(l) /\ i \in MatchingPoints(l)
      BY DEF NotifiedPoint
    <3>2. i \in mLocalSyncPoints[l] /\ i \in Nat
      <4>1. i \in mLocalSyncPoints[l]
        BY <3>1 DEF MatchingPoints
      <4> QED
        BY <2>1, <4>1, LenProperties DEF LayerInv
    <3>3. syncPoint[i].frameNumber <= getHeadFrameNumber(l)
      BY <3>1, <3>2 DEF MatchingPoints
    <3> HIDE DEF l
    <3> QED
      BY <2>1, <3>1, <3>2, <3>3, ReachedFrames
  <2> HIDE DEF which
  <2> QED
    BY <2>1, <2>2, SetPoints DEF LayerInv
<1>6. ASSUME NEW l \in Layers, updateTexImage(l)
      PROVE  \/ UNCHANGED stateVars
             \/ /\ mLocalSyncPoints' = [mLocalSyncPoints EXCEPT
                                            ![l] = @ \ Erased(l, mCurrentFrameNumber'[l])]
                /\ UNCHANGED <<layer, syncPoint, mTransactionFlags, life>>
  <2>1. ASSUME NEW i, latchFrame(l, i), mCurrentFrameNumber \in [Layers -> 0 .. MaxFrame]
        PROVE  /\ mLocalSyncPoints' = [mLocalSyncPoints EXCEPT
                                            ![l] = @ \ Erased(l, mCurrentFrameNumber'[l])]
               /\ UNCHANGED <<layer, syncPoint, mTransactionFlags, life>>
    BY <2>1 DEF latchFrame
  <2>2. CASE latchNothing(l)
    BY <2>2 DEF latchNothing, stateVars
  <2>3. ASSUME NEW i, rejectFrame(l, i)
        PROVE  UNCHANGED stateVars
    BY <2>3 DEF rejectFrame
  <2>4. CASE l \notin DrawingLayers
    BY <1>6, <2>4 DEF updateTexImage
  <2>5. CASE l \in DrawingLayers
    <3>1. \/ \E i \in DOMAIN mQueue[l] : latchFrame(l, i) \/ rejectFrame(l, i)
          \/ latchNothing(l)
      BY <1>6, <2>5 DEF updateTexImage
    <3>2. mCurrentFrameNumber \in [Layers -> 0 .. MaxFrame]
      BY DEF FrameTypes
    <3> QED
      BY <2>1, <2>2, <2>3, <3>1, <3>2
  <2> QED
    BY <2>4, <2>5
<1>7. ASSUME NEW l \in Layers, QueueFrame(l) \/ Fence(l)
      PROVE  UNCHANGED stateVars
  BY <1>7 DEF QueueFrame, Fence, onFrameAvailable, onFrameReplaced, Receives, fenceSignals
<1>8. ASSUME NEW l \in Layers, Destroy(l)
      PROVE  destroyLayer(l)
  BY <1>8 DEF Destroy
<1>9. ASSUME NEW t \in Thread, NEW c \in Call, setTransactionState(t, c)
      PROVE  UNCHANGED stateVars \/ applyCall(t, c)
  BY <1>9 DEF setTransactionState
<1>10. ASSUME NEW t \in Thread, animWaitReturns(t) \/ animWaitTimesOut(t)
       PROVE  UNCHANGED stateVars \/ (call[t] \in Call /\ applyCall(t, call[t]))
  BY <1>10 DEF animWaitReturns, animWaitTimesOut, CallKept
<1>11. ASSUME NEW t \in Thread, waitReturns(t) \/ waitTimesOut(t)
       PROVE  UNCHANGED stateVars
  BY <1>11 DEF waitReturns, waitTimesOut
<1>12. CASE UNCHANGED vars
  BY <1>12 DEF vars
<1>13. CASE MainThread \/ presentFenceSignals
  BY <1>1, <1>2, <1>3, <1>4, <1>5, <1>6, <1>13 DEF MainThread
<1>14. CASE \E l \in Layers : QueueFrame(l) \/ Fence(l) \/ Destroy(l)
  BY <1>7, <1>8, <1>14
<1>15. CASE \E t \in Thread :
               \/ \E c \in Call : setTransactionState(t, c)
               \/ Wakeup(t) \/ animWaitTimesOut(t) \/ waitTimesOut(t)
  BY <1>c, <1>9, <1>10, <1>11, <1>15 DEF Wakeup
<1> QED
  BY <1>12, <1>13, <1>14, <1>15 DEF Next

-----------------------------------------------------------------------------
(* Frames                                                                  *)

\* The frames of a queue come in order after the one that was latched last.
QueueInOrder(q, latched, received) ==
    /\ latched <= received
    /\ \A i \in 1 .. Len(q) : latched < q[i] /\ q[i] <= received
    /\ \A i, j \in 1 .. Len(q) : i < j => q[i] < q[j]

\* The frames of q are the last ones of items.
AtTheEnd(q, items) ==
    LET extra == Len(items) - Len(q) IN
    extra >= 0 /\ \A i \in DOMAIN q : q[i] = items[i + extra]

\* The frames of every layer that queues them are in order, and the BufferQueue's
\* are the last ones of SurfaceFlinger's copy.
FramesInOrder ==
    \A l \in Layers :
        /\ QueueInOrder(mQueue[l], mCurrentFrameNumber[l], mLastFrameNumberReceived[l])
        /\ QueueInOrder(mQueueItems[l], mCurrentFrameNumber[l], mLastFrameNumberReceived[l])
        /\ AtTheEnd(mQueue[l], mQueueItems[l])

\* A queue of frame numbers.
LEMMA QueueFacts ==
    ASSUME NEW M \in Nat, NEW q \in Seq(1 .. M)
    PROVE  /\ Len(q) \in Nat /\ DOMAIN q = 1 .. Len(q)
           /\ \A i \in 1 .. Len(q) : q[i] \in 1 .. M /\ q[i] \in Nat
<1>1. Len(q) \in Nat /\ DOMAIN q = 1 .. Len(q)
  BY LenProperties
<1>2. \A i \in 1 .. Len(q) : q[i] \in 1 .. M
  BY ElementOfSeq
<1> QED
  BY <1>1, <1>2

\* A frame is added at the end of a queue.
LEMMA QueueAppended ==
    ASSUME NEW M \in Nat, NEW q \in Seq(1 .. M), NEW c \in Nat, NEW z \in Nat,
           z + 1 <= M, QueueInOrder(q, c, z)
    PROVE  /\ Append(q, z + 1) \in Seq(1 .. M)
           /\ Len(Append(q, z + 1)) = Len(q) + 1
           /\ Append(q, z + 1)[Len(q) + 1] = z + 1
           /\ \A i \in 1 .. Len(q) : Append(q, z + 1)[i] = q[i]
           /\ QueueInOrder(Append(q, z + 1), c, z + 1)
<1> DEFINE n == Len(q)
           r == Append(q, z + 1)
<1>1. /\ n \in Nat /\ z + 1 \in 1 .. M
      /\ \A i \in 1 .. n : q[i] \in 1 .. M /\ q[i] \in Nat
  BY QueueFacts
<1>2. /\ r \in Seq(1 .. M) /\ Len(r) = n + 1 /\ r[n + 1] = z + 1
      /\ \A i \in 1 .. n : r[i] = q[i]
  BY <1>1, AppendProperties
<1>3. /\ c <= z /\ \A i \in 1 .. n : c < q[i] /\ q[i] <= z
      /\ \A i, j \in 1 .. n : i < j => q[i] < q[j]
  BY DEF QueueInOrder
<1> HIDE DEF r, n
<1>4. \A i \in 1 .. n + 1 : i \in 1 .. n \/ i = n + 1
  BY <1>1
<1>5. \A i \in 1 .. n + 1 : c < r[i] /\ r[i] <= z + 1
  <2> SUFFICES ASSUME NEW i \in 1 .. n + 1
               PROVE  c < r[i] /\ r[i] <= z + 1
    OBVIOUS
  <2>1. CASE i \in 1 .. n
    <3>1. r[i] = q[i] /\ q[i] \in Nat /\ c < q[i] /\ q[i] <= z
      BY <1>1, <1>2, <1>3, <2>1
    <3> QED
      BY <3>1
  <2>2. CASE i = n + 1
    BY <1>2, <1>3, <2>2
  <2> QED
    BY <1>4, <2>1, <2>2
<1>6. \A i, j \in 1 .. n + 1 : i < j => r[i] < r[j]
  <2> SUFFICES ASSUME NEW i \in 1 .. n + 1, NEW j \in 1 .. n + 1, i < j
               PROVE  r[i] < r[j]
    OBVIOUS
  <2>1. i \in 1 .. n
    BY <1>1
  <2>2. CASE j \in 1 .. n
    BY <1>2, <1>3, <2>1, <2>2
  <2>3. CASE j = n + 1
    <3>1. r[i] = q[i] /\ q[i] \in Nat /\ q[i] <= z /\ r[j] = z + 1
      BY <1>1, <1>2, <1>3, <2>1, <2>3
    <3> QED
      BY <3>1
  <2> QED
    BY <1>4, <2>2, <2>3
<1>7. QueueInOrder(r, c, z + 1)
  BY <1>2, <1>3, <1>5, <1>6 DEF QueueInOrder
<1> QED
  BY <1>2, <1>7 DEF r, n

\* The last frame of a queue is taken away.
LEMMA QueueFront ==
    ASSUME NEW M \in Nat, NEW q \in Seq(1 .. M), q # <<>>, NEW c \in Nat, NEW z \in Nat,
           QueueInOrder(q, c, z)
    PROVE  /\ Front(q) \in Seq(1 .. M) /\ Len(Front(q)) = Len(q) - 1 /\ Len(q) >= 1
           /\ \A i \in 1 .. Len(q) - 1 : Front(q)[i] = q[i]
           /\ QueueInOrder(Front(q), c, z)
<1> DEFINE n == Len(q)
           r == Front(q)
<1>1. n \in Nat /\ n >= 1
  BY QueueFacts, EmptySeq
<1>2. /\ r \in Seq(1 .. M) /\ Len(r) = n - 1
      /\ \A i \in 1 .. n - 1 : r[i] = q[i]
  <2>1. r = SubSeq(q, 1, n - 1)
    BY DEF Front
  <2>2. \A i \in 1 .. n - 1 : q[i] \in 1 .. M
    BY <1>1, QueueFacts
  <2> HIDE DEF n, r
  <2>3. /\ r \in Seq(1 .. M) /\ Len(r) = IF 1 <= n - 1 THEN (n - 1) - 1 + 1 ELSE 0
        /\ \A i \in 1 .. (n - 1) - 1 + 1 : r[i] = q[1 + i - 1]
    <3>1. 1 \in Int /\ n - 1 \in Int
      BY <1>1
    <3> QED
      BY <2>1, <2>2, <3>1, SubSeqProperties
  <2>4. r \in Seq(1 .. M) /\ Len(r) = n - 1
    BY <1>1, <2>3
  <2>5. ASSUME NEW i \in 1 .. n - 1 PROVE r[i] = q[i]
    <3>1. i \in 1 .. (n - 1) - 1 + 1 /\ 1 + i - 1 = i
      BY <1>1
    <3> QED
      BY <2>3, <3>1
  <2> QED
    BY <2>4, <2>5
<1>3. /\ c <= z /\ \A i \in 1 .. n : c < q[i] /\ q[i] <= z
      /\ \A i, j \in 1 .. n : i < j => q[i] < q[j]
  BY DEF QueueInOrder
<1> HIDE DEF r, n
<1>4. \A i \in 1 .. n - 1 : i \in 1 .. n
  BY <1>1
<1>5. QueueInOrder(r, c, z)
  <2>1. \A i \in 1 .. n - 1 : c < r[i] /\ r[i] <= z
    BY <1>2, <1>3, <1>4
  <2>2. \A i, j \in 1 .. n - 1 : i < j => r[i] < r[j]
    BY <1>2, <1>3, <1>4
  <2> QED
    BY <1>2, <1>3, <2>1, <2>2 DEF QueueInOrder
<1> QED
  BY <1>1, <1>2, <1>5 DEF r, n

\* r is what is left of q after its first n frames, of which latched may be the last.
Taken(M, q, n, r, latched, c, z) ==
    /\ r \in Seq(1 .. M) /\ Len(r) = Len(q) - n
    /\ \A i \in 1 .. Len(q) - n : r[i] = q[n + i]
    /\ QueueInOrder(r, latched, z) /\ c <= latched /\ latched <= z

\* The first frames of a queue are taken away, and the last of them may be latched.
LEMMA QueueTaken ==
    ASSUME NEW M \in Nat, NEW q \in Seq(1 .. M), NEW c \in Nat, NEW z \in Nat,
           QueueInOrder(q, c, z), NEW n \in 1 .. Len(q), NEW latched \in {c, q[n]}
    PROVE  Taken(M, q, n, SubSeq(q, n + 1, Len(q)), latched, c, z)
<1> DEFINE m == Len(q)
           r == SubSeq(q, n + 1, Len(q))
<1>1. /\ m \in Nat /\ n \in 0 .. m
      /\ \A i \in 1 .. m : q[i] \in 1 .. M /\ q[i] \in Nat
  BY QueueFacts
<1>2. /\ r \in Seq(1 .. M) /\ Len(r) = m - n
      /\ \A i \in 1 .. m - n : r[i] = q[n + i]
  BY <1>1, SubSeqProperties
<1>3. /\ c <= z /\ \A i \in 1 .. m : c < q[i] /\ q[i] <= z
      /\ \A i, j \in 1 .. m : i < j => q[i] < q[j]
  BY DEF QueueInOrder
<1> HIDE DEF r, m
<1>4. n \in 1 .. m
  BY DEF m
<1>5. latched \in Nat /\ c <= latched /\ latched <= z
  <2>1. q[n] \in Nat /\ c < q[n] /\ q[n] <= z
    BY <1>1, <1>3, <1>4
  <2> QED
    BY <1>3, <2>1
<1>6. \A i \in 1 .. m - n : n + i \in 1 .. m /\ n < n + i
  BY <1>1, <1>4
<1>7. \A i \in 1 .. m - n : c < r[i] /\ q[n] < r[i] /\ r[i] <= z
  BY <1>2, <1>3, <1>4, <1>6
<1>8. \A i, j \in 1 .. m - n : i < j => r[i] < r[j]
  <2> SUFFICES ASSUME NEW i \in 1 .. m - n, NEW j \in 1 .. m - n, i < j
               PROVE  r[i] < r[j]
    OBVIOUS
  <2>1. n + i \in 1 .. m /\ n + j \in 1 .. m /\ n + i < n + j
    BY <1>1, <1>6
  <2> QED
    BY <1>2, <1>3, <2>1
<1>9. QueueInOrder(r, latched, z)
  BY <1>2, <1>5, <1>7, <1>8 DEF QueueInOrder
<1> QED
  BY <1>2, <1>5, <1>9 DEF Taken, r, m

\* Both queues get a frame at their end.
LEMMA EndAppended ==
    ASSUME NEW M \in Nat, NEW q \in Seq(1 .. M), NEW items \in Seq(1 .. M), NEW f \in 1 .. M,
           AtTheEnd(q, items)
    PROVE  AtTheEnd(Append(q, f), Append(items, f))
<1> DEFINE n == Len(q)
           m == Len(items)
           r == Append(q, f)
           u == Append(items, f)
<1>1. n \in Nat /\ m \in Nat /\ DOMAIN q = 1 .. n
  BY QueueFacts
<1>2. r \in Seq(1 .. M) /\ Len(r) = n + 1 /\ r[n + 1] = f /\ \A i \in 1 .. n : r[i] = q[i]
  BY AppendProperties
<1>3. u \in Seq(1 .. M) /\ Len(u) = m + 1 /\ u[m + 1] = f /\ \A i \in 1 .. m : u[i] = items[i]
  BY AppendProperties
<1>4. m - n >= 0 /\ \A i \in 1 .. n : q[i] = items[i + (m - n)]
  BY <1>1 DEF AtTheEnd
<1>5. DOMAIN r = 1 .. n + 1
  BY <1>2, QueueFacts
<1> HIDE DEF n, m, r, u
<1>6. ASSUME NEW i \in 1 .. n + 1 PROVE r[i] = u[i + (m - n)]
  <2>1. CASE i = n + 1
    <3>1. i + (m - n) = m + 1
      BY <1>1, <2>1
    <3> QED
      BY <1>2, <1>3, <2>1, <3>1
  <2>2. CASE i \in 1 .. n
    <3>1. i + (m - n) \in 1 .. m
      BY <1>1, <1>4, <2>2
    <3> QED
      BY <1>2, <1>3, <1>4, <2>2, <3>1
  <2> QED
    BY <1>1, <2>1, <2>2
<1>7. Len(u) - Len(r) = m - n
  BY <1>1, <1>2, <1>3
<1>8. AtTheEnd(r, u)
  BY <1>4, <1>5, <1>6, <1>7 DEF AtTheEnd
<1> QED
  BY <1>8 DEF r, u

\* Both queues lose the frame at their end.
LEMMA EndFront ==
    ASSUME NEW M \in Nat, NEW q \in Seq(1 .. M), NEW items \in Seq(1 .. M),
           NEW r \in Seq(1 .. M), NEW u \in Seq(1 .. M), AtTheEnd(q, items),
           Len(q) >= 1, Len(r) = Len(q) - 1, \A i \in 1 .. Len(q) - 1 : r[i] = q[i],
           Len(items) >= 1, Len(u) = Len(items) - 1,
           \A i \in 1 .. Len(items) - 1 : u[i] = items[i]
    PROVE  AtTheEnd(r, u)
<1> DEFINE n == Len(q)
           m == Len(items)
<1>1. n \in Nat /\ m \in Nat /\ DOMAIN q = 1 .. n /\ DOMAIN r = 1 .. n - 1
  BY QueueFacts
<1>2. m - n >= 0 /\ \A i \in 1 .. n : q[i] = items[i + (m - n)]
  BY <1>1 DEF AtTheEnd
<1>3. Len(u) - Len(r) = m - n
  BY <1>1
<1>4. /\ n >= 1 /\ m >= 1 /\ \A i \in 1 .. n - 1 : r[i] = q[i]
      /\ \A i \in 1 .. m - 1 : u[i] = items[i]
  OBVIOUS
<1> HIDE DEF n, m
<1>5. ASSUME NEW i \in 1 .. n - 1 PROVE r[i] = u[i + (m - n)]
  <2>1. i \in 1 .. n /\ i + (m - n) \in 1 .. m - 1
    BY <1>1, <1>2, <1>4
  <2> QED
    BY <1>2, <1>4, <2>1
<1> QED
  BY <1>1, <1>2, <1>3, <1>5 DEF AtTheEnd

\* The first queue loses i frames at its front and the other one j, where the frames
\* it keeps are still there.
LEMMA EndTaken ==
    ASSUME NEW M \in Nat, NEW q \in Seq(1 .. M), NEW items \in Seq(1 .. M),
           NEW r \in Seq(1 .. M), NEW u \in Seq(1 .. M), AtTheEnd(q, items),
           NEW i \in 1 .. Len(q), NEW j \in 1 .. Len(items),
           j <= i + (Len(items) - Len(q)),
           Len(r) = Len(q) - i, \A k \in 1 .. Len(q) - i : r[k] = q[i + k],
           Len(u) = Len(items) - j, \A k \in 1 .. Len(items) - j : u[k] = items[j + k]
    PROVE  AtTheEnd(r, u)
<1> DEFINE n == Len(q)
           m == Len(items)
           e == (m - j) - (n - i)
<1>1. n \in Nat /\ m \in Nat /\ DOMAIN q = 1 .. n /\ DOMAIN r = 1 .. n - i
  BY QueueFacts
<1>2. m - n >= 0 /\ \A k \in 1 .. n : q[k] = items[k + (m - n)]
  BY <1>1 DEF AtTheEnd
<1>3. Len(u) - Len(r) = e
  OBVIOUS
<1>4. /\ i \in 1 .. n /\ j \in 1 .. m /\ j <= i + (m - n)
      /\ \A k \in 1 .. n - i : r[k] = q[i + k]
      /\ \A k \in 1 .. m - j : u[k] = items[j + k]
  OBVIOUS
<1> HIDE DEF n, m
<1>5. e >= 0
  BY <1>1, <1>4
<1>6. ASSUME NEW k \in 1 .. n - i PROVE r[k] = u[k + e]
  <2>1. /\ i + k \in 1 .. n /\ k + e \in 1 .. m - j
        /\ j + (k + e) = (i + k) + (m - n)
    BY <1>1, <1>4, <1>5
  <2>2. r[k] = items[(i + k) + (m - n)]
    BY <1>2, <1>4, <2>1
  <2>3. u[k + e] = items[j + (k + e)]
    BY <1>4, <2>1
  <2> QED
    BY <2>1, <2>2, <2>3
<1> HIDE DEF e
<1> QED
  BY <1>1, <1>3, <1>5, <1>6 DEF AtTheEnd

\* The frames of one layer change.
LEMMA OneQueue ==
    ASSUME FrameTypes, FramesInOrder, NEW l \in Layers,
           NEW q \in Seq(1 .. MaxFrame), NEW items \in Seq(1 .. MaxFrame),
           NEW d \in SUBSET (1 .. MaxFrame), NEW z \in 0 .. MaxFrame, NEW c \in 0 .. MaxFrame,
           mQueue' = [mQueue EXCEPT ![l] = q],
           mQueueItems' = [mQueueItems EXCEPT ![l] = items],
           droppable' = [droppable EXCEPT ![l] = d],
           mLastFrameNumberReceived' = [mLastFrameNumberReceived EXCEPT ![l] = z],
           mCurrentFrameNumber' = [mCurrentFrameNumber EXCEPT ![l] = c],
           UNCHANGED signaled,
           QueueInOrder(q, c, z), QueueInOrder(items, c, z), AtTheEnd(q, items),
           droppable[l] \subseteq d, mCurrentFrameNumber[l] <= c
    PROVE  /\ FrameTypes' /\ FramesInOrder'
           /\ \A k \in Layers : /\ signaled[k] <= signaled'[k]
                                /\ mCurrentFrameNumber[k] <= mCurrentFrameNumber'[k]
                                /\ droppable[k] \subseteq droppable'[k]
<1>1. FrameTypes'
  BY DEF FrameTypes
<1>2. ASSUME NEW k \in Layers
      PROVE  IF k = l THEN /\ mQueue'[k] = q /\ mQueueItems'[k] = items /\ droppable'[k] = d
                           /\ mLastFrameNumberReceived'[k] = z /\ mCurrentFrameNumber'[k] = c
             ELSE /\ mQueue'[k] = mQueue[k] /\ mQueueItems'[k] = mQueueItems[k]
                  /\ droppable'[k] = droppable[k]
                  /\ mLastFrameNumberReceived'[k] = mLastFrameNumberReceived[k]
                  /\ mCurrentFrameNumber'[k] = mCurrentFrameNumber[k]
  BY DEF FrameTypes
<1>3. FramesInOrder'
  BY <1>2, Zenon DEF FramesInOrder
<1>4. \A k \in Layers : signaled[k] <= signaled'[k]
                        /\ mCurrentFrameNumber[k] <= mCurrentFrameNumber[k]
  BY LayerAssumption DEF FrameTypes
<1>5. \A k \in Layers : mCurrentFrameNumber[k] <= mCurrentFrameNumber'[k]
  BY <1>2, <1>4
<1>6. \A k \in Layers : droppable[k] \subseteq droppable'[k]
  BY <1>2
<1> QED
  BY <1>1, <1>3, <1>4, <1>5, <1>6

\* What has to do with the numbers of frames.
frameNumbers == <<mQueue, mQueueItems, droppable, mLastFrameNumberReceived, signaled,
                  mCurrentFrameNumber>>

\* Every step, as far as the frames go.
LEMMA FrameSteps ==
    ASSUME [Next]_vars
    PROVE  \/ UNCHANGED frameNumbers
           \/ \E l \in Layers :
                 \/ \E d \in BOOLEAN : onFrameAvailable(l, d) \/ onFrameReplaced(l, d)
                 \/ fenceSignals(l)
                 \/ \E i \in DOMAIN mQueue[l] : latchFrame(l, i) \/ rejectFrame(l, i)
<1>1. CASE eventReceiver \/ frameMissed \/ invalidate \/ handleTransaction
           \/ traverseLayer \/ commitTransaction \/ gatherLayers \/ latchBuffer
           \/ presentLater \/ pageFlipDone
  BY <1>1 DEF eventReceiver, frameMissed, invalidate, handleTransaction,
              traverseLayer, commitTransaction, gatherLayers, latchBuffer,
              presentLater, pageFlipDone, frameVars, frameNumbers
<1>2. CASE handleMessageRefresh \/ presentFenceSignals \/ UNCHANGED vars
  BY <1>2 DEF handleMessageRefresh, presentFenceSignals, vars, frameVars, frameNumbers
<1>3. ASSUME NEW l \in Layers, updateTexImage(l)
      PROVE  \/ UNCHANGED frameNumbers
             \/ \E i \in DOMAIN mQueue[l] : latchFrame(l, i) \/ rejectFrame(l, i)
  <2>1. CASE l \notin DrawingLayers
    BY <1>3, <2>1 DEF updateTexImage, frameVars, frameNumbers
  <2>2. CASE latchNothing(l)
    BY <2>2 DEF latchNothing, frameNumbers
  <2> QED
    BY <1>3, <2>1, <2>2 DEF updateTexImage
<1>4. CASE \E l \in Layers : QueueFrame(l) \/ Fence(l) \/ Destroy(l)
  BY <1>4 DEF QueueFrame, Fence, Destroy, destroyLayer, frameVars, frameNumbers
<1>5. CASE \E t \in Thread :
              \/ \E c \in Call : setTransactionState(t, c)
              \/ Wakeup(t) \/ animWaitTimesOut(t) \/ waitTimesOut(t)
  BY <1>5 DEF setTransactionState, Wakeup, animWaitReturns, waitReturns,
              animWaitTimesOut, waitTimesOut, frameVars, frameNumbers
<1> QED
  BY <1>1, <1>2, <1>3, <1>4, <1>5 DEF Next, MainThread

\* Frame numbers only grow, and the queues stay in order.
LEMMA FramesStep ==
    ASSUME FrameTypes, FramesInOrder, [Next]_vars
    PROVE  /\ FrameTypes' /\ FramesInOrder'
           /\ \A l \in Layers : /\ signaled[l] <= signaled'[l]
                                /\ mCurrentFrameNumber[l] <= mCurrentFrameNumber'[l]
                                /\ droppable[l] \subseteq droppable'[l]
<1> DEFINE Grow == \A l \in Layers : /\ signaled[l] <= signaled'[l]
                                     /\ mCurrentFrameNumber[l] <= mCurrentFrameNumber'[l]
                                     /\ droppable[l] \subseteq droppable'[l]
<1>0. MaxFrame \in Nat
  BY LayerAssumption
<1>n. \A l \in Layers :
         /\ signaled[l] \in Nat /\ mCurrentFrameNumber[l] \in Nat
         /\ mLastFrameNumberReceived[l] \in Nat
         /\ mCurrentFrameNumber[l] \in 0 .. MaxFrame
         /\ mLastFrameNumberReceived[l] \in 0 .. MaxFrame
         /\ droppable[l] \in SUBSET (1 .. MaxFrame)
         /\ mQueue[l] \in Seq(1 .. MaxFrame) /\ mQueueItems[l] \in Seq(1 .. MaxFrame)
  BY <1>0 DEF FrameTypes
<1>o. \A l \in Layers :
        /\ QueueInOrder(mQueue[l], mCurrentFrameNumber[l], mLastFrameNumberReceived[l])
        /\ QueueInOrder(mQueueItems[l], mCurrentFrameNumber[l], mLastFrameNumberReceived[l])
        /\ AtTheEnd(mQueue[l], mQueueItems[l])
  BY DEF FramesInOrder
<1>1. CASE UNCHANGED frameNumbers
  BY <1>1, <1>n DEF frameNumbers, FrameTypes, FramesInOrder
<1>2. ASSUME NEW l \in Layers, NEW isDroppable \in BOOLEAN,
             onFrameAvailable(l, isDroppable) \/ onFrameReplaced(l, isDroppable)
      PROVE  FrameTypes' /\ FramesInOrder' /\ Grow
  <2> DEFINE q == mQueue[l]
             items == mQueueItems[l]
             c == mCurrentFrameNumber[l]
             z == mLastFrameNumberReceived[l]
             d == IF isDroppable THEN droppable[l] \cup {z + 1} ELSE droppable[l]
  <2>1. Receives(l, isDroppable)
    BY <1>2 DEF onFrameAvailable, onFrameReplaced
  <2>2. /\ z + 1 <= MaxFrame
        /\ mLastFrameNumberReceived' = [mLastFrameNumberReceived EXCEPT ![l] = z + 1]
        /\ droppable' = [droppable EXCEPT ![l] = d]
        /\ UNCHANGED signaled /\ UNCHANGED mCurrentFrameNumber
    BY <2>1 DEF Receives, NewFrame
  <2>3. /\ z + 1 \in 0 .. MaxFrame /\ z + 1 \in 1 .. MaxFrame
        /\ d \in SUBSET (1 .. MaxFrame) /\ droppable[l] \subseteq d
    BY <1>0, <1>n, <2>2
  <2>4. mCurrentFrameNumber' = [mCurrentFrameNumber EXCEPT ![l] = c]
    BY <2>2 DEF FrameTypes
  <2>5. /\ q \in Seq(1 .. MaxFrame) /\ items \in Seq(1 .. MaxFrame) /\ c \in Nat /\ z \in Nat
        /\ c \in 0 .. MaxFrame /\ c <= c
        /\ QueueInOrder(q, c, z) /\ QueueInOrder(items, c, z) /\ AtTheEnd(q, items)
    BY <1>n, <1>o
  <2>6. ASSUME NEW r \in Seq(1 .. MaxFrame), NEW u \in Seq(1 .. MaxFrame),
               QueueInOrder(r, c, z), QueueInOrder(u, c, z), AtTheEnd(r, u),
               mQueue' = [mQueue EXCEPT ![l] = Append(r, z + 1)],
               mQueueItems' = [mQueueItems EXCEPT ![l] = Append(u, z + 1)]
        PROVE  FrameTypes' /\ FramesInOrder' /\ Grow
    <3> HIDE DEF q, items, c, z, d
    <3>1. Append(r, z + 1) \in Seq(1 .. MaxFrame) /\ QueueInOrder(Append(r, z + 1), c, z + 1)
      BY <1>0, <2>2, <2>5, <2>6, QueueAppended
    <3>2. Append(u, z + 1) \in Seq(1 .. MaxFrame) /\ QueueInOrder(Append(u, z + 1), c, z + 1)
      BY <1>0, <2>2, <2>5, <2>6, QueueAppended
    <3>3. AtTheEnd(Append(r, z + 1), Append(u, z + 1))
      BY <1>0, <2>3, <2>6, EndAppended
    <3>4. mCurrentFrameNumber[l] <= c
      BY <2>5 DEF c
    <3> QED
      BY <2>2, <2>3, <2>4, <2>5, <2>6, <3>1, <3>2, <3>3, <3>4, OneQueue
  <2>7. CASE onFrameAvailable(l, isDroppable)
    <3>1. /\ mQueue' = [mQueue EXCEPT ![l] = Append(q, z + 1)]
          /\ mQueueItems' = [mQueueItems EXCEPT ![l] = Append(items, z + 1)]
      BY <2>7 DEF onFrameAvailable, NewFrame
    <3> QED
      BY <2>5, <2>6, <3>1
  <2>8. CASE onFrameReplaced(l, isDroppable)
    <3>1. /\ q # <<>> /\ items # <<>>
          /\ mQueue' = [mQueue EXCEPT ![l] = Append(Front(q), z + 1)]
          /\ mQueueItems' = [mQueueItems EXCEPT ![l] = Append(Front(items), z + 1)]
      BY <2>8 DEF onFrameReplaced, Replaces, NewFrame
    <3> HIDE DEF q, items, c, z
    <3>2. /\ Front(q) \in Seq(1 .. MaxFrame) /\ Len(Front(q)) = Len(q) - 1 /\ Len(q) >= 1
          /\ \A i \in 1 .. Len(q) - 1 : Front(q)[i] = q[i]
          /\ QueueInOrder(Front(q), c, z)
      BY <1>0, <2>5, <3>1, QueueFront
    <3>3. /\ Front(items) \in Seq(1 .. MaxFrame) /\ Len(Front(items)) = Len(items) - 1
          /\ Len(items) >= 1
          /\ \A i \in 1 .. Len(items) - 1 : Front(items)[i] = items[i]
          /\ QueueInOrder(Front(items), c, z)
      BY <1>0, <2>5, <3>1, QueueFront
    <3>4. AtTheEnd(Front(q), Front(items))
      BY <1>0, <2>5, <3>2, <3>3, EndFront
    <3> QED
      BY <2>6, <3>1, <3>2, <3>3, <3>4
  <2> QED
    BY <1>2, <2>7, <2>8
<1>3. ASSUME NEW l \in Layers, fenceSignals(l)
      PROVE  FrameTypes' /\ FramesInOrder' /\ Grow
  <2>1. /\ signaled' = [signaled EXCEPT ![l] = @ + 1]
        /\ UNCHANGED <<mQueue, mQueueItems, droppable, mLastFrameNumberReceived,
                       mCurrentFrameNumber>>
        /\ signaled[l] < mLastFrameNumberReceived[l]
    BY <1>3 DEF fenceSignals
  <2>2. signaled[l] + 1 \in 0 .. MaxFrame
    <3>1. signaled[l] \in 0 .. MaxFrame /\ mLastFrameNumberReceived[l] \in 0 .. MaxFrame
      BY DEF FrameTypes
    <3> QED
      BY <1>0, <2>1, <3>1
  <2>3. FrameTypes'
    BY <2>1, <2>2 DEF FrameTypes
  <2>4. \A k \in Layers : signaled[k] <= signaled'[k]
    BY <1>n, <2>1 DEF FrameTypes
  <2>5. \A k \in Layers : mCurrentFrameNumber[k] <= mCurrentFrameNumber[k]
    BY <1>n
  <2> QED
    BY <2>1, <2>3, <2>4, <2>5 DEF FramesInOrder
<1>4. ASSUME NEW l \in Layers, NEW i \in DOMAIN mQueue[l], NEW j \in DOMAIN mQueueItems[l],
             NEW latched,
             \/ latched = mQueue[l][i] /\ latched = mQueueItems[l][j]
             \/ latched = mCurrentFrameNumber[l] /\ j = 1,
             mQueue' = [mQueue EXCEPT ![l] = SubSeq(@, i + 1, Len(@))],
             mQueueItems' = [mQueueItems EXCEPT ![l] = SubSeq(@, j + 1, Len(@))],
             mCurrentFrameNumber' = [mCurrentFrameNumber EXCEPT ![l] = latched],
             UNCHANGED <<droppable, mLastFrameNumberReceived, signaled>>
      PROVE  FrameTypes' /\ FramesInOrder' /\ Grow
  <2> DEFINE q == mQueue[l]
             items == mQueueItems[l]
             c == mCurrentFrameNumber[l]
             z == mLastFrameNumberReceived[l]
             r == SubSeq(q, i + 1, Len(q))
             u == SubSeq(items, j + 1, Len(items))
  <2>1. /\ q \in Seq(1 .. MaxFrame) /\ items \in Seq(1 .. MaxFrame) /\ c \in Nat /\ z \in Nat
        /\ z \in 0 .. MaxFrame /\ droppable[l] \in SUBSET (1 .. MaxFrame)
        /\ QueueInOrder(q, c, z) /\ QueueInOrder(items, c, z) /\ AtTheEnd(q, items)
    BY <1>n, <1>o
  <2>2. /\ mQueue' = [mQueue EXCEPT ![l] = r] /\ mQueueItems' = [mQueueItems EXCEPT ![l] = u]
        /\ droppable' = [droppable EXCEPT ![l] = droppable[l]]
        /\ mLastFrameNumberReceived' = [mLastFrameNumberReceived EXCEPT ![l] = z]
        /\ UNCHANGED signaled /\ droppable[l] \subseteq droppable[l]
    BY <1>4 DEF FrameTypes
  <2>3. /\ latched \in {c, q[i]} /\ latched \in {c, items[j]}
        /\ (latched = q[i] /\ latched = items[j]) \/ j = 1
        /\ i \in DOMAIN q /\ j \in DOMAIN items
    BY <1>4
  <2> HIDE DEF q, items, c, z
  <2>4. /\ Len(q) \in Nat /\ i \in 1 .. Len(q) /\ Len(items) \in Nat /\ j \in 1 .. Len(items)
        /\ DOMAIN q = 1 .. Len(q)
    BY <1>0, <2>1, <2>3, QueueFacts
  <2>a. Taken(MaxFrame, q, i, r, latched, c, z) /\ Taken(MaxFrame, items, j, u, latched, c, z)
    BY <1>0, <2>1, <2>3, <2>4, QueueTaken, Zenon
  <2> HIDE DEF r, u
  <2>5. /\ r \in Seq(1 .. MaxFrame) /\ Len(r) = Len(q) - i
        /\ \A k \in 1 .. Len(q) - i : r[k] = q[i + k]
        /\ QueueInOrder(r, latched, z) /\ c <= latched /\ latched <= z
    BY <2>a DEF Taken
  <2>6. /\ u \in Seq(1 .. MaxFrame) /\ Len(u) = Len(items) - j
        /\ \A k \in 1 .. Len(items) - j : u[k] = items[j + k]
        /\ QueueInOrder(u, latched, z)
    BY <2>a DEF Taken
  <2>7. j <= i + (Len(items) - Len(q))
    <3> DEFINE e == i + (Len(items) - Len(q))
    <3>1. Len(items) - Len(q) >= 0 /\ q[i] = items[e]
      BY <2>1, <2>4 DEF AtTheEnd
    <3>2. e \in 1 .. Len(items) /\ j \in 1 .. Len(items) /\ 1 <= e
      BY <2>4, <3>1
    <3>3. CASE latched = q[i] /\ latched = items[j]
      <4>1. \A a \in 1 .. Len(items) : items[a] \in Nat
        BY <1>0, <2>1, QueueFacts
      <4>2. \A a, b \in 1 .. Len(items) : a < b => items[a] < items[b]
        BY <2>1 DEF QueueInOrder
      <4>3. items[e] = items[j] /\ items[e] \in Nat
        BY <3>1, <3>2, <3>3, <4>1
      <4>4. ~(e < j)
        BY <3>2, <4>2, <4>3
      <4> HIDE DEF e
      <4>5. j <= e
        BY <2>4, <3>2, <4>4
      <4> QED
        BY <4>5 DEF e
    <3> QED
      BY <2>3, <3>2, <3>3
  <2>8. AtTheEnd(r, u)
    BY <1>0, <2>1, <2>4, <2>5, <2>6, <2>7, EndTaken
  <2>9. latched \in 0 .. MaxFrame /\ mCurrentFrameNumber[l] <= latched
    <3>1. \A k \in 1 .. Len(q) : q[k] \in Nat
      BY <1>0, <2>1, QueueFacts
    <3>2. latched \in Nat
      BY <2>1, <2>3, <2>4, <3>1
    <3> QED
      BY <1>0, <2>1, <2>5, <3>2 DEF c
  <2> QED
    BY <1>4, <2>1, <2>2, <2>5, <2>6, <2>8, <2>9, OneQueue
<1>5. ASSUME NEW l \in Layers, NEW i \in DOMAIN mQueue[l], rejectFrame(l, i)
      PROVE  FrameTypes' /\ FramesInOrder' /\ Grow
  <2> DEFINE items == mQueueItems[l]
  <2>1. /\ mQueue' = [mQueue EXCEPT ![l] = SubSeq(@, i + 1, Len(@))]
        /\ mQueueItems' = [mQueueItems EXCEPT ![l] = Tail(items)]
        /\ UNCHANGED <<droppable, mLastFrameNumberReceived, signaled, mCurrentFrameNumber>>
        /\ items # <<>> /\ items \in Seq(1 .. MaxFrame)
    BY <1>5, <1>n DEF rejectFrame
  <2>2. Tail(items) = SubSeq(items, 1 + 1, Len(items)) /\ 1 \in DOMAIN items
    BY <2>1, TailIsSubSeq, EmptySeq, LenProperties
  <2>3. mQueueItems' = [mQueueItems EXCEPT ![l] = SubSeq(@, 1 + 1, Len(@))]
    BY <2>1, <2>2
  <2>4. mCurrentFrameNumber' = [mCurrentFrameNumber EXCEPT ![l] = mCurrentFrameNumber[l]]
    BY <2>1 DEF FrameTypes
  <2> HIDE DEF Grow
  <2> QED
    BY <1>4, <2>1, <2>2, <2>3, <2>4
<1>6. ASSUME NEW l \in Layers, NEW i \in DOMAIN mQueue[l], latchFrame(l, i)
      PROVE  FrameTypes' /\ FramesInOrder' /\ Grow
  <2>1. PICK j \in DOMAIN mQueueItems[l] :
           /\ mQueueItems[l][j] = mQueue[l][i]
           /\ mQueueItems' = [mQueueItems EXCEPT ![l] = SubSeq(@, j + 1, Len(@))]
    BY <1>6 DEF latchFrame
  <2>2. /\ mQueue' = [mQueue EXCEPT ![l] = SubSeq(@, i + 1, Len(@))]
        /\ mCurrentFrameNumber' = [mCurrentFrameNumber EXCEPT ![l] = mQueue[l][i]]
        /\ UNCHANGED <<droppable, mLastFrameNumberReceived, signaled>>
    BY <1>6 DEF latchFrame
  <2> HIDE DEF Grow
  <2> QED
    BY <1>4, <2>1, <2>2
<1> HIDE DEF Grow
<1>7. FrameTypes' /\ FramesInOrder' /\ Grow
  <2>1. UNCHANGED frameNumbers => Grow
    BY <1>n DEF frameNumbers, Grow
  <2> QED
    BY <1>1, <1>2, <1>3, <1>5, <1>6, <2>1, FrameSteps
<1> QED
  BY <1>7 DEF Grow

-----------------------------------------------------------------------------
(* The invariant of the layers                                             *)

\* The lists name points of their own layer.
Owned ==
    \A l \in Layers : /\ \A i \in mLocalSyncPoints[l] : syncPoint[i].of = l
                      /\ \A i \in Range(layer[l].remote) : syncPoint[i].by = l

\* What a step keeps of a point.
PointsKept ==
    /\ syncPoint' \in Seq(SyncPoint) /\ DOMAIN syncPoint \subseteq DOMAIN syncPoint'
    /\ \A i \in DOMAIN syncPoint :
          /\ syncPoint'[i].of = syncPoint[i].of /\ syncPoint'[i].by = syncPoint[i].by
          /\ syncPoint'[i].frameNumber = syncPoint[i].frameNumber

\* The points in a layer's lists are points there are.
LEMMA ListedPoints ==
    ASSUME LayerInv, NEW l \in Layers
    PROVE  /\ mLocalSyncPoints[l] \subseteq DOMAIN syncPoint
           /\ Range(layer[l].remote) \subseteq DOMAIN syncPoint
           /\ \A i \in DOMAIN layer[l].remote : layer[l].remote[i] \in DOMAIN syncPoint
<1>1. layer[l].remote \in Seq(DOMAIN syncPoint)
  BY DEF LayerInv, LayerState
<1>2. \A i \in DOMAIN layer[l].remote : layer[l].remote[i] \in DOMAIN syncPoint
  BY <1>1, ElementOfSeq, LenProperties
<1> QED
  BY <1>2 DEF LayerInv, Range

\* Points that are kept leave the layers that do not change as they were.
LEMMA OthersKept ==
    ASSUME LayerInv, Owned, PointsKept, NEW l \in Layers
    PROVE  /\ layer[l] \in LayerState(DOMAIN syncPoint')
           /\ Matched(syncPoint', layer[l].pending, layer[l].remote)
           /\ \A i \in mLocalSyncPoints[l] : i \in DOMAIN syncPoint' /\ syncPoint'[i].of = l
           /\ \A i \in Range(layer[l].remote) : syncPoint'[i].by = l
<1>1. layer[l].remote \in Seq(DOMAIN syncPoint')
  <2>1. layer[l].remote \in Seq(DOMAIN syncPoint) /\ DOMAIN syncPoint \subseteq DOMAIN syncPoint'
    BY DEF LayerInv, LayerState, PointsKept
  <2> QED
    BY <2>1, SeqMonotonic
<1>2. layer[l] \in LayerState(DOMAIN syncPoint')
  BY <1>1 DEF LayerInv, LayerState
<1>3. Matched(syncPoint', layer[l].pending, layer[l].remote)
  BY ListedPoints, MatchedPoints DEF LayerInv, PointsMatchStates, PointsKept
<1> QED
  BY <1>2, <1>3, ListedPoints DEF Owned, PointsKept

\* What a step does to one layer, when the others stay.
OneLayer(l, new) ==
    /\ layer' = [layer EXCEPT ![l] = new] /\ PointsKept
    /\ new \in LayerState(DOMAIN syncPoint')
    /\ StateInv(new.current, new.drawing, new.pending)
    /\ Matched(syncPoint', new.pending, new.remote)
    /\ \A i \in Range(new.remote) : syncPoint'[i].by = l
    /\ \A k \in Layers : \A i \in mLocalSyncPoints'[k] :
          i \in DOMAIN syncPoint' /\ syncPoint'[i].of = k
    /\ mLocalSyncPoints' \in [Layers -> SUBSET DOMAIN syncPoint']

\* A step that changes one layer keeps the invariant of all.
LEMMA OneLayerStep ==
    ASSUME LayerInv, Owned, NEW l \in Layers, NEW new, OneLayer(l, new)
    PROVE  LayerInv' /\ Owned'
<1>1. /\ layer'[l] = new /\ \A k \in Layers \ {l} : layer'[k] = layer[k]
      /\ layer' = [k \in Layers |-> IF k = l THEN new ELSE layer[k]]
  BY DEF OneLayer, LayerInv
<1>2. layer' \in [Layers -> LayerState(DOMAIN syncPoint')]
  <2>1. \A k \in Layers : layer'[k] \in LayerState(DOMAIN syncPoint')
    BY <1>1, OthersKept DEF OneLayer
  <2> QED
    BY <1>1, <2>1
<1>3. \A k \in Layers : StateInv(layer'[k].current, layer'[k].drawing, layer'[k].pending)
  BY <1>1 DEF OneLayer, LayerInv
<1>4. \A k \in Layers : Matched(syncPoint', layer'[k].pending, layer'[k].remote)
  BY <1>1, OthersKept DEF OneLayer
<1>5. \A k \in Layers : \A i \in Range(layer'[k].remote) : syncPoint'[i].by = k
  BY <1>1, OthersKept DEF OneLayer
<1>6. LayerInv'
  BY <1>2, <1>3, <1>4 DEF LayerInv, PointsMatchStates, OneLayer, PointsKept
<1>7. Owned'
  BY <1>5 DEF Owned, OneLayer
<1> QED
  BY <1>6, <1>7

\* The layers and their lists, when only points and lists change.
LEMMA NoLayerStep ==
    ASSUME LayerInv, Owned, PointsKept, UNCHANGED layer,
           mLocalSyncPoints' \in [Layers -> SUBSET DOMAIN syncPoint'],
           \A k \in Layers : mLocalSyncPoints'[k] \subseteq mLocalSyncPoints[k]
    PROVE  LayerInv' /\ Owned'
<1>1. LayerInv'
  <2>1. \A k \in Layers : /\ layer[k] \in LayerState(DOMAIN syncPoint')
                          /\ Matched(syncPoint', layer[k].pending, layer[k].remote)
    BY OthersKept
  <2>2. layer \in [Layers -> LayerState(DOMAIN syncPoint')]
    BY <2>1 DEF LayerInv
  <2> QED
    BY <2>1, <2>2 DEF LayerInv, PointsMatchStates, PointsKept
<1>2. Owned'
  BY OthersKept DEF Owned
<1> QED
  BY <1>1, <1>2

\* The states of a layer stay in order, match their points, and the state drawn
\* does not go back; new points and available ones are those that may be.
LEMMA LayerStep ==
    ASSUME LayerInv, Owned, FrameTypes, CallKept, todo \subseteq Layers, [Next]_vars
    PROVE  /\ LayerInv' /\ Owned' /\ PointsKept
           /\ \A l \in Layers :
                 /\ layer[l].drawing.version <= layer'[l].drawing.version
                 /\ layer[l].drawing.hidden => layer'[l].drawing.hidden
                 /\ life[l] = "dead" => life'[l] = "dead"
<1>p. UNCHANGED syncPoint => PointsKept
  BY DEF PointsKept, LayerInv
<1>d. \A l \in Layers : layer[l].drawing.version <= layer[l].drawing.version
  <2>1. \A l \in Layers : layer[l].drawing.version \in Nat
    BY DEF LayerInv, LayerState, DrawingState, Version
  <2> QED
    BY <2>1
<1>l. mLocalSyncPoints \in [Layers -> SUBSET DOMAIN syncPoint]
  BY DEF LayerInv
<1>1. CASE UNCHANGED stateVars
  BY <1>1, <1>p, <1>d, <1>l, NoLayerStep DEF stateVars
<1>2. CASE \E which : /\ PointsStep(syncPoint, syncPoint', which, {})
                      /\ UNCHANGED <<layer, mLocalSyncPoints, mTransactionFlags, life>>
  <2>1. PointsKept
    BY <1>2 DEF PointsStep, PointsKept
  <2>2. mLocalSyncPoints' \in [Layers -> SUBSET DOMAIN syncPoint']
    BY <1>2, <1>l DEF PointsStep
  <2> QED
    BY <1>2, <1>d, <2>1, <2>2, NoLayerStep
<1>3. CASE /\ traverseLayer
           /\ \E new, which, applied : Transacted(NextLayer, new, which, applied)
           /\ UNCHANGED life
  <2> DEFINE l == NextLayer
  <2>0. l \in Layers
    BY <1>3, LayerAssumption, MinIsIn DEF NextLayer, traverseLayer
  <2>1. PICK new, which, applied : Transacted(l, new, which, applied)
    BY <1>3
  <2> HIDE DEF l
  <2>2. /\ layer' = [layer EXCEPT ![l] = new] /\ new \in LayerState(DOMAIN syncPoint)
        /\ StateInv(new.current, new.drawing, new.pending)
        /\ Matched(syncPoint, new.pending, new.remote)
        /\ Range(new.remote) \subseteq Range(layer[l].remote)
        /\ mLocalSyncPoints' \in {mLocalSyncPoints, [mLocalSyncPoints EXCEPT ![l] = {}]}
        /\ layer[l].drawing.version <= new.drawing.version
        /\ layer[l].drawing.hidden => new.drawing.hidden
        /\ PointsStep(syncPoint, syncPoint', which, applied)
    BY <2>1 DEF Transacted
  <2>3. PointsKept /\ DOMAIN syncPoint' = DOMAIN syncPoint
    BY <2>2 DEF PointsStep, PointsKept
  <2>4. Matched(syncPoint', new.pending, new.remote)
    <3>1. \A i \in DOMAIN new.remote : new.remote[i] \in DOMAIN syncPoint
      BY <2>0, <2>2, ListedPoints DEF Range
    <3> QED
      BY <2>2, <2>3, <3>1, MatchedPoints DEF PointsKept
  <2>5. \A i \in Range(new.remote) : syncPoint'[i].by = l
    BY <2>0, <2>2, <2>3, OthersKept
  <2>6. /\ mLocalSyncPoints' \in [Layers -> SUBSET DOMAIN syncPoint']
        /\ \A k \in Layers : mLocalSyncPoints'[k] \subseteq mLocalSyncPoints[k]
    BY <1>l, <2>2, <2>3
  <2>7. \A k \in Layers : \A i \in mLocalSyncPoints'[k] :
            i \in DOMAIN syncPoint' /\ syncPoint'[i].of = k
    BY <2>3, <2>6, OthersKept
  <2>8. OneLayer(l, new)
    BY <2>2, <2>3, <2>4, <2>5, <2>6, <2>7 DEF OneLayer
  <2>9. LayerInv' /\ Owned'
    BY <2>0, <2>8, OneLayerStep
  <2>10. \A k \in Layers : /\ layer[k].drawing.version <= layer'[k].drawing.version
                           /\ layer[k].drawing.hidden => layer'[k].drawing.hidden
    BY <1>d, <2>2 DEF LayerInv
  <2> QED
    BY <1>3, <2>3, <2>9, <2>10
<1>4. ASSUME NEW t \in Thread, NEW c \in Call, NEW new,
             Requested(c.layer, new), UNCHANGED life
      PROVE  /\ LayerInv' /\ Owned' /\ PointsKept
             /\ \A l \in Layers :
                   /\ layer[l].drawing.version <= layer'[l].drawing.version
                   /\ layer[l].drawing.hidden => layer'[l].drawing.hidden
                   /\ life[l] = "dead" => life'[l] = "dead"
  <2> DEFINE l == c.layer
  <2>0. l \in Layers
    BY CallFields
  <2> HIDE DEF l
  <2>1. Requested(l, new)
    BY <1>4 DEF l
  <2>2. /\ layer' = [layer EXCEPT ![l] = new] /\ new \in LayerState(DOMAIN syncPoint')
        /\ StateInv(new.current, new.drawing, new.pending)
        /\ Matched(syncPoint', new.pending, new.remote)
        /\ mLocalSyncPoints' \in [Layers -> SUBSET DOMAIN syncPoint']
        /\ \A k \in Layers : \A i \in mLocalSyncPoints'[k] :
              i \in mLocalSyncPoints[k] \/ syncPoint'[i].of = k
        /\ new.drawing = layer[l].drawing
        /\ \A i \in DOMAIN new.remote : new.remote[i] \in Range(layer[l].remote)
                                        \/ syncPoint'[new.remote[i]].by = l
        /\ PointsGrow(syncPoint, syncPoint', l)
    BY <2>1 DEF Requested
  <2>3. PointsKept
    BY <2>2 DEF PointsGrow, PointsKept
  <2>4. \A i \in Range(new.remote) : syncPoint'[i].by = l
    BY <2>0, <2>2, <2>3, OthersKept DEF Range
  <2>5. \A k \in Layers : \A i \in mLocalSyncPoints'[k] :
            i \in DOMAIN syncPoint' /\ syncPoint'[i].of = k
    BY <2>2, <2>3, OthersKept
  <2>6. OneLayer(l, new)
    BY <2>2, <2>3, <2>4, <2>5 DEF OneLayer
  <2>7. LayerInv' /\ Owned'
    BY <2>0, <2>6, OneLayerStep
  <2>8. \A k \in Layers : /\ layer[k].drawing.version <= layer'[k].drawing.version
                          /\ layer[k].drawing.hidden => layer'[k].drawing.hidden
    BY <1>d, <2>2 DEF LayerInv
  <2> QED
    BY <1>4, <2>3, <2>7, <2>8
<1>5. CASE /\ UNCHANGED <<layer, mLocalSyncPoints, syncPoint, mTransactionFlags>>
           /\ \A l \in Layers : life'[l] # life[l]
                 => life[l] \in {"live", "removing"} /\ life'[l] # "live"
  <2>1. LayerInv' /\ Owned'
    BY <1>5, <1>p, <1>l, NoLayerStep
  <2>2. \A l \in Layers : life[l] = "dead" => life'[l] = "dead"
    BY <1>5
  <2> QED
    BY <1>5, <1>p, <1>d, <2>1, <2>2
<1>6. ASSUME NEW l \in Layers, destroyLayer(l)
      PROVE  /\ LayerInv' /\ Owned' /\ PointsKept
             /\ UNCHANGED layer
             /\ \A k \in Layers : life[k] = "dead" => life'[k] = "dead"
  <2>1. /\ syncPoint' = SetAvailable(SetApplied(syncPoint, Range(layer[l].remote)),
                                     mLocalSyncPoints[l])
        /\ UNCHANGED <<layer, mLocalSyncPoints>> /\ life' = [life EXCEPT ![l] = "dead"]
    BY <1>6 DEF destroyLayer
  <2>2. PointsStep(syncPoint, syncPoint', mLocalSyncPoints[l], Range(layer[l].remote))
    BY <2>1, SetBoth DEF LayerInv
  <2>3. PointsKept /\ DOMAIN syncPoint' = DOMAIN syncPoint
    BY <2>2 DEF PointsStep, PointsKept
  <2>4. LayerInv' /\ Owned'
    BY <1>l, <2>1, <2>3, NoLayerStep
  <2>5. \A k \in Layers : life[k] = "dead" => life'[k] = "dead"
    BY <2>1
  <2> QED
    BY <2>1, <2>3, <2>4, <2>5
<1>7. ASSUME NEW l \in Layers, NEW erased,
             mLocalSyncPoints' = [mLocalSyncPoints EXCEPT ![l] = @ \ erased],
             UNCHANGED <<layer, syncPoint, mTransactionFlags, life>>
      PROVE  LayerInv' /\ Owned' /\ PointsKept
  <2>1. /\ mLocalSyncPoints' \in [Layers -> SUBSET DOMAIN syncPoint']
        /\ \A k \in Layers : mLocalSyncPoints'[k] \subseteq mLocalSyncPoints[k]
    BY <1>7, <1>l
  <2> QED
    BY <1>7, <1>p, <2>1, NoLayerStep
<1> QED
  BY <1>1, <1>2, <1>3, <1>4, <1>5, <1>6, <1>7, <1>d, StateSteps

\* The frame of p is there, was latched, or will never be shown.
FrameOver(p) ==
    \/ FrameIsThere(p.frameNumber, p.of)
    \/ layer[p.of].drawing.hidden \/ life[p.of] = "dead"

\* Points become available, and are applied, in time.
LEMMA NotEarlyStep ==
    ASSUME LayerInv, Owned, FrameTypes, FramesInOrder, CallKept, todo \subseteq Layers,
           life \in [Layers -> {"live", "removing", "removed", "dead"}],
           NotEarly, [Next]_vars
    PROVE  NotEarly'
<1> DEFINE D == DOMAIN syncPoint
<1>0. /\ \A i \in D : syncPoint[i] \in SyncPoint
      /\ \A i \in D : syncPoint[i].of \in Layers /\ syncPoint[i].by \in Layers
                      /\ syncPoint[i].frameNumber \in Nat
  <2>1. \A i \in D : syncPoint[i] \in SyncPoint
    BY ElementOfSeq, LenProperties DEF LayerInv
  <2> QED
    BY <2>1 DEF SyncPoint
<1>1. /\ PointsKept
      /\ \A l \in Layers : /\ layer[l].drawing.hidden => layer'[l].drawing.hidden
                           /\ life[l] = "dead" => life'[l] = "dead"
  BY LayerStep
<1>2. \A l \in Layers : /\ signaled[l] <= signaled'[l]
                        /\ mCurrentFrameNumber[l] <= mCurrentFrameNumber'[l]
                        /\ droppable[l] \subseteq droppable'[l]
                        /\ signaled[l] \in Nat /\ mCurrentFrameNumber[l] \in Nat
                        /\ signaled'[l] \in Nat /\ mCurrentFrameNumber'[l] \in Nat
  <2>1. MaxFrame \in Nat
    BY LayerAssumption
  <2>2. \A l \in Layers : /\ signaled[l] \in 0 .. MaxFrame
                          /\ mCurrentFrameNumber[l] \in 0 .. MaxFrame
    BY DEF FrameTypes
  <2>3. \A l \in Layers : /\ signaled'[l] \in 0 .. MaxFrame
                          /\ mCurrentFrameNumber'[l] \in 0 .. MaxFrame
    BY FramesStep DEF FrameTypes
  <2> QED
    BY <2>1, <2>2, <2>3, FramesStep
<1>3. ASSUME NEW i \in D, FrameOver(syncPoint[i]) PROVE FrameOver(syncPoint[i])'
  <2>1. syncPoint'[i].of = syncPoint[i].of
        /\ syncPoint'[i].frameNumber = syncPoint[i].frameNumber
    BY <1>1 DEF PointsKept
  <2> DEFINE l == syncPoint[i].of
             f == syncPoint[i].frameNumber
  <2>2. l \in Layers /\ f \in Nat
    BY <1>0
  <2>3. FrameIsThere(f, l) => FrameIsThere(f, l)'
    <3>1. (f <= signaled[l] => f <= signaled'[l])
          /\ (f <= mCurrentFrameNumber[l] => f <= mCurrentFrameNumber'[l])
      BY <1>2, <2>2
    <3>2. droppable[l] \subseteq droppable'[l]
      BY <1>2, <2>2
    <3>3. f' = f /\ l' = l
      BY <2>1
    <3> HIDE DEF f, l
    <3> QED
      BY <3>1, <3>2, <3>3 DEF FrameIsThere
  <2> QED
    BY <1>1, <1>3, <2>1, <2>2, <2>3 DEF FrameOver
<1>4. \A i \in D : syncPoint[i].available => FrameOver(syncPoint[i])
  BY DEF NotEarly, FrameOver, FrameIsThere
<1>5. \A i \in D : syncPoint[i].applied => syncPoint[i].available \/ life[syncPoint[i].by] = "dead"
  BY DEF NotEarly
<1> DEFINE New(i) == i \in DOMAIN syncPoint' /\ ~(i \in D /\ syncPoint[i].available)
                     /\ syncPoint'[i].available
           NewApplied(i) == i \in DOMAIN syncPoint' /\ ~(i \in D /\ syncPoint[i].applied)
                            /\ syncPoint'[i].applied
<1>6. SUFFICES /\ \A i : New(i) => FrameOver(syncPoint[i])'
               /\ \A i : NewApplied(i) => syncPoint'[i].available \/ life'[syncPoint'[i].by] = "dead"
               /\ \A i \in D : syncPoint[i].available => syncPoint'[i].available
  <2> SUFFICES ASSUME /\ \A i : New(i) => FrameOver(syncPoint[i])'
                      /\ \A i : NewApplied(i)
                            => syncPoint'[i].available \/ life'[syncPoint'[i].by] = "dead"
                      /\ \A i \in D : syncPoint[i].available => syncPoint'[i].available,
                      NEW i \in DOMAIN syncPoint'
               PROVE  /\ syncPoint'[i].available => FrameOver(syncPoint[i])'
                      /\ syncPoint'[i].applied
                            => syncPoint'[i].available \/ life'[syncPoint'[i].by] = "dead"
    BY DEF NotEarly, FrameOver, FrameIsThere
  <2>1. syncPoint'[i].available => FrameOver(syncPoint[i])'
    BY <1>3, <1>4
  <2>2. ASSUME i \in D, syncPoint[i].applied
        PROVE  syncPoint'[i].available \/ life'[syncPoint'[i].by] = "dead"
    BY <1>0, <1>1, <1>5, <2>2 DEF PointsKept
  <2> QED
    BY <2>1, <2>2
<1>7. CASE UNCHANGED syncPoint
  BY <1>7
<1>8. ASSUME NEW which, PointsStep(syncPoint, syncPoint', which, {}), FramesThere(which)
      PROVE  /\ \A i : New(i) => FrameOver(syncPoint[i])'
             /\ \A i : NewApplied(i) => FALSE
             /\ \A i \in D : syncPoint[i].available => syncPoint'[i].available
  <2>1. ASSUME NEW i, New(i) PROVE FrameOver(syncPoint[i])'
    <3>1. i \in D /\ i \in which
      BY <1>8, <2>1 DEF PointsStep
    <3>2. FrameOver(syncPoint[i])
      BY <1>8, <3>1 DEF FramesThere, Owned, FrameOver
    <3> QED
      BY <1>3, <3>1, <3>2
  <2> QED
    BY <1>8, <2>1 DEF PointsStep
<1>9. ASSUME NEW l \in Layers, NEW new, NEW which, NEW applied,
             Transacted(l, new, which, applied)
      PROVE  /\ \A i : New(i) => FrameOver(syncPoint[i])'
             /\ \A i : NewApplied(i) => syncPoint'[i].available
             /\ \A i \in D : syncPoint[i].available => syncPoint'[i].available
  <2>1. /\ PointsStep(syncPoint, syncPoint', which, applied)
        /\ \A i \in applied : syncPoint[i].available
        /\ which \subseteq mLocalSyncPoints[l] /\ (which # {} => new.drawing.hidden)
        /\ layer' = [layer EXCEPT ![l] = new]
    BY <1>9 DEF Transacted
  <2>2. ASSUME NEW i, New(i) PROVE FrameOver(syncPoint[i])'
    <3>1. i \in D /\ i \in which
      BY <2>1, <2>2 DEF PointsStep
    <3>2. syncPoint'[i].of = l
      BY <1>1, <2>1, <3>1 DEF Owned, PointsKept
    <3>3. layer'[l].drawing.hidden
      BY <2>1, <3>1 DEF LayerInv
    <3> QED
      BY <3>2, <3>3 DEF FrameOver
  <2> QED
    BY <2>1, <2>2 DEF PointsStep
<1>10. ASSUME NEW l, PointsGrow(syncPoint, syncPoint', l)
       PROVE  /\ \A i : ~New(i) /\ ~NewApplied(i)
              /\ \A i \in D : syncPoint[i].available => syncPoint'[i].available
  BY <1>10 DEF PointsGrow
<1>11. ASSUME NEW l \in Layers, destroyLayer(l)
       PROVE  /\ \A i : New(i) => FrameOver(syncPoint[i])'
              /\ \A i : NewApplied(i) => life'[syncPoint'[i].by] = "dead"
              /\ \A i \in D : syncPoint[i].available => syncPoint'[i].available
  <2>1. /\ syncPoint' = SetAvailable(SetApplied(syncPoint, Range(layer[l].remote)),
                                     mLocalSyncPoints[l])
        /\ life' = [life EXCEPT ![l] = "dead"]
    BY <1>11 DEF destroyLayer
  <2>2. PointsStep(syncPoint, syncPoint', mLocalSyncPoints[l], Range(layer[l].remote))
    BY <2>1, SetBoth DEF LayerInv
  <2>3. life'[l] = "dead"
    BY <2>1
  <2>4. ASSUME NEW i, New(i) PROVE FrameOver(syncPoint[i])'
    <3>1. i \in D /\ i \in mLocalSyncPoints[l]
      BY <2>2, <2>4 DEF PointsStep
    <3>2. syncPoint'[i].of = l
      BY <1>1, <3>1 DEF Owned, PointsKept
    <3> QED
      BY <2>3, <3>2 DEF FrameOver
  <2>5. ASSUME NEW i, NewApplied(i) PROVE life'[syncPoint'[i].by] = "dead"
    <3>1. i \in D /\ i \in Range(layer[l].remote)
      BY <2>2, <2>5 DEF PointsStep
    <3>2. syncPoint'[i].by = l
      BY <1>1, <3>1 DEF Owned, PointsKept
    <3> QED
      BY <2>3, <3>2
  <2> QED
    BY <2>2, <2>4, <2>5 DEF PointsStep
<1>12. traverseLayer => NextLayer \in Layers
  BY LayerAssumption, MinIsIn DEF NextLayer, traverseLayer
<1> HIDE DEF New, NewApplied
<1>13. CASE \E which : PointsStep(syncPoint, syncPoint', which, {}) /\ FramesThere(which)
  BY <1>8, <1>13
<1>14. CASE /\ traverseLayer
            /\ \E new, which, applied : Transacted(NextLayer, new, which, applied)
  BY <1>9, <1>12, <1>14
<1>15. CASE \E c \in Call : \E new : Requested(c.layer, new)
  <2>1. \E l : PointsGrow(syncPoint, syncPoint', l)
    BY <1>15 DEF Requested
  <2> QED
    BY <1>10, <2>1
<1>16. CASE \E l \in Layers : destroyLayer(l)
  BY <1>11, <1>16
<1> QED
  BY <1>7, <1>13, <1>14, <1>15, <1>16, StateSteps DEF stateVars

-----------------------------------------------------------------------------
(* Messages and threads                                                    *)

\* The messages, and a queue that has each at most once.
Message == {"INVALIDATE", "REFRESH"}

MessagesOK(q) == q \in Seq(Message) /\ IsInjective(q)

\* The looper holds at most one message of each kind, and dispatching one keeps
\* those that are there.
LEMMA DispatchMessage ==
    ASSUME MessagesOK(messages), NEW m \in Message
    PROVE  /\ MessagesOK(Dispatched(m))
           /\ Range(Dispatched(m)) = Range(messages) \cup {m}
<1> DEFINE d == Append(messages, m)
<1>0. messages \in Seq(Message)
  BY DEF MessagesOK
<1>1. CASE m \in Range(messages)
  BY <1>1 DEF Dispatched
<1>2. CASE m \notin Range(messages)
  <2>1. Dispatched(m) = d
    BY <1>2 DEF Dispatched
  <2>2. d \in Seq(Message) /\ Len(d) = Len(messages) + 1
        /\ Len(messages) \in Nat /\ d[Len(messages) + 1] = m
        /\ \A i \in 1 .. Len(messages) : d[i] = messages[i]
    BY <1>0
  <2>3. DOMAIN d = 1 .. Len(messages) + 1 /\ DOMAIN messages = 1 .. Len(messages)
    BY <1>0, <2>2
  <2>4. \A i \in 1 .. Len(messages) : messages[i] # m
    BY <1>2, <2>3 DEF Range
  <2> HIDE DEF d
  <2> DEFINE n == Len(messages)
  <2>5. \A i \in DOMAIN d : i \in 1 .. n \/ i = n + 1
    BY <2>2, <2>3
  <2>6. IsInjective(d)
    <3> SUFFICES ASSUME NEW i \in DOMAIN d, NEW j \in DOMAIN d, d[i] = d[j] PROVE i = j
      BY DEF IsInjective
    <3>1. \A a, b \in 1 .. n : messages[a] = messages[b] => a = b
      BY <2>3 DEF MessagesOK, IsInjective
    <3> HIDE DEF n
    <3> QED
      BY <2>2, <2>4, <2>5, <3>1 DEF n
  <2>7. Range(d) = Range(messages) \cup {m}
    <3>1. 1 .. n \subseteq DOMAIN d /\ n + 1 \in DOMAIN d
      BY <2>2, <2>3
    <3> HIDE DEF n
    <3> QED
      BY <2>2, <2>3, <2>5, <3>1 DEF n, Range
  <2> QED
    BY <2>1, <2>2, <2>6, <2>7 DEF MessagesOK
<1> QED
  BY <1>1, <1>2

\* A message that is taken leaves those of the other kind.
LEMMA TakeMessage ==
    ASSUME MessagesOK(messages), messages # <<>>
    PROVE  /\ MessagesOK(Tail(messages)) /\ Head(messages) \in Message
           /\ Range(Tail(messages)) = Range(messages) \ {Head(messages)}
<1> DEFINE t == Tail(messages)
           n == Len(messages)
<1>0. messages \in Seq(Message)
  BY DEF MessagesOK
<1>1. n \in Nat /\ n # 0 /\ DOMAIN messages = 1 .. n /\ Head(messages) = messages[1]
  BY <1>0
<1>2. t \in Seq(Message) /\ Len(t) = n - 1 /\ DOMAIN t = 1 .. n - 1
      /\ \A i \in 1 .. n - 1 : t[i] = messages[i + 1]
  BY <1>0, HeadTailProperties
<1>3. \A a, b \in 1 .. n : messages[a] = messages[b] => a = b
  BY <1>1 DEF MessagesOK, IsInjective
<1> HIDE DEF t, n
<1>4. IsInjective(t)
  <2> SUFFICES ASSUME NEW i \in 1 .. n - 1, NEW j \in 1 .. n - 1, t[i] = t[j] PROVE i = j
    BY <1>2 DEF IsInjective
  <2> QED
    BY <1>1, <1>2, <1>3
<1>5. Head(messages) \in Message
  BY <1>0, <1>1
<1>6. Range(t) = Range(messages) \ {Head(messages)}
  <2>1. ASSUME NEW x \in Range(t) PROVE x \in Range(messages) /\ x # Head(messages)
    <3>1. PICK i \in 1 .. n - 1 : x = t[i]
      BY <1>2, <2>1 DEF Range
    <3>2. i + 1 \in 1 .. n /\ i + 1 # 1 /\ 1 \in 1 .. n /\ x = messages[i + 1]
      BY <1>1, <1>2, <3>1
    <3> QED
      BY <1>1, <1>3, <3>2 DEF Range
  <2>2. ASSUME NEW x \in Range(messages), x # Head(messages) PROVE x \in Range(t)
    <3>1. PICK i \in 1 .. n : x = messages[i]
      BY <1>1, <2>2 DEF Range
    <3>2. i # 1
      BY <1>1, <2>2, <3>1
    <3>3. i - 1 \in 1 .. n - 1 /\ t[i - 1] = x
      <4>1. i - 1 \in 1 .. n - 1 /\ (i - 1) + 1 = i
        BY <1>1, <3>2
      <4> QED
        BY <1>2, <3>1, <4>1
    <3> QED
      BY <1>2, <3>3 DEF Range
  <2> QED
    BY <2>1, <2>2
<1> QED
  BY <1>2, <1>4, <1>5, <1>6 DEF MessagesOK, t

\* A thread applies its call.
Applies(t, c) ==
    /\ applyCall(t, c) /\ StateLockFree
    /\ threadState[t] \in {"idle", "animWait", "animNotified"}
    /\ \/ UNCHANGED calls
       \/ calls < MaxCalls /\ calls' = calls + 1
    /\ UNCHANGED <<frameVars, timedOut, messages, mainVars>>

\* A thread waits, for the first time or again.
StaysWaiting(t) ==
    /\ StateLockFree
    /\ \/ /\ threadState[t] = "idle" /\ threadState' = [threadState EXCEPT ![t] = "animWait"]
          /\ (\E c \in Call : call' = [call EXCEPT ![t] = c])
          /\ calls < MaxCalls /\ calls' = calls + 1
       \/ /\ threadState[t] \in {"animWait", "animNotified"}
          /\ threadState' = [threadState EXCEPT ![t] = "animWait"]
          /\ UNCHANGED <<call, calls>>
       \/ /\ threadState[t] \in {"wait", "notified"}
          /\ threadState' = [threadState EXCEPT ![t] = "wait"]
          /\ UNCHANGED <<call, calls>>
    /\ UNCHANGED <<stateVars, frameVars, flagVars, pendingVars, made, timedOut, messages,
                   mainVars>>

\* A thread has waited and returns.
Returns(t) ==
    /\ StateLockFree
    /\ threadState[t] \in {"wait", "notified"} /\ leaves(t)
    /\ \/ mTransactionPending = FALSE /\ UNCHANGED <<mTransactionPending, timedOut>>
       \/ mTransactionPending' = FALSE /\ timedOut' = TRUE
    /\ UNCHANGED <<stateVars, frameVars, flagVars, mAnimTransactionPending, calls, messages,
                   mainVars>>

\* Every step of a binder thread is one of these.
LEMMA ThreadSteps ==
    ASSUME CallKept, mTransactionPending \in BOOLEAN, NEW t \in Thread,
           \/ \E c \in Call : setTransactionState(t, c)
           \/ Wakeup(t) \/ animWaitTimesOut(t) \/ waitTimesOut(t)
    PROVE  (\E c \in Call : Applies(t, c)) \/ StaysWaiting(t) \/ Returns(t)
<1>1. ASSUME NEW c \in Call, setTransactionState(t, c)
      PROVE  Applies(t, c) \/ StaysWaiting(t)
  <2>1. CASE c.mode = "anim" /\ mAnimTransactionPending
    BY <1>1, <2>1 DEF setTransactionState, StaysWaiting
  <2>2. CASE ~(c.mode = "anim" /\ mAnimTransactionPending)
    BY <1>1, <2>2 DEF setTransactionState, Applies
  <2> QED
    BY <2>1, <2>2
<1>2. CASE animWaitReturns(t)
  <2>0. call[t] \in Call
    BY <1>2 DEF animWaitReturns, CallKept
  <2>1. CASE mAnimTransactionPending
    BY <1>2, <2>1 DEF animWaitReturns, StaysWaiting
  <2>2. CASE ~mAnimTransactionPending
    <3>1. Applies(t, call[t])
      BY <1>2, <2>2 DEF animWaitReturns, Applies
    <3> QED
      BY <2>0, <3>1
  <2> QED
    BY <2>1, <2>2
<1>3. CASE animWaitTimesOut(t)
  <2>0. call[t] \in Call
    BY <1>3 DEF animWaitTimesOut, CallKept
  <2>1. Applies(t, call[t])
    BY <1>3 DEF animWaitTimesOut, Applies
  <2> QED
    BY <2>0, <2>1
<1>4. CASE waitReturns(t)
  <2>1. CASE mTransactionPending
    BY <1>4, <2>1 DEF waitReturns, StaysWaiting
  <2>2. CASE ~mTransactionPending
    BY <1>4, <2>2 DEF waitReturns, Returns, pendingVars
  <2> QED
    BY <2>1, <2>2
<1>5. CASE waitTimesOut(t)
  BY <1>5 DEF waitTimesOut, Returns
<1> QED
  BY <1>1, <1>2, <1>3, <1>4, <1>5 DEF Wakeup

\* Where a binder thread can be.
ThreadStates == {"idle", "animWait", "wait", "animNotified", "notified"}

\* The types of what belongs to the binder threads.
ThreadTypes ==
    /\ threadState \in [Thread -> ThreadStates]
    /\ call \in [Thread -> Call \cup {NoCall}] /\ made \in [Thread -> Nat]
    /\ calls \in 0 .. MaxCalls /\ CallKept

\* The threads keep the version that their layer had when they began to wait.
LEMMA ThreadTypesStep ==
    ASSUME ThreadTypes, mTransactionPending \in BOOLEAN, LayerInv', [Next]_vars
    PROVE  ThreadTypes'
<1>0. threadState \in [Thread -> ThreadStates] /\ call \in [Thread -> Call \cup {NoCall}]
      /\ made \in [Thread -> Nat] /\ calls \in 0 .. MaxCalls /\ CallKept
      /\ MaxCalls \in Nat
  BY TransactionsAssumption DEF ThreadTypes
<1>1. CASE UNCHANGED threadVars
  BY <1>0, <1>1 DEF threadVars, ThreadTypes, CallKept
<1>2. CASE commitTransaction
  <2>1. threadState' \in [Thread -> ThreadStates]
        /\ \A t \in Thread : threadState'[t] # "idle" => threadState[t] # "idle"
    BY <1>0, <1>2 DEF commitTransaction, broadcast, ThreadStates
  <2>2. UNCHANGED <<call, made, calls>>
    BY <1>2 DEF commitTransaction
  <2> QED
    BY <1>0, <2>1, <2>2 DEF ThreadTypes, CallKept
<1>3. ASSUME NEW t \in Thread, NEW c \in Call, Applies(t, c)
      PROVE  ThreadTypes'
  <2>1. calls' \in 0 .. MaxCalls
    BY <1>0, <1>3 DEF Applies
  <2>2. c.layer \in Layers
    BY CallFields
  <2>3. layer'[c.layer].current.version \in Nat
    BY <2>2 DEF LayerInv, LayerState, CurrentState, Version
  <2> DEFINE waits == ReturnedFlags(c) # {} /\ mTransactionPending'
  <2>4. /\ threadState' = [threadState EXCEPT ![t] = IF waits THEN "wait" ELSE "idle"]
        /\ call' = [call EXCEPT ![t] = IF waits THEN c ELSE NoCall]
        /\ made' = [made EXCEPT ![t] = IF waits THEN layer'[c.layer].current.version ELSE 0]
    BY <1>3 DEF Applies, applyCall
  <2> HIDE DEF waits
  <2>5. CASE waits
    <3>1. /\ threadState' = [threadState EXCEPT ![t] = "wait"]
          /\ call' = [call EXCEPT ![t] = c]
          /\ made' = [made EXCEPT ![t] = layer'[c.layer].current.version]
      BY <2>4, <2>5
    <3>2. threadState' \in [Thread -> ThreadStates] /\ call' \in [Thread -> Call \cup {NoCall}]
          /\ made' \in [Thread -> Nat]
      BY <1>0, <2>3, <3>1 DEF ThreadStates
    <3>3. CallKept'
      BY <1>0, <3>1 DEF CallKept
    <3> QED
      BY <2>1, <3>2, <3>3 DEF ThreadTypes
  <2>6. CASE ~waits
    <3>1. /\ threadState' = [threadState EXCEPT ![t] = "idle"]
          /\ call' = [call EXCEPT ![t] = NoCall] /\ made' = [made EXCEPT ![t] = 0]
      BY <2>4, <2>6
    <3>2. threadState' \in [Thread -> ThreadStates] /\ call' \in [Thread -> Call \cup {NoCall}]
          /\ made' \in [Thread -> Nat]
      BY <1>0, <3>1 DEF ThreadStates
    <3>3. CallKept'
      BY <1>0, <3>1 DEF CallKept
    <3> QED
      BY <2>1, <3>2, <3>3 DEF ThreadTypes
  <2> QED
    BY <2>5, <2>6
<1>4. ASSUME NEW t \in Thread, StaysWaiting(t)
      PROVE  ThreadTypes'
  <2>0. made' = made
    BY <1>4 DEF StaysWaiting
  <2>1. CASE UNCHANGED <<call, calls>>
    <3>1. threadState' \in [Thread -> ThreadStates]
          /\ \A k \in Thread : threadState'[k] # "idle" => threadState[k] # "idle"
      <4>1. CASE threadState[t] # "idle"
        BY <1>0, <1>4, <4>1 DEF StaysWaiting, ThreadStates
      <4>2. CASE threadState[t] = "idle"
        BY <1>0, <1>4, <2>1, <4>2 DEF StaysWaiting
      <4> QED
        BY <4>1, <4>2
    <3> QED
      BY <1>0, <2>0, <2>1, <3>1 DEF ThreadTypes, CallKept
  <2>2. ASSUME NEW c \in Call, call' = [call EXCEPT ![t] = c], calls < MaxCalls,
               calls' = calls + 1, threadState' = [threadState EXCEPT ![t] = "animWait"]
        PROVE  ThreadTypes'
    <3>1. calls' \in 0 .. MaxCalls
      BY <1>0, <2>2
    <3>2. threadState' \in [Thread -> ThreadStates] /\ call' \in [Thread -> Call \cup {NoCall}]
      BY <1>0, <2>2 DEF ThreadStates
    <3>3. CallKept'
      BY <1>0, <2>2 DEF CallKept
    <3> QED
      BY <1>0, <2>0, <3>1, <3>2, <3>3 DEF ThreadTypes
  <2> QED
    BY <1>4, <2>1, <2>2 DEF StaysWaiting
<1>5. ASSUME NEW t \in Thread, Returns(t)
      PROVE  ThreadTypes'
  <2>1. /\ threadState' = [threadState EXCEPT ![t] = "idle"] /\ calls' = calls
        /\ call' = [call EXCEPT ![t] = NoCall] /\ made' = [made EXCEPT ![t] = 0]
    BY <1>5 DEF Returns, leaves
  <2>2. threadState' \in [Thread -> ThreadStates] /\ call' \in [Thread -> Call \cup {NoCall}]
        /\ made' \in [Thread -> Nat]
    BY <1>0, <2>1 DEF ThreadStates
  <2>3. CallKept'
    BY <1>0, <2>1 DEF CallKept
  <2> QED
    BY <1>0, <2>1, <2>2, <2>3 DEF ThreadTypes
<1>6. CASE MainThread \/ presentFenceSignals
  <2>1. CASE ~commitTransaction
    <3>1. UNCHANGED threadVars
      BY <1>6, <2>1 DEF MainThread, eventReceiver, frameMissed, invalidate, handleTransaction,
            traverseLayer, gatherLayers, latchBuffer, updateTexImage, presentLater,
            pageFlipDone, handleMessageRefresh, presentFenceSignals
    <3> QED
      BY <1>1, <3>1
  <2> QED
    BY <1>2, <2>1
<1>7. ASSUME NEW l \in Layers, QueueFrame(l) \/ Fence(l) \/ Destroy(l)
      PROVE  ThreadTypes'
  BY <1>1, <1>7 DEF QueueFrame, Fence, Destroy
<1>8. CASE UNCHANGED vars
  BY <1>1, <1>8 DEF vars
<1>9. ASSUME NEW t \in Thread,
             \/ \E c \in Call : setTransactionState(t, c)
             \/ Wakeup(t) \/ animWaitTimesOut(t) \/ waitTimesOut(t)
      PROVE  ThreadTypes'
  BY <1>0, <1>3, <1>4, <1>5, <1>9, ThreadSteps
<1> QED
  BY <1>6, <1>7, <1>8, <1>9 DEF Next

\* The flags of SurfaceFlinger.
Flags == {"transaction", "traversal"}

\* The types of what the binder threads and the main thread share.
SharedTypes ==
    /\ mTransactionFlags \subseteq Layers
    /\ life \in [Layers -> {"live", "removing", "removed", "dead"}]
    /\ transactionFlags \subseteq Flags
    /\ mTransactionPending \in BOOLEAN /\ mAnimTransactionPending \in BOOLEAN
    /\ timedOut \in BOOLEAN /\ vsyncRequested \in BOOLEAN

\* The types of what belongs to the main thread.
MainTypes ==
    /\ mRefreshPending \subseteq Layers /\ MessagesOK(messages)
    /\ pc \in {"idle", "transaction", "traverse", "pageFlip", "latch", "update"}
    /\ todo \subseteq Layers /\ refreshNeeded \in BOOLEAN /\ frameQueued \in BOOLEAN
    /\ mLayersWithQueuedFrames \subseteq Layers /\ presentPending \in BOOLEAN

\* A step of a thread leaves the flags of the layers and of the server in order.
LEMMA SharedTypesStep ==
    ASSUME SharedTypes, LayerInv, FrameTypes, CallKept, todo \subseteq Layers, [Next]_vars
    PROVE  SharedTypes'
<1>0. todo # {} => NextLayer \in Layers
  BY LayerAssumption, MinIsIn DEF NextLayer
<1>1. mTransactionFlags' \subseteq Layers
  <2>1. ASSUME NEW l, NEW new, NEW which, NEW applied, Transacted(l, new, which, applied),
               l \in Layers
        PROVE  mTransactionFlags' \subseteq Layers
    BY <2>1 DEF Transacted, SharedTypes
  <2>2. ASSUME NEW l \in Layers, NEW new, Requested(l, new)
        PROVE  mTransactionFlags' \subseteq Layers
    BY <2>2 DEF Requested, SharedTypes
  <2>3. traverseLayer => NextLayer \in Layers
    BY <1>0 DEF traverseLayer
  <2>4. \A c \in Call : c.layer \in Layers
    BY CallFields
  <2>5. CASE mTransactionFlags' = mTransactionFlags
    BY <2>5 DEF SharedTypes
  <2>6. ASSUME NEW l \in Layers, destroyLayer(l)
        PROVE  mTransactionFlags' = mTransactionFlags
    BY <2>6 DEF destroyLayer
  <2> QED
    BY <2>1, <2>2, <2>3, <2>4, <2>5, <2>6, StateSteps DEF stateVars
<1>2. /\ life' \in [Layers -> {"live", "removing", "removed", "dead"}]
      /\ transactionFlags' \subseteq Flags
      /\ mTransactionPending' \in BOOLEAN /\ mAnimTransactionPending' \in BOOLEAN
      /\ timedOut' \in BOOLEAN /\ vsyncRequested' \in BOOLEAN
  <2>1. CASE eventReceiver \/ frameMissed \/ invalidate \/ gatherLayers \/ presentLater
             \/ pageFlipDone \/ handleMessageRefresh \/ presentFenceSignals
    BY <2>1 DEF SharedTypes, eventReceiver, frameMissed, invalidate, gatherLayers, presentLater,
                pageFlipDone, handleMessageRefresh, presentFenceSignals, signalLayerUpdate,
                stateVars, pendingVars, threadVars, flagVars
  <2>2. CASE handleTransaction
    BY <2>2 DEF SharedTypes, handleTransaction, pendingVars, threadVars
  <2>3. CASE traverseLayer
    BY <2>3 DEF SharedTypes, traverseLayer, pendingVars, threadVars, setTransactionFlags,
                flagVars, Wakes, Flags
  <2>4. CASE commitTransaction
    BY <2>4 DEF SharedTypes, commitTransaction, flagVars
  <2>5. CASE latchBuffer
    BY <2>5 DEF SharedTypes, latchBuffer, pendingVars, threadVars, signalLayerUpdate
  <2>6. ASSUME NEW l \in Layers, updateTexImage(l)
        PROVE  /\ UNCHANGED <<life, transactionFlags, pendingVars, timedOut>>
               /\ vsyncRequested' \in BOOLEAN
    BY <2>6 DEF SharedTypes, updateTexImage, pendingVars, threadVars, signalLayerUpdate,
                latchFrame, rejectFrame, latchNothing, stateVars
  <2>7. ASSUME NEW l \in Layers, QueueFrame(l) \/ Fence(l)
        PROVE  /\ UNCHANGED <<life, transactionFlags, pendingVars, timedOut>>
               /\ vsyncRequested' \in BOOLEAN
    BY <2>7 DEF SharedTypes, QueueFrame, Fence, onFrameAvailable,
                onFrameReplaced, Receives, fenceSignals, stateVars,
                signalLayerUpdate, threadVars, flagVars
  <2>8. ASSUME NEW l \in Layers, Destroy(l)
        PROVE  /\ UNCHANGED <<transactionFlags, vsyncRequested, pendingVars, timedOut>>
               /\ life' \in [Layers -> {"live", "removing", "removed", "dead"}]
    BY <2>8 DEF SharedTypes, Destroy, destroyLayer, threadVars, flagVars
  <2>9. ASSUME NEW t \in Thread, NEW c \in Call, Applies(t, c)
        PROVE  /\ life' \in [Layers -> {"live", "removing", "removed", "dead"}]
               /\ transactionFlags' \subseteq Flags
               /\ mTransactionPending' \in BOOLEAN /\ mAnimTransactionPending' \in BOOLEAN
               /\ UNCHANGED timedOut /\ vsyncRequested' \in BOOLEAN
    <3>1. applyCall(t, c) /\ UNCHANGED timedOut
      BY <2>9 DEF Applies
    <3>2. ClientState(c) /\ c.layer \in Layers
      BY <3>1, CallFields DEF applyCall
    <3>3. life' \in [Layers -> {"live", "removing", "removed", "dead"}]
      BY <3>2, ClientStep DEF SharedTypes, stateVars
    <3>4. transactionFlags' \subseteq Flags
      BY <3>1 DEF SharedTypes, applyCall, OwnFlags, ReturnedFlags, Flags
    <3>5. vsyncRequested' \in BOOLEAN
      BY <3>1 DEF SharedTypes, applyCall, Wakes
    <3>6. mTransactionPending' \in BOOLEAN /\ mAnimTransactionPending' \in BOOLEAN
      BY <3>1 DEF SharedTypes, applyCall, pendingVars
    <3> QED
      BY <3>1, <3>3, <3>4, <3>5, <3>6
  <2>10. ASSUME NEW t \in Thread, StaysWaiting(t)
         PROVE  UNCHANGED <<life, transactionFlags, vsyncRequested, pendingVars, timedOut>>
    BY <2>10 DEF StaysWaiting, stateVars, flagVars
  <2>11. ASSUME NEW t \in Thread, Returns(t)
         PROVE  /\ UNCHANGED <<life, transactionFlags, vsyncRequested, mAnimTransactionPending>>
                /\ mTransactionPending' \in BOOLEAN /\ timedOut' \in BOOLEAN
    BY <2>11 DEF SharedTypes, Returns, stateVars, flagVars
  <2>12. CASE UNCHANGED vars
    BY <2>12 DEF SharedTypes, vars, stateVars, flagVars, pendingVars, threadVars
  <2>13. ASSUME UNCHANGED <<life, transactionFlags, pendingVars, timedOut>>,
                vsyncRequested' \in BOOLEAN
         PROVE  /\ life' \in [Layers -> {"live", "removing", "removed", "dead"}]
                /\ transactionFlags' \subseteq Flags
                /\ mTransactionPending' \in BOOLEAN /\ mAnimTransactionPending' \in BOOLEAN
                /\ timedOut' \in BOOLEAN
    BY <2>13 DEF SharedTypes, pendingVars
  <2>14. CASE MainThread \/ presentFenceSignals
    BY <2>1, <2>2, <2>3, <2>4, <2>5, <2>6, <2>13, <2>14 DEF MainThread
  <2>15. CASE \E l \in Layers : QueueFrame(l) \/ Fence(l) \/ Destroy(l)
    <3>1. PICK l \in Layers : QueueFrame(l) \/ Fence(l) \/ Destroy(l)
      BY <2>15
    <3>2. CASE Destroy(l)
      BY <2>8, <3>2 DEF SharedTypes, pendingVars
    <3> QED
      BY <2>7, <2>13, <3>1, <3>2
  <2>16. ASSUME NEW t \in Thread,
                \/ \E c \in Call : setTransactionState(t, c)
                \/ Wakeup(t) \/ animWaitTimesOut(t) \/ waitTimesOut(t)
         PROVE  /\ life' \in [Layers -> {"live", "removing", "removed", "dead"}]
                /\ transactionFlags' \subseteq Flags
                /\ mTransactionPending' \in BOOLEAN /\ mAnimTransactionPending' \in BOOLEAN
                /\ timedOut' \in BOOLEAN /\ vsyncRequested' \in BOOLEAN
    <3>1. (\E c \in Call : Applies(t, c)) \/ StaysWaiting(t) \/ Returns(t)
      BY <2>16, ThreadSteps DEF SharedTypes
    <3>2. CASE \E c \in Call : Applies(t, c)
      BY <2>9, <3>2 DEF SharedTypes
    <3>3. CASE StaysWaiting(t)
      BY <2>10, <3>3 DEF SharedTypes, pendingVars
    <3>4. CASE Returns(t)
      BY <2>11, <3>4 DEF SharedTypes
    <3> QED
      BY <3>1, <3>2, <3>3, <3>4
  <2> QED
    BY <2>12, <2>14, <2>15, <2>16 DEF Next
<1> QED
  BY <1>1, <1>2 DEF SharedTypes

\* A step of the main thread leaves its own state and its messages in order.
LEMMA MainTypesStep ==
    ASSUME MainTypes, CallKept, mTransactionPending \in BOOLEAN, [Next]_vars
    PROVE  MainTypes'
<1>0. todo # {} => NextLayer \in Layers
  BY LayerAssumption, MinIsIn DEF NextLayer, MainTypes
<1>1. MessagesOK(messages')
  <2>0. MessagesOK(messages)
    BY DEF MainTypes
  <2>1. CASE UNCHANGED messages
    BY <2>0, <2>1
  <2>2. CASE messages # <<>> /\ messages' = Tail(messages)
    BY <2>0, <2>2, TakeMessage
  <2>3. ASSUME NEW m \in Message, messages' = Dispatched(m)
        PROVE  MessagesOK(messages')
    BY <2>0, <2>3, DispatchMessage
  <2>4. CASE MainThread
    <3>1. CASE eventReceiver
      BY <2>3, <3>1 DEF eventReceiver, Message
    <3>2. CASE frameMissed \/ invalidate \/ handleMessageRefresh
      BY <2>2, <3>2 DEF frameMissed, invalidate, handleMessageRefresh
    <3>3. CASE pageFlipDone
      <4>1. UNCHANGED messages \/ messages' = Dispatched("REFRESH")
        BY <3>3 DEF pageFlipDone
      <4> QED
        BY <2>1, <2>3, <4>1 DEF Message
    <3>4. CASE UNCHANGED messages
      BY <2>1, <3>4
    <3> QED
      BY <2>4, <3>1, <3>2, <3>3, <3>4 DEF MainThread, handleTransaction, traverseLayer,
            commitTransaction, gatherLayers, latchBuffer, updateTexImage, presentLater
  <2>5. CASE ~MainThread
    <3>1. ASSUME NEW t \in Thread,
                 \/ \E c \in Call : setTransactionState(t, c)
                 \/ Wakeup(t) \/ animWaitTimesOut(t) \/ waitTimesOut(t)
          PROVE  UNCHANGED messages
      BY <3>1, ThreadSteps DEF Applies, StaysWaiting, Returns
    <3> QED
      BY <2>1, <2>5, <3>1 DEF Next, presentFenceSignals, QueueFrame, Fence, Destroy, vars
  <2> QED
    BY <2>4, <2>5
<1>2. /\ mRefreshPending' \subseteq Layers
      /\ pc' \in {"idle", "transaction", "traverse", "pageFlip", "latch", "update"}
      /\ todo' \subseteq Layers /\ refreshNeeded' \in BOOLEAN /\ frameQueued' \in BOOLEAN
      /\ mLayersWithQueuedFrames' \subseteq Layers /\ presentPending' \in BOOLEAN
  <2>1. CASE UNCHANGED <<mRefreshPending, mainVars>>
    BY <2>1 DEF MainTypes, mainVars
  <2>2. CASE eventReceiver \/ frameMissed \/ invalidate \/ presentFenceSignals
    BY <2>2 DEF MainTypes, eventReceiver, frameMissed, invalidate, presentFenceSignals,
                mainVars, frameVars
  <2>3. CASE handleTransaction \/ traverseLayer \/ commitTransaction
    BY <2>3 DEF MainTypes, handleTransaction, traverseLayer, commitTransaction, frameVars
  <2>4. CASE gatherLayers
    BY <2>4 DEF MainTypes, gatherLayers, frameVars, DrawingLayers
  <2>5. CASE latchBuffer
    BY <2>5 DEF MainTypes, latchBuffer, frameVars
  <2>6. CASE presentLater \/ pageFlipDone \/ handleMessageRefresh
    BY <2>6 DEF MainTypes, presentLater, pageFlipDone, handleMessageRefresh, frameVars
  <2>7. ASSUME NEW l \in Layers, updateTexImage(l)
        PROVE  /\ mRefreshPending' \subseteq Layers /\ pc' = "latch" /\ todo' = todo \ {l}
               /\ UNCHANGED <<refreshNeeded, frameQueued, mLayersWithQueuedFrames, presentPending>>
    BY <2>7 DEF MainTypes, updateTexImage, latchFrame, rejectFrame, latchNothing, frameVars
  <2>8. CASE \E l \in Layers : updateTexImage(l)
    BY <2>7, <2>8 DEF MainTypes
  <2>9. ASSUME NEW l \in Layers, QueueFrame(l) \/ Fence(l) \/ Destroy(l)
        PROVE  UNCHANGED <<mRefreshPending, mainVars>>
    BY <2>9 DEF QueueFrame, Fence, Destroy, onFrameAvailable, onFrameReplaced,
                Receives, fenceSignals, destroyLayer,
                frameVars
  <2>10. ASSUME NEW t \in Thread,
                \/ \E c \in Call : setTransactionState(t, c)
                \/ Wakeup(t) \/ animWaitTimesOut(t) \/ waitTimesOut(t)
         PROVE  UNCHANGED <<mRefreshPending, mainVars>>
    BY <2>10, ThreadSteps DEF Applies, StaysWaiting, Returns, frameVars
  <2>11. CASE UNCHANGED vars
    BY <2>1, <2>11 DEF vars, frameVars
  <2>12. CASE MainThread \/ presentFenceSignals
    BY <2>2, <2>3, <2>4, <2>5, <2>6, <2>8, <2>12 DEF MainThread
  <2> QED
    BY <2>1, <2>9, <2>10, <2>11, <2>12 DEF Next
<1> QED
  BY <1>1, <1>2 DEF MainTypes, MessagesOK

-----------------------------------------------------------------------------
(* Work is not forgotten                                                   *)

\* What a step may do to the state of l: nothing,
Stays(l) == layer'[l] = layer[l] /\ (l \in mTransactionFlags => l \in mTransactionFlags')

\* its transaction, after which it is drawn or waits for a barrier and comes back,
Traversed(l) ==
    LET s == layer'[l] IN
    /\ traverseLayer /\ l = NextLayer
    /\ s.current.version = layer[l].current.version
    /\ s.drawing.version >= layer[l].drawing.version
    /\ IF s.pending = <<>>
          THEN s.drawing.version = s.current.version
          ELSE /\ Head(s.pending).barrierLayer # NoLayer
               /\ l \in mTransactionFlags' /\ "traversal" \in transactionFlags'

\* or a call, which asks for a traversal if it makes a new version.
Called(l) ==
    LET s == layer'[l] IN
    /\ StateLockFree /\ s.drawing = layer[l].drawing
    /\ layer[l].pending # <<>> => s.pending # <<>> /\ Head(s.pending) = Head(layer[l].pending)
    /\ l \in mTransactionFlags => l \in mTransactionFlags'
    /\ \/ s.current.version = layer[l].current.version
       \/ /\ s.current.version = layer[l].current.version + 1
          /\ l \in mTransactionFlags' /\ "traversal" \in transactionFlags'

\* Every step does one of the three to each layer.
LEMMA VersionSteps ==
    ASSUME LayerInv, CallKept, mTransactionPending \in BOOLEAN,
           todo \subseteq Layers, [Next]_vars, NEW l \in Layers
    PROVE  Stays(l) \/ Traversed(l) \/ Called(l)
<1>0. layer \in [Layers -> LayerState(DOMAIN syncPoint)]
  BY DEF LayerInv
<1>1. CASE UNCHANGED <<layer, mTransactionFlags>>
  BY <1>1 DEF Stays
<1>2. CASE traverseLayer
  <2>0. NextLayer \in Layers
    BY <1>2, LayerAssumption, MinIsIn DEF NextLayer, traverseLayer
  <2>1. CASE NextLayer \notin mTransactionFlags
    BY <1>1, <1>2, <2>1 DEF traverseLayer
  <2>2. CASE NextLayer \in mTransactionFlags
    <3>1. doTransaction(NextLayer)
          /\ (layer'[NextLayer].pending # <<>> => "traversal" \in transactionFlags')
      BY <1>2, <2>2 DEF traverseLayer, setTransactionFlags
    <3>2. PICK new, which, applied : Transacted(NextLayer, new, which, applied)
      BY <2>0, <3>1, DoTransaction DEF LayerInv, PointsMatchStates
    <3>3. /\ layer' = [layer EXCEPT ![NextLayer] = new]
          /\ new.current.version = layer[NextLayer].current.version
          /\ layer[NextLayer].drawing.version <= new.drawing.version
          /\ mTransactionFlags' = IF new.pending # <<>> THEN mTransactionFlags \cup {NextLayer}
                                                  ELSE mTransactionFlags \ {NextLayer}
          /\ IF new.pending = <<>> THEN new.drawing.version = new.current.version
                                   ELSE Head(new.pending).barrierLayer # NoLayer
          /\ new \in LayerState(DOMAIN syncPoint)
      BY <3>2 DEF Transacted
    <3>4. CASE l = NextLayer
      <4>1. layer'[l] = new
        BY <1>0, <3>3, <3>4
      <4>2. layer[l].drawing.version \in Nat /\ new.drawing.version \in Nat
        BY <1>0, <3>3 DEF LayerState, DrawingState, Version
      <4>3. new.drawing.version >= layer[l].drawing.version
        BY <3>3, <3>4, <4>2
      <4> QED
        BY <1>2, <3>1, <3>3, <3>4, <4>1, <4>3 DEF Traversed
    <3>5. CASE l # NextLayer
      BY <1>0, <3>3, <3>5 DEF Stays
    <3> QED
      BY <3>4, <3>5
  <2> QED
    BY <2>1, <2>2
<1>3. ASSUME NEW t \in Thread, NEW c \in Call, Applies(t, c)
      PROVE  Stays(l) \/ Called(l)
  <2>1. ClientState(c) /\ c.layer \in Layers /\ StateLockFree
        /\ ReturnedFlags(c) \subseteq transactionFlags'
    BY <1>3, CallFields DEF Applies, applyCall
  <2>2. CASE UNCHANGED <<layer, mTransactionFlags>>
    BY <2>2 DEF Stays
  <2>3. ASSUME NEW new, Requested(c.layer, new),
               \/ new.current.version = layer[c.layer].current.version
               \/ /\ new.current.version = layer[c.layer].current.version + 1
                  /\ "traversal" \in ReturnedFlags(c)
                  /\ c.layer \in mTransactionFlags'
        PROVE  Stays(l) \/ Called(l)
    <3>1. /\ layer' = [layer EXCEPT ![c.layer] = new]
          /\ mTransactionFlags' \in {mTransactionFlags, mTransactionFlags \cup {c.layer}}
          /\ new.drawing = layer[c.layer].drawing
          /\ layer[c.layer].pending # <<>>
                => new.pending # <<>> /\ Head(new.pending) = Head(layer[c.layer].pending)
      BY <2>3 DEF Requested
    <3>2. CASE l = c.layer
      <4>1. layer'[l] = new
        BY <1>0, <3>1, <3>2
      <4> QED
        BY <2>1, <2>3, <3>1, <3>2, <4>1 DEF Called
    <3>3. CASE l # c.layer
      BY <1>0, <3>1, <3>3 DEF Stays
    <3> QED
      BY <3>2, <3>3
  <2> QED
    BY <2>1, <2>2, <2>3, ClientStep DEF stateVars
<1>4. ASSUME NEW t \in Thread,
             \/ \E c \in Call : setTransactionState(t, c)
             \/ Wakeup(t) \/ animWaitTimesOut(t) \/ waitTimesOut(t)
      PROVE  Stays(l) \/ Called(l)
  <2>1. CASE StaysWaiting(t) \/ Returns(t)
    BY <1>1, <2>1 DEF StaysWaiting, Returns, stateVars, Stays
  <2> QED
    BY <1>3, <1>4, <2>1, ThreadSteps
<1>5. CASE MainThread
  <2>1. CASE ~traverseLayer
    <3>1. ASSUME NEW k \in Layers, updateTexImage(k)
          PROVE  UNCHANGED <<layer, mTransactionFlags>>
      BY <3>1 DEF updateTexImage, latchFrame, rejectFrame, latchNothing, stateVars
    <3>2. UNCHANGED <<layer, mTransactionFlags>>
      BY <1>5, <2>1, <3>1 DEF MainThread, eventReceiver, frameMissed, invalidate,
            handleTransaction, gatherLayers, latchBuffer, presentLater, commitTransaction,
            pageFlipDone, handleMessageRefresh, stateVars
    <3> QED
      BY <1>1, <3>2
  <2> QED
    BY <1>2, <2>1
<1>6. CASE ~MainThread /\ ~\E t \in Thread : \/ \E c \in Call : setTransactionState(t, c)
                                             \/ Wakeup(t) \/ animWaitTimesOut(t)
                                             \/ waitTimesOut(t)
  <2>1. ASSUME NEW k \in Layers, QueueFrame(k) \/ Fence(k) \/ Destroy(k)
        PROVE  UNCHANGED <<layer, mTransactionFlags>>
    BY <2>1 DEF QueueFrame, Fence, Destroy, onFrameAvailable, onFrameReplaced,
                Receives, fenceSignals, destroyLayer,
                stateVars
  <2>2. UNCHANGED <<layer, mTransactionFlags>>
    BY <1>6, <2>1 DEF Next, presentFenceSignals, vars, stateVars
  <2> QED
    BY <1>1, <2>2
<1> QED
  BY <1>4, <1>5, <1>6

\* A layer that is gone does not come back.
LEMMA LifeStep ==
    ASSUME LayerInv, FrameTypes, CallKept, todo \subseteq Layers, [Next]_vars,
           life \in [Layers -> {"live", "removing", "removed", "dead"}]
    PROVE  /\ \A l \in Layers : life'[l] = "live" => life[l] = "live"
           /\ DrawingLayers' \subseteq DrawingLayers
<1>1. CASE UNCHANGED life
  BY <1>1 DEF DrawingLayers
<1>2. CASE \A l \in Layers : life'[l] # life[l]
                     => life[l] \in {"live", "removing"} /\ life'[l] # "live"
  BY <1>2 DEF DrawingLayers
<1>3. ASSUME NEW l \in Layers, destroyLayer(l)
      PROVE  \A k \in Layers : life'[k] # life[k] => life[k] = "removed" /\ life'[k] = "dead"
  BY <1>3 DEF destroyLayer
<1>4. CASE \A k \in Layers : life'[k] # life[k] => life[k] = "removed" /\ life'[k] = "dead"
  BY <1>4 DEF DrawingLayers
<1> QED
  BY <1>1, <1>2, <1>3, <1>4, StateSteps DEF stateVars

\* A request for a vsync, or the message it leads to, is lost in no step but
\* those that take the message.
LEMMA AwakeStep ==
    ASSUME CallKept, MainTypes, SharedTypes, [Next]_vars, ~invalidate, Awake
    PROVE  Awake'
<1>0. MessagesOK(messages)
  BY DEF MainTypes
<1>1. CASE eventReceiver
  <2>1. messages' = Dispatched("INVALIDATE")
    BY <1>1 DEF eventReceiver
  <2>2. Range(messages') = Range(messages) \cup {"INVALIDATE"}
    BY <1>0, <2>1, DispatchMessage DEF Message
  <2> QED
    BY <2>2 DEF Awake
<1>2. CASE frameMissed
  BY <1>2 DEF frameMissed, signalLayerUpdate, Awake
<1>3. CASE handleMessageRefresh
  <2>1. messages # <<>> /\ Head(messages) = "REFRESH" /\ messages' = Tail(messages)
        /\ (vsyncRequested => vsyncRequested')
    BY <1>3 DEF handleMessageRefresh, signalLayerUpdate
  <2>2. Range(messages') = Range(messages) \ {"REFRESH"}
    BY <1>0, <2>1, TakeMessage
  <2> QED
    BY <2>1, <2>2 DEF Awake
<1>4. CASE pageFlipDone
  <2>1. (messages' = messages \/ messages' = Dispatched("REFRESH"))
        /\ (vsyncRequested => vsyncRequested')
    BY <1>4 DEF pageFlipDone, signalLayerUpdate
  <2>2. Range(messages) \subseteq Range(messages')
    BY <1>0, <2>1, DispatchMessage DEF Message
  <2> QED
    BY <2>1, <2>2 DEF Awake
<1>5. CASE UNCHANGED messages /\ (vsyncRequested => vsyncRequested')
  BY <1>5 DEF Awake
<1>6. CASE handleTransaction \/ traverseLayer \/ commitTransaction \/ gatherLayers
           \/ latchBuffer \/ presentLater
  BY <1>5, <1>6 DEF handleTransaction, traverseLayer, commitTransaction, gatherLayers,
        latchBuffer, presentLater, signalLayerUpdate, setTransactionFlags, flagVars
<1>7. ASSUME NEW l \in Layers, updateTexImage(l)
      PROVE  UNCHANGED messages /\ (vsyncRequested => vsyncRequested')
  BY <1>7 DEF updateTexImage, signalLayerUpdate
<1>8. ASSUME NEW l \in Layers, QueueFrame(l) \/ Fence(l) \/ Destroy(l)
      PROVE  UNCHANGED messages /\ (vsyncRequested => vsyncRequested')
  BY <1>8 DEF QueueFrame, Fence, Destroy, signalLayerUpdate, flagVars
<1>9. ASSUME NEW t \in Thread,
             \/ \E c \in Call : setTransactionState(t, c)
             \/ Wakeup(t) \/ animWaitTimesOut(t) \/ waitTimesOut(t)
      PROVE  UNCHANGED messages /\ (vsyncRequested => vsyncRequested')
  <2>1. ASSUME NEW c \in Call, Applies(t, c)
        PROVE  UNCHANGED messages /\ (vsyncRequested => vsyncRequested')
    BY <2>1 DEF Applies, applyCall
  <2>2. CASE StaysWaiting(t) \/ Returns(t)
    BY <2>2 DEF StaysWaiting, Returns, flagVars
  <2> QED
    BY <1>9, <2>1, <2>2, ThreadSteps DEF SharedTypes
<1>10. CASE UNCHANGED vars \/ presentFenceSignals
  BY <1>5, <1>10 DEF vars, flagVars, presentFenceSignals
<1>11. CASE MainThread
  BY <1>1, <1>2, <1>3, <1>4, <1>5, <1>6, <1>7, <1>11 DEF MainThread
<1> QED
  BY <1>5, <1>8, <1>9, <1>10, <1>11 DEF Next

\* New flags wake the server.
LEMMA FlagsWakeServerStep ==
    ASSUME CallKept, MainTypes, SharedTypes, FlagsWakeServer, [Next]_vars
    PROVE  FlagsWakeServer'
<1> SUFFICES ASSUME transactionFlags' # {} PROVE Awake' \/ pc' = "transaction"
  BY DEF FlagsWakeServer
<1>1. CASE invalidate
  BY <1>1 DEF invalidate
<1>2. CASE ~invalidate /\ Awake
  BY <1>2, AwakeStep
<1>3. CASE ~invalidate /\ ~Awake /\ transactionFlags # {}
  <2>1. pc = "transaction"
    BY <1>3 DEF FlagsWakeServer
  <2>2. CASE handleTransaction
    BY <1>3, <2>2 DEF handleTransaction
  <2>3. CASE ~handleTransaction /\ MainThread
    BY <1>3, <2>1, <2>3 DEF MainThread, eventReceiver, frameMissed, traverseLayer,
          commitTransaction, gatherLayers, latchBuffer, updateTexImage, presentLater,
          pageFlipDone, handleMessageRefresh
  <2>4. ASSUME NEW t \in Thread,
               \/ \E c \in Call : setTransactionState(t, c)
               \/ Wakeup(t) \/ animWaitTimesOut(t) \/ waitTimesOut(t)
        PROVE  UNCHANGED pc
    BY <2>4, ThreadSteps DEF Applies, StaysWaiting, Returns, mainVars, SharedTypes
  <2> QED
    BY <2>1, <2>2, <2>3, <2>4 DEF Next, presentFenceSignals, QueueFrame, Fence, Destroy,
          mainVars, vars
<1>4. CASE ~invalidate /\ transactionFlags = {}
  <2>1. CASE UNCHANGED transactionFlags
    BY <1>4, <2>1
  <2>2. CASE traverseLayer
    BY <1>4, <2>1, <2>2 DEF traverseLayer, setTransactionFlags, Wakes, Awake, flagVars
  <2>3. CASE ~traverseLayer /\ MainThread
    BY <1>4, <2>1, <2>3 DEF MainThread, eventReceiver, frameMissed, handleTransaction,
          commitTransaction, gatherLayers, latchBuffer, updateTexImage, presentLater,
          pageFlipDone, handleMessageRefresh, flagVars
  <2>4. ASSUME NEW t \in Thread,
               \/ \E c \in Call : setTransactionState(t, c)
               \/ Wakeup(t) \/ animWaitTimesOut(t) \/ waitTimesOut(t)
        PROVE  Awake'
    <3>1. ASSUME NEW c \in Call, Applies(t, c)
          PROVE  vsyncRequested'
      <4>1. /\ transactionFlags' = OwnFlags(c) \cup ReturnedFlags(c)
            /\ vsyncRequested' = (\/ vsyncRequested \/ Wakes({}, OwnFlags(c))
                                  \/ Wakes(OwnFlags(c), ReturnedFlags(c)))
        BY <1>4, <3>1 DEF Applies, applyCall
      <4>2. CASE OwnFlags(c) # {}
        BY <4>1, <4>2 DEF Wakes
      <4>3. CASE OwnFlags(c) = {}
        BY <4>1, <4>3 DEF Wakes
      <4> QED
        BY <4>2, <4>3
    <3>2. CASE StaysWaiting(t) \/ Returns(t)
      BY <1>4, <3>2 DEF StaysWaiting, Returns, flagVars
    <3> QED
      BY <2>4, <3>1, <3>2, ThreadSteps DEF SharedTypes, Awake
  <2> QED
    BY <1>4, <2>1, <2>2, <2>3, <2>4 DEF Next, presentFenceSignals, QueueFrame, Fence, Destroy,
          flagVars, vars
<1> QED
  BY <1>1, <1>2, <1>3, <1>4

\* There is a frame that could be drawn.
HasFrames == \E l \in DrawingLayers : mQueueItems[l] # <<>>

\* While handlePageFlip latches frames, it knows that there are some, or there
\* is a request for the next vsync.
FramesAreSeen == pc \in {"latch", "update"} /\ HasFrames => vsyncRequested \/ frameQueued

\* A frame that comes asks for a vsync.
LEMMA HasFramesStep ==
    ASSUME LayerInv, FrameTypes, SharedTypes, CallKept, todo \subseteq Layers, [Next]_vars, HasFrames'
    PROVE  HasFrames \/ vsyncRequested'
<1>0. DrawingLayers' \subseteq DrawingLayers /\ DrawingLayers \subseteq Layers
  BY LifeStep DEF SharedTypes, DrawingLayers
<1>1. CASE UNCHANGED mQueueItems
  BY <1>0, <1>1 DEF HasFrames
<1>2. ASSUME NEW l \in Layers, QueueFrame(l)
      PROVE  \/ vsyncRequested'
             \/ \A k \in Layers : mQueueItems'[k] # <<>> => mQueueItems[k] # <<>>
  <2>1. ASSUME NEW isDroppable, onFrameReplaced(l, isDroppable)
        PROVE  \A k \in Layers : mQueueItems'[k] # <<>> => mQueueItems[k] # <<>>
    BY <2>1 DEF onFrameReplaced, FrameTypes
  <2> QED
    BY <1>2, <2>1 DEF QueueFrame, signalLayerUpdate
<1>3. ASSUME NEW l \in Layers, updateTexImage(l)
      PROVE  \A k \in Layers : mQueueItems'[k] # <<>> => mQueueItems[k] # <<>>
  <2>1. ASSUME NEW i \in DOMAIN mQueue[l], latchFrame(l, i)
        PROVE  \A k \in Layers : mQueueItems'[k] # <<>> => mQueueItems[k] # <<>>
    <3>1. PICK j \in DOMAIN mQueueItems[l] :
             mQueueItems' = [mQueueItems EXCEPT ![l] = SubSeq(@, j + 1, Len(@))]
      BY <2>1 DEF latchFrame
    <3>2. mQueueItems[l] # <<>>
      BY <3>1
    <3> QED
      BY <3>1, <3>2 DEF FrameTypes
  <2>2. ASSUME NEW i \in DOMAIN mQueue[l], rejectFrame(l, i)
        PROVE  \A k \in Layers : mQueueItems'[k] # <<>> => mQueueItems[k] # <<>>
    BY <2>2 DEF rejectFrame, FrameTypes
  <2>3. CASE UNCHANGED mQueueItems
    BY <2>3
  <2>4. latchNothing(l) => UNCHANGED mQueueItems
    BY DEF latchNothing
  <2> QED
    BY <1>3, <2>1, <2>2, <2>3, <2>4 DEF updateTexImage, frameVars
<1>4. CASE \E l \in Layers : QueueFrame(l) \/ updateTexImage(l)
  BY <1>0, <1>2, <1>3, <1>4 DEF HasFrames
<1>5. ASSUME NEW t \in Thread,
             \/ \E c \in Call : setTransactionState(t, c)
             \/ Wakeup(t) \/ animWaitTimesOut(t) \/ waitTimesOut(t)
      PROVE  UNCHANGED mQueueItems
  BY <1>5, ThreadSteps DEF Applies, StaysWaiting, Returns, frameVars, SharedTypes
<1>6. CASE MainThread
  <2>1. CASE ~\E l \in Layers : updateTexImage(l)
    <3>1. UNCHANGED mQueueItems
      BY <1>6, <2>1 DEF MainThread, eventReceiver, frameMissed, invalidate, handleTransaction,
            traverseLayer, commitTransaction, gatherLayers, latchBuffer, presentLater,
            pageFlipDone, handleMessageRefresh, frameVars
    <3> QED
      BY <1>1, <3>1
  <2> QED
    BY <1>4, <2>1
<1> QED
  BY <1>1, <1>4, <1>5, <1>6 DEF Next, presentFenceSignals, Fence, Destroy, fenceSignals,
        destroyLayer, frameVars, vars

\* Frames that are not latched are tried again.
LEMMA FramesWakeServerStep ==
    ASSUME LayerInv, FrameTypes, SharedTypes, MainTypes, CallKept, FramesWakeServer,
           FramesAreSeen, [Next]_vars
    PROVE  FramesWakeServer' /\ FramesAreSeen'
<1>0. todo \subseteq Layers /\ MessagesOK(messages)
  BY DEF MainTypes
<1> SUFFICES ASSUME HasFrames'
             PROVE  /\ pc' = "idle" => Awake' \/ "REFRESH" \in Range(messages')
                    /\ pc' \in {"latch", "update"} => vsyncRequested' \/ frameQueued'
  BY DEF FramesWakeServer, FramesAreSeen, HasFrames
<1>1. CASE vsyncRequested'
  BY <1>1 DEF Awake
<1>2. CASE ~vsyncRequested'
  <2>1. HasFrames
    BY <1>0, <1>2, HasFramesStep
  <2>2. CASE eventReceiver
    <3>1. messages' = Dispatched("INVALIDATE") /\ pc' = "idle"
      BY <2>2 DEF eventReceiver, mainVars
    <3>2. "INVALIDATE" \in Range(messages')
      BY <1>0, <3>1, DispatchMessage DEF Message
    <3> QED
      BY <3>1, <3>2 DEF Awake
  <2>3. CASE frameMissed \/ presentLater
    BY <1>2, <2>3 DEF frameMissed, presentLater, signalLayerUpdate
  <2>4. CASE invalidate \/ handleTransaction \/ traverseLayer \/ commitTransaction
    BY <2>4 DEF invalidate, handleTransaction, traverseLayer, commitTransaction
  <2>5. CASE gatherLayers
    <3>1. frameQueued' = ({l \in DrawingLayers : mQueueItems[l] # <<>>} # {}) /\ pc' = "latch"
      BY <2>5 DEF gatherLayers
    <3>2. {l \in DrawingLayers : mQueueItems[l] # <<>>} # {}
      BY <2>1 DEF HasFrames
    <3> QED
      BY <3>1, <3>2
  <2>6. CASE latchBuffer
    BY <1>2, <2>1, <2>6 DEF latchBuffer, FramesAreSeen, signalLayerUpdate
  <2>7. ASSUME NEW l \in Layers, updateTexImage(l)
        PROVE  pc' = "latch" /\ (vsyncRequested' \/ frameQueued')
    BY <1>2, <2>1, <2>7 DEF updateTexImage, FramesAreSeen, signalLayerUpdate
  <2>8. CASE pageFlipDone
    <3> DEFINE newDataLatched == mLayersWithQueuedFrames \cap mRefreshPending # {}
    <3>1. /\ pc' = "idle" /\ ~SignalsAgain(newDataLatched) /\ ~vsyncRequested
          /\ newDataLatched => messages' = Dispatched("REFRESH")
      BY <1>2, <2>8 DEF pageFlipDone, signalLayerUpdate
    <3>2. frameQueued
      BY <2>1, <2>8, <3>1 DEF FramesAreSeen, pageFlipDone
    <3>3. messages' = Dispatched("REFRESH")
      BY <3>1, <3>2 DEF SignalsAgain
    <3>4. "REFRESH" \in Range(messages')
      BY <1>0, <3>3, DispatchMessage DEF Message
    <3> QED
      BY <3>1, <3>4
  <2>9. CASE handleMessageRefresh
    BY <1>2, <2>1, <2>9 DEF handleMessageRefresh, HasFrames, signalLayerUpdate
  <2>10. ASSUME UNCHANGED <<messages, pc, frameQueued>>, vsyncRequested => vsyncRequested'
         PROVE  /\ pc' = "idle" => Awake' \/ "REFRESH" \in Range(messages')
                /\ pc' \in {"latch", "update"} => vsyncRequested' \/ frameQueued'
    BY <2>1, <2>10 DEF FramesWakeServer, FramesAreSeen, HasFrames, Awake
  <2>11. ASSUME NEW t \in Thread,
                \/ \E c \in Call : setTransactionState(t, c)
                \/ Wakeup(t) \/ animWaitTimesOut(t) \/ waitTimesOut(t)
         PROVE  UNCHANGED <<messages, pc, frameQueued>> /\ (vsyncRequested => vsyncRequested')
    <3>1. ASSUME NEW c \in Call, Applies(t, c)
          PROVE  UNCHANGED <<messages, pc, frameQueued>> /\ (vsyncRequested => vsyncRequested')
      BY <3>1 DEF Applies, applyCall, mainVars
    <3>2. CASE StaysWaiting(t) \/ Returns(t)
      BY <3>2 DEF StaysWaiting, Returns, flagVars, mainVars
    <3> QED
      BY <2>11, <3>1, <3>2, ThreadSteps DEF SharedTypes
  <2>12. CASE MainThread
    BY <2>2, <2>3, <2>4, <2>5, <2>6, <2>7, <2>8, <2>9, <2>12 DEF MainThread
  <2>13. ASSUME NEW l \in Layers, QueueFrame(l) \/ Fence(l) \/ Destroy(l)
         PROVE  UNCHANGED <<messages, pc, frameQueued>> /\ (vsyncRequested => vsyncRequested')
    BY <2>13 DEF QueueFrame, Fence, Destroy, signalLayerUpdate, flagVars, mainVars
  <2>14. CASE UNCHANGED vars \/ presentFenceSignals
    BY <2>10, <2>14 DEF vars, mainVars, flagVars, presentFenceSignals
  <2> QED
    BY <2>10, <2>11, <2>12, <2>13, <2>14 DEF Next
<1> QED
  BY <1>1, <1>2

\* The last changes of l are not drawn.
Undrawn(l) == life[l] = "live" /\ layer[l].current.version > layer[l].drawing.version

\* The next state of s waits for a frame.
AtBarrier(s) == s.pending # <<>> /\ Head(s.pending).barrierLayer # NoLayer

\* A layer with changes that are not drawn is visited in this traversal or in
\* the next one; if it was visited in this one, it waits for a frame.
Revisited ==
    \A l \in Layers : Undrawn(l) =>
        /\ l \in mTransactionFlags
        /\ "traversal" \in transactionFlags \/ (pc = "traverse" /\ l \in todo)
        /\ pc = "traverse" /\ l \notin todo => AtBarrier(layer[l])

\* The version numbers are numbers.
LEMMA VersionNumbers ==
    ASSUME LayerInv, NEW l \in Layers
    PROVE  layer[l].current.version \in Nat /\ layer[l].drawing.version \in Nat
BY DEF LayerInv, LayerState, CurrentState, DrawingState, Version

\* What the steps do to the traversal.
LEMMA TraversalSteps ==
    ASSUME SharedTypes, CallKept, [Next]_vars
    PROVE  \/ /\ UNCHANGED <<pc, todo>> \/ (pc # "traverse" /\ pc' # "traverse")
              /\ transactionFlags \subseteq transactionFlags'
           \/ traverseLayer
           \/ handleTransaction /\ transactionFlags # {}
           \/ commitTransaction
<1>1. ASSUME NEW t \in Thread,
             \/ \E c \in Call : setTransactionState(t, c)
             \/ Wakeup(t) \/ animWaitTimesOut(t) \/ waitTimesOut(t)
      PROVE  UNCHANGED <<pc, todo>> /\ transactionFlags \subseteq transactionFlags'
  <2>1. ASSUME NEW c \in Call, Applies(t, c)
        PROVE  UNCHANGED <<pc, todo>> /\ transactionFlags \subseteq transactionFlags'
    BY <2>1 DEF Applies, applyCall, mainVars
  <2>2. CASE StaysWaiting(t) \/ Returns(t)
    BY <2>2 DEF StaysWaiting, Returns, flagVars, mainVars
  <2> QED
    BY <1>1, <2>1, <2>2, ThreadSteps DEF SharedTypes
<1>2. ASSUME NEW l \in Layers, QueueFrame(l) \/ Fence(l) \/ Destroy(l)
      PROVE  UNCHANGED <<pc, todo, transactionFlags>>
  BY <1>2 DEF QueueFrame, Fence, Destroy, flagVars, mainVars
<1>3. CASE UNCHANGED vars \/ presentFenceSignals
  BY <1>3 DEF vars, flagVars, mainVars, presentFenceSignals
<1>4. ASSUME NEW l \in Layers, updateTexImage(l)
      PROVE  pc = "update" /\ pc' = "latch" /\ UNCHANGED transactionFlags
  BY <1>4 DEF updateTexImage
<1>5. CASE MainThread /\ ~traverseLayer /\ ~commitTransaction
           /\ ~(handleTransaction /\ transactionFlags # {})
  BY <1>4, <1>5 DEF MainThread, eventReceiver, frameMissed, invalidate, handleTransaction,
        gatherLayers, latchBuffer, presentLater, pageFlipDone, handleMessageRefresh, flagVars,
        mainVars
<1> QED
  BY <1>1, <1>2, <1>3, <1>5 DEF Next

\* A layer with changes that are not drawn keeps its place in the traversals.
LEMMA RevisitedStep ==
    ASSUME LayerInv, LayerInv', FrameTypes, SharedTypes, CallKept, todo \subseteq Layers,
           Revisited, [Next]_vars
    PROVE  Revisited'
<1> SUFFICES ASSUME NEW l \in Layers, Undrawn(l)'
             PROVE  /\ l \in mTransactionFlags'
                    /\ "traversal" \in transactionFlags' \/ (pc' = "traverse" /\ l \in todo')
                    /\ pc' = "traverse" /\ l \notin todo' => AtBarrier(layer'[l])
  BY DEF Revisited
<1>0. life[l] = "live" /\ life'[l] = "live"
      /\ layer'[l].current.version > layer'[l].drawing.version
  BY LifeStep DEF Undrawn, SharedTypes
<1>n. /\ layer[l].current.version \in Nat /\ layer[l].drawing.version \in Nat
      /\ layer'[l].current.version \in Nat /\ layer'[l].drawing.version \in Nat
  BY VersionNumbers DEF LayerInv, LayerState, CurrentState, DrawingState, Version
<1>1. CASE Stays(l)
  <2>0. Undrawn(l) /\ l \in mTransactionFlags /\ l \in mTransactionFlags'
    BY <1>0, <1>1 DEF Stays, Undrawn, Revisited
  <2>r. /\ "traversal" \in transactionFlags \/ (pc = "traverse" /\ l \in todo)
        /\ pc = "traverse" /\ l \notin todo => AtBarrier(layer'[l])
    BY <1>1, <2>0 DEF Revisited, Stays
  <2>1. CASE /\ UNCHANGED <<pc, todo>> \/ (pc # "traverse" /\ pc' # "traverse")
             /\ transactionFlags \subseteq transactionFlags'
    BY <2>0, <2>1, <2>r
  <2>2. CASE traverseLayer
    <3>1. pc = "traverse" /\ pc' = "traverse" /\ todo' = todo \ {NextLayer}
          /\ transactionFlags \subseteq transactionFlags'
      BY <2>2 DEF traverseLayer, setTransactionFlags, flagVars
    <3>2. CASE l # NextLayer
      BY <2>0, <2>r, <3>1, <3>2
    <3>3. CASE l = NextLayer
      <4>1. doTransaction(l) /\ (layer'[l].pending # <<>> => "traversal" \in transactionFlags')
        BY <2>0, <2>2, <3>3 DEF traverseLayer, setTransactionFlags
      <4>2. PICK new, which, applied : Transacted(l, new, which, applied)
        BY <4>1, DoTransaction DEF LayerInv, PointsMatchStates
      <4>3. layer'[l] = new
        BY <4>2 DEF Transacted, LayerInv
      <4>4. CASE new.pending = <<>>
        BY <1>0, <1>n, <4>2, <4>3, <4>4 DEF Transacted
      <4>5. CASE new.pending # <<>>
        BY <2>0, <4>1, <4>2, <4>3, <4>5 DEF Transacted, AtBarrier
      <4> QED
        BY <4>4, <4>5
    <3> QED
      BY <3>2, <3>3
  <2>3. CASE handleTransaction /\ transactionFlags # {}
    <3>1. /\ pc = "transaction" /\ pc' = "traverse"
          /\ "traversal" \in transactionFlags => todo' = {k \in Layers : life[k] = "live"}
      BY <2>3 DEF handleTransaction
    <3>2. l \in todo'
      BY <1>0, <2>r, <3>1
    <3> QED
      BY <2>0, <3>1, <3>2
  <2>4. CASE commitTransaction
    BY <2>0, <2>r, <2>4 DEF commitTransaction, flagVars
  <2> QED
    BY <2>1, <2>2, <2>3, <2>4, TraversalSteps
<1>2. CASE Traversed(l)
  <2>1. layer'[l].pending # <<>>
    BY <1>0, <1>2, <1>n DEF Traversed
  <2>2. /\ l \in mTransactionFlags' /\ "traversal" \in transactionFlags'
        /\ Head(layer'[l].pending).barrierLayer # NoLayer
    BY <1>2, <2>1 DEF Traversed
  <2> QED
    BY <2>1, <2>2 DEF AtBarrier
<1>3. CASE Called(l) /\ ~Stays(l)
  <2>0. StateLockFree
    BY <1>3 DEF Called
  <2>1. /\ UNCHANGED <<pc, todo>> \/ (pc # "traverse" /\ pc' # "traverse")
        /\ transactionFlags \subseteq transactionFlags'
    <3>1. ~traverseLayer /\ ~commitTransaction
      BY <2>0 DEF StateLockFree, traverseLayer, commitTransaction
    <3>2. ~handleTransaction
      BY <1>3 DEF handleTransaction, Stays
    <3> QED
      BY <3>1, <3>2, TraversalSteps
  <2>2. pc # "traverse" /\ pc' # "traverse"
    BY <2>0, <2>1 DEF StateLockFree
  <2>3. CASE layer'[l].current.version = layer[l].current.version
    <3>1. Undrawn(l)
      BY <1>0, <1>3, <2>3 DEF Called, Undrawn
    <3>2. l \in mTransactionFlags /\ "traversal" \in transactionFlags
      BY <2>2, <3>1 DEF Revisited
    <3> QED
      BY <1>3, <2>1, <2>2, <3>2 DEF Called
  <2>4. CASE l \in mTransactionFlags' /\ "traversal" \in transactionFlags'
    BY <2>2, <2>4
  <2> QED
    BY <1>3, <2>3, <2>4 DEF Called
<1> QED
  BY <1>1, <1>2, <1>3, VersionSteps DEF SharedTypes

-----------------------------------------------------------------------------
(* Waiting threads                                                         *)

\* Thread t waits for its transaction to be committed.
Waiting(t) == threadState[t] \in {"wait", "notified"}

\* The change of t is drawn or waits for a frame, or its layer is gone.
Answered(t) ==
    LET s == layer[call[t].layer] IN
    \/ s.drawing.version >= made[t] \/ life[call[t].layer] # "live" \/ AtBarrier(s)

\* A thread waits until its change is answered or a timeout clears the flag for
\* everyone; its version is one that the layer has had.
WaitersKept ==
    \A t \in Thread : Waiting(t) =>
        /\ made[t] <= layer[call[t].layer].current.version
        /\ mTransactionPending \/ timedOut \/ Answered(t)

\* What the steps do to a thread that waits after them.
LEMMA WaiterSteps ==
    ASSUME SharedTypes, ThreadTypes, [Next]_vars, NEW t \in Thread, Waiting(t)'
    PROVE  \/ /\ Waiting(t) /\ call'[t] = call[t] /\ made'[t] = made[t]
              /\ commitTransaction
                    \/ (mTransactionPending \/ timedOut => mTransactionPending' \/ timedOut')
           \/ /\ mTransactionPending' /\ call'[t] \in Call
              /\ made'[t] = layer'[call'[t].layer].current.version
<1>0. threadState \in [Thread -> ThreadStates] /\ call \in [Thread -> Call \cup {NoCall}]
      /\ made \in [Thread -> Nat] /\ CallKept
  BY DEF ThreadTypes
<1>1. CASE UNCHANGED <<threadVars, mTransactionPending>>
  BY <1>1 DEF threadVars, Waiting
<1>2. CASE commitTransaction
  <2>1. threadState'[t] \in {"wait", "notified"} => threadState[t] \in {"wait", "notified"}
    BY <1>2 DEF commitTransaction, broadcast
  <2> QED
    BY <1>2, <2>1 DEF commitTransaction, Waiting
<1>3. ASSUME NEW k \in Thread, NEW c \in Call, Applies(k, c)
      PROVE  \/ /\ Waiting(t) /\ call'[t] = call[t] /\ made'[t] = made[t]
                /\ mTransactionPending \/ timedOut => mTransactionPending' \/ timedOut'
             \/ /\ mTransactionPending' /\ call'[t] = c
                /\ made'[t] = layer'[c.layer].current.version
  <2> DEFINE waits == ReturnedFlags(c) # {} /\ mTransactionPending'
  <2>1. /\ threadState' = [threadState EXCEPT ![k] = IF waits THEN "wait" ELSE "idle"]
        /\ call' = [call EXCEPT ![k] = IF waits THEN c ELSE NoCall]
        /\ made' = [made EXCEPT ![k] = IF waits THEN layer'[c.layer].current.version ELSE 0]
        /\ UNCHANGED timedOut
    BY <1>3 DEF Applies, applyCall
  <2>2. mTransactionPending => mTransactionPending'
    BY <1>3 DEF Applies, applyCall, pendingVars
  <2>3. waits => mTransactionPending'
    OBVIOUS
  <2> HIDE DEF waits
  <2>4. CASE k = t
    <3>1. waits
      BY <1>0, <2>1, <2>4 DEF Waiting
    <3>2. call'[t] = c /\ made'[t] = layer'[c.layer].current.version
      BY <1>0, <2>1, <2>4, <3>1
    <3> QED
      BY <2>3, <3>1, <3>2
  <2>5. CASE k # t
    <3>1. threadState'[t] = threadState[t] /\ call'[t] = call[t] /\ made'[t] = made[t]
      BY <1>0, <2>1, <2>5
    <3> QED
      BY <2>1, <2>2, <3>1 DEF Waiting
  <2> QED
    BY <2>4, <2>5
<1>4. ASSUME NEW k \in Thread, StaysWaiting(k)
      PROVE  /\ Waiting(t) /\ call'[t] = call[t] /\ made'[t] = made[t]
             /\ UNCHANGED <<mTransactionPending, timedOut>>
  <2>1. UNCHANGED <<made, mTransactionPending, timedOut>>
    BY <1>4 DEF StaysWaiting, pendingVars
  <2>2. CASE k # t
    <3>1. threadState'[t] = threadState[t] /\ call'[t] = call[t]
      BY <1>0, <1>4, <2>2 DEF StaysWaiting
    <3> QED
      BY <2>1, <3>1 DEF Waiting
  <2>3. CASE k = t
    <3>1. threadState'[t] \in {"wait", "notified"}
      BY DEF Waiting
    <3>2. threadState[t] \in {"wait", "notified"} /\ UNCHANGED call
      BY <1>0, <1>4, <2>3, <3>1 DEF StaysWaiting
    <3> QED
      BY <2>1, <3>2 DEF Waiting
  <2> QED
    BY <2>2, <2>3
<1>5. ASSUME NEW k \in Thread, Returns(k)
      PROVE  /\ Waiting(t) /\ call'[t] = call[t] /\ made'[t] = made[t]
             /\ mTransactionPending \/ timedOut => mTransactionPending' \/ timedOut'
  <2>1. /\ threadState' = [threadState EXCEPT ![k] = "idle"]
        /\ call' = [call EXCEPT ![k] = NoCall] /\ made' = [made EXCEPT ![k] = 0]
    BY <1>5 DEF Returns, leaves
  <2>2. k # t
    BY <1>0, <2>1 DEF Waiting
  <2>3. threadState'[t] = threadState[t] /\ call'[t] = call[t] /\ made'[t] = made[t]
    BY <1>0, <2>1, <2>2
  <2>4. mTransactionPending \/ timedOut => mTransactionPending' \/ timedOut'
    BY <1>5 DEF Returns
  <2> QED
    BY <2>3, <2>4 DEF Waiting
<1>6. ASSUME NEW k \in Thread,
             \/ \E c \in Call : setTransactionState(k, c)
             \/ Wakeup(k) \/ animWaitTimesOut(k) \/ waitTimesOut(k)
      PROVE  \/ /\ Waiting(t) /\ call'[t] = call[t] /\ made'[t] = made[t]
                /\ mTransactionPending \/ timedOut => mTransactionPending' \/ timedOut'
             \/ /\ mTransactionPending' /\ call'[t] \in Call
                /\ made'[t] = layer'[call'[t].layer].current.version
  <2>1. (\E c \in Call : Applies(k, c)) \/ StaysWaiting(k) \/ Returns(k)
    BY <1>0, <1>6, ThreadSteps DEF SharedTypes
  <2> QED
    BY <1>3, <1>4, <1>5, <2>1
<1>7. CASE MainThread
  <2>1. CASE ~commitTransaction
    <3>1. UNCHANGED <<threadVars, pendingVars>>
      BY <1>7, <2>1 DEF MainThread, eventReceiver, frameMissed, invalidate, handleTransaction,
            traverseLayer, gatherLayers, latchBuffer, updateTexImage, presentLater,
            pageFlipDone, handleMessageRefresh
    <3> QED
      BY <1>1, <3>1 DEF pendingVars
  <2> QED
    BY <1>2, <2>1
<1>8. CASE UNCHANGED <<threadVars, pendingVars>>
  BY <1>1, <1>8 DEF pendingVars
<1> QED
  BY <1>6, <1>7, <1>8 DEF Next, presentFenceSignals, QueueFrame, Fence, Destroy, vars

\* An answer is not taken back.
LEMMA AnsweredStep ==
    ASSUME LayerInv, LayerInv', Owned, FrameTypes, SharedTypes, ThreadTypes, todo \subseteq Layers,
           [Next]_vars, NEW t \in Thread, call[t] \in Call, made[t] \in Nat,
           made[t] <= layer[call[t].layer].current.version,
           call'[t] = call[t], made'[t] = made[t]
    PROVE  /\ made[t] <= layer'[call[t].layer].current.version
           /\ Answered(t) => Answered(t)'
<1> DEFINE l == call[t].layer
<1>0. l \in Layers
  BY CallFields
<1>n. /\ layer[l].current.version \in Nat /\ layer[l].drawing.version \in Nat
      /\ layer'[l].current.version \in Nat /\ layer'[l].drawing.version \in Nat
  BY <1>0, VersionNumbers DEF LayerInv, LayerState, CurrentState, DrawingState, Version
<1>1. layer[l].drawing.version <= layer'[l].drawing.version
  BY <1>0, LayerStep DEF ThreadTypes
<1>2. life'[l] = "live" => life[l] = "live"
  BY <1>0, LifeStep DEF SharedTypes, ThreadTypes
<1>3. Stays(l) \/ Traversed(l) \/ Called(l)
  BY <1>0, VersionSteps DEF SharedTypes, ThreadTypes
<1>4. made[t] <= layer[l].current.version
  OBVIOUS
<1>5. call'[t].layer = l
  OBVIOUS
<1> HIDE DEF l
<1>6. layer[l].current.version <= layer'[l].current.version
  BY <1>3, <1>n DEF Stays, Traversed, Called
<1>7. AtBarrier(layer[l]) => AtBarrier(layer'[l]) \/ made[t] <= layer'[l].drawing.version
  <2>1. CASE Stays(l)
    BY <2>1 DEF Stays
  <2>2. CASE Traversed(l)
    <3>1. CASE layer'[l].pending = <<>>
      <4>1. layer'[l].drawing.version = layer'[l].current.version
        BY <2>2, <3>1 DEF Traversed
      <4> QED
        BY <1>4, <1>6, <1>n, <4>1
    <3>2. CASE layer'[l].pending # <<>>
      BY <2>2, <3>2 DEF Traversed, AtBarrier
    <3> QED
      BY <3>1, <3>2
  <2>3. CASE Called(l)
    BY <2>3 DEF Called, AtBarrier
  <2> QED
    BY <1>3, <2>1, <2>2, <2>3
<1>8. made[t] <= layer'[l].current.version
  BY <1>4, <1>6, <1>n
<1>9. ASSUME Answered(t) PROVE Answered(t)'
  <2>1. layer[l].drawing.version >= made[t] \/ life[l] # "live" \/ AtBarrier(layer[l])
    BY <1>9 DEF Answered, l
  <2>2. layer'[l].drawing.version >= made[t] \/ life'[l] # "live" \/ AtBarrier(layer'[l])
    BY <1>1, <1>2, <1>7, <1>n, <2>1
  <2> QED
    BY <1>5, <2>2 DEF Answered, AtBarrier
<1> QED
  BY <1>8, <1>9 DEF l

\* Waiting threads keep their claim.
LEMMA WaitersStep ==
    ASSUME LayerInv, LayerInv', Owned, FrameTypes, SharedTypes, ThreadTypes, todo \subseteq Layers,
           Revisited, WaitersKept, [Next]_vars
    PROVE  WaitersKept'
<1> SUFFICES ASSUME NEW t \in Thread, Waiting(t)'
             PROVE  /\ made'[t] <= layer'[call'[t].layer].current.version
                    /\ mTransactionPending' \/ timedOut' \/ Answered(t)'
  BY DEF WaitersKept
<1>1. CASE /\ mTransactionPending' /\ call'[t] \in Call
           /\ made'[t] = layer'[call'[t].layer].current.version
  <2>1. call'[t].layer \in Layers
    BY <1>1, CallFields
  <2>2. layer'[call'[t].layer].current.version \in Nat
    BY <2>1 DEF LayerInv, LayerState, CurrentState, Version
  <2> QED
    BY <1>1, <2>2
<1>2. CASE Waiting(t) /\ call'[t] = call[t] /\ made'[t] = made[t]
  <2>0. call[t] \in Call /\ made[t] \in Nat
    BY <1>2 DEF ThreadTypes, CallKept, Waiting
  <2>1. /\ made[t] <= layer[call[t].layer].current.version
        /\ mTransactionPending \/ timedOut \/ Answered(t)
    BY <1>2 DEF WaitersKept
  <2>2. /\ made[t] <= layer'[call[t].layer].current.version
        /\ Answered(t) => Answered(t)'
    BY <1>2, <2>0, <2>1, AnsweredStep
  <2>3. CASE commitTransaction
    <3>1. pc = "traverse" /\ todo = {} /\ UNCHANGED layer
      BY <2>3 DEF commitTransaction
    <3> DEFINE l == call[t].layer
    <3>2. l \in Layers
      BY <2>0, CallFields
    <3>3. layer[l].current.version \in Nat /\ layer[l].drawing.version \in Nat
      BY <3>2, VersionNumbers
    <3>4. CASE Undrawn(l)
      <4>1. AtBarrier(layer[l])
        BY <3>1, <3>2, <3>4 DEF Revisited
      <4> QED
        BY <2>2, <1>2, <4>1 DEF Answered
    <3>5. CASE ~Undrawn(l)
      <4>1. life[l] # "live" \/ layer[l].drawing.version >= made[t]
        BY <2>0, <2>1, <3>3, <3>5 DEF Undrawn
      <4> QED
        BY <1>2, <2>2, <4>1 DEF Answered
    <3> QED
      BY <3>4, <3>5
  <2>4. CASE mTransactionPending \/ timedOut => mTransactionPending' \/ timedOut'
    BY <1>2, <2>1, <2>2, <2>4
  <2>5. \/ commitTransaction
        \/ (mTransactionPending \/ timedOut => mTransactionPending' \/ timedOut')
        \/ mTransactionPending'
    BY WaiterSteps
  <2> QED
    BY <1>2, <2>2, <2>3, <2>4, <2>5
<1> QED
  BY <1>1, <1>2, WaiterSteps

-----------------------------------------------------------------------------
(* The inductive invariant                                                 *)

\* The inductive invariant.  The parts need each other: for example, a waiter
\* finds its change because the states of a layer are in order, and those are
\* popped in order because points and states match.
IInv ==
    /\ LayerInv /\ Owned /\ FrameTypes /\ FramesInOrder
    /\ ThreadTypes /\ SharedTypes /\ MainTypes
    /\ NotEarly /\ FlagsWakeServer /\ FramesWakeServer /\ FramesAreSeen
    /\ Revisited /\ WaitersKept

\* At the start no layer has a state to draw and no frame.
LEMMA InitInv == Init => IInv
<1> SUFFICES ASSUME Init PROVE IInv
  OBVIOUS
<1>1. LayerInit
  BY DEF Init
<1>2. syncPoint = <<>> /\ DOMAIN syncPoint = {}
  BY <1>1 DEF LayerInit
<1>3. ASSUME NEW l \in Layers
      PROVE  /\ layer[l].current.version = 0 /\ layer[l].drawing.version = 0
             /\ ~layer[l].current.hidden /\ ~layer[l].drawing.hidden
             /\ layer[l].pending = <<>> /\ layer[l].remote = <<>>
             /\ mLocalSyncPoints[l] = {} /\ mQueue[l] = <<>> /\ mQueueItems[l] = <<>>
             /\ mCurrentFrameNumber[l] = 0 /\ mLastFrameNumberReceived[l] = 0
             /\ life[l] = "live"
  BY <1>1 DEF LayerInit
<1>e. DOMAIN <<>> = {} /\ Len(<<>>) = 0 /\ 1 .. 0 = {}
  OBVIOUS
<1>4. LayerInv
  <2>1. syncPoint \in Seq(SyncPoint)
    BY <1>2
  <2>2. layer \in [Layers -> LayerState(DOMAIN syncPoint)]
    <3> DEFINE s == [current |-> [version |-> 0, hidden |-> FALSE, modified |-> FALSE],
                     drawing |-> [version |-> 0, hidden |-> FALSE],
                     pending |-> <<>>, remote |-> <<>>]
    <3>1. s \in LayerState(DOMAIN syncPoint)
      BY DEF LayerState, CurrentState, DrawingState, Version
    <3>2. layer = [l \in Layers |-> s]
      BY <1>1 DEF LayerInit
    <3> HIDE DEF s
    <3> QED
      BY <3>1, <3>2
  <2>3. mLocalSyncPoints \in [Layers -> SUBSET DOMAIN syncPoint]
    BY <1>1 DEF LayerInit
  <2>4. \A l \in Layers : StateInv(layer[l].current, layer[l].drawing, layer[l].pending)
    <3> SUFFICES ASSUME NEW l \in Layers
                 PROVE  StateInv(layer[l].current, layer[l].drawing, layer[l].pending)
      OBVIOUS
    <3>1. Len(layer[l].pending) = 0 /\ 1 .. Len(layer[l].pending) = {}
      BY <1>3, <1>e
    <3>2. VersionsGrow(layer[l].current, layer[l].drawing, layer[l].pending)
      BY <1>3, <3>1 DEF VersionsGrow
    <3>3. HidesForGood(layer[l].current, layer[l].drawing, layer[l].pending)
      BY <1>3, <3>1 DEF HidesForGood
    <3>4. EndsInCurrent(layer[l].current, layer[l].drawing, layer[l].pending)
      BY <1>3, <3>1 DEF EndsInCurrent
    <3> QED
      BY <3>2, <3>3, <3>4 DEF StateInv
  <2>5. PointsMatchStates
    <3> SUFFICES ASSUME NEW l \in Layers
                 PROVE  Matched(syncPoint, layer[l].pending, layer[l].remote)
      BY DEF PointsMatchStates
    <3>1. DOMAIN layer[l].pending = {} /\ DOMAIN layer[l].remote = {}
      BY <1>3, <1>e
    <3> DEFINE at == [i \in {} |-> 1]
    <3>2. at \in [DOMAIN layer[l].remote -> DOMAIN layer[l].pending]
      BY <3>1
    <3>3. MatchedAt(syncPoint, layer[l].pending, layer[l].remote, at)
      BY <3>1 DEF MatchedAt
    <3> QED
      BY <3>2, <3>3 DEF Matched
  <2> QED
    BY <2>1, <2>2, <2>3, <2>4, <2>5 DEF LayerInv
<1>5. Owned
  BY <1>3, <1>e DEF Owned, Range
<1>6. FrameTypes /\ FramesInOrder
  <2>1. FrameTypes
    <3>1. /\ mQueue \in [Layers -> Seq(1 .. MaxFrame)]
          /\ mQueueItems \in [Layers -> Seq(1 .. MaxFrame)]
          /\ droppable \in [Layers -> SUBSET (1 .. MaxFrame)]
      BY <1>1 DEF LayerInit
    <3>2. 0 \in 0 .. MaxFrame
      BY LayerAssumption
    <3> QED
      BY <1>1, <3>1, <3>2 DEF FrameTypes, LayerInit
  <2>2. FramesInOrder
    BY <1>3, <1>e DEF FramesInOrder, QueueInOrder, AtTheEnd
  <2> QED
    BY <2>1, <2>2
<1>7. ThreadTypes
  <2>1. /\ threadState \in [Thread -> ThreadStates] /\ made \in [Thread -> Nat]
        /\ call \in [Thread -> Call \cup {NoCall}] /\ CallKept
    BY DEF Init, ThreadStates, CallKept
  <2>2. calls \in 0 .. MaxCalls
    BY TransactionsAssumption DEF Init
  <2> QED
    BY <2>1, <2>2 DEF ThreadTypes
<1>8. SharedTypes
  <2>1. /\ mTransactionFlags \subseteq Layers
        /\ life \in [Layers -> {"live", "removing", "removed", "dead"}]
    BY <1>1 DEF LayerInit
  <2> QED
    BY <2>1, Zenon DEF SharedTypes, Init
<1>9. MainTypes
  <2>1. MessagesOK(messages)
    <3>1. messages = <<>>
      BY DEF Init
    <3> QED
      BY <1>e, <3>1 DEF MessagesOK, IsInjective
  <2>2. mRefreshPending = {}
    BY <1>1 DEF LayerInit
  <2>3. /\ pc = "idle" /\ todo = {} /\ refreshNeeded = FALSE /\ frameQueued = FALSE
        /\ mLayersWithQueuedFrames = {} /\ presentPending = FALSE
    BY DEF Init
  <2> QED
    BY <2>1, <2>2, <2>3 DEF MainTypes
<1>10. NotEarly
  BY <1>2 DEF NotEarly
<1>11. FlagsWakeServer /\ FramesAreSeen
  BY Zenon DEF Init, FlagsWakeServer, FramesAreSeen
<1>12. FramesWakeServer
  BY <1>3 DEF FramesWakeServer, DrawingLayers
<1>13. Revisited
  BY <1>3 DEF Revisited, Undrawn
<1>14. WaitersKept
  BY DEF WaitersKept, Waiting, Init
<1> QED
  BY <1>4, <1>5, <1>6, <1>7, <1>8, <1>9, <1>10, <1>11, <1>12, <1>13, <1>14 DEF IInv

\* It holds at the start, and every step of every thread keeps it.
THEOREM IInvHolds == Spec => []IInv
<1>1. Init => IInv
  BY InitInv
<1>2. IInv /\ [Next]_vars => IInv'
  <2> SUFFICES ASSUME IInv, [Next]_vars PROVE IInv'
    OBVIOUS
  <2>0. /\ LayerInv /\ Owned /\ FrameTypes /\ FramesInOrder
        /\ ThreadTypes /\ SharedTypes /\ MainTypes
        /\ NotEarly /\ FlagsWakeServer /\ FramesWakeServer /\ FramesAreSeen
        /\ Revisited /\ WaitersKept
    BY DEF IInv
  <2>1. /\ CallKept /\ todo \subseteq Layers /\ mTransactionPending \in BOOLEAN
        /\ life \in [Layers -> {"live", "removing", "removed", "dead"}]
    BY <2>0 DEF ThreadTypes, SharedTypes, MainTypes
  <2> HIDE DEF IInv
  <2>2. LayerInv' /\ Owned'
    BY <2>0, <2>1, LayerStep
  <2>3. FrameTypes' /\ FramesInOrder'
    BY <2>0, FramesStep
  <2>4. ThreadTypes'
    BY <2>0, <2>1, <2>2, ThreadTypesStep
  <2>5. SharedTypes'
    BY <2>0, <2>1, SharedTypesStep
  <2>6. MainTypes'
    BY <2>0, <2>1, MainTypesStep
  <2>7. NotEarly'
    BY <2>0, <2>1, NotEarlyStep
  <2>8. FlagsWakeServer'
    BY <2>0, <2>1, FlagsWakeServerStep
  <2>9. FramesWakeServer' /\ FramesAreSeen'
    BY <2>0, <2>1, FramesWakeServerStep
  <2>10. Revisited'
    BY <2>0, <2>1, <2>2, RevisitedStep
  <2>11. WaitersKept'
    BY <2>0, <2>1, <2>2, WaitersStep
  <2> QED
    BY <2>2, <2>3, <2>4, <2>5, <2>6, <2>7, <2>8, <2>9, <2>10, <2>11 DEF IInv
<1> QED
  BY <1>1, <1>2, PTL DEF Spec

\* The variables of the layers, the threads, the messages and the main thread
\* keep their types: in particular there is at most one message of each kind.
THEOREM TypeCorrect == Spec => []TypeOK
<1>1. IInv => TypeOK
  <2> SUFFICES ASSUME IInv PROVE TypeOK
    OBVIOUS
  <2>1. LayerTypeOK
    BY DEF IInv, LayerInv, FrameTypes, SharedTypes, MainTypes, LayerTypeOK, LayerState,
           CurrentState, DrawingState, SyncPoint
  <2> QED
    BY <2>1 DEF IInv, ThreadTypes, SharedTypes, MainTypes, TypeOK, ThreadStates, Flags,
                MessagesOK, Message, Version
<1> QED
  BY <1>1, IInvHolds, PTL

\* The states with a barrier and the points of a layer are in the same order
\* after any sequence of calls, traversals and removals, so that
\* applyPendingStates finds a point for its state and none with an unexpected
\* frame number.
THEOREM PointsStayMatched == Spec => []PointsMatchStates
<1>1. IInv => PointsMatchStates
  BY DEF IInv, LayerInv
<1> QED
  BY <1>1, IInvHolds, PTL

\* No deferred transaction is applied before the frame it waits for, or a later
\* one, is there with a signaled fence or as a droppable frame, is latched, or
\* will never be shown, whatever the producers and the fences do between the
\* traversal and the latching of frames.
THEOREM DeferredNeverEarly == Spec => []NotEarly
<1>1. IInv => NotEarly
  BY DEF IInv
<1> QED
  BY <1>1, IInvHolds, PTL

\* SurfaceFlinger's copy of a queue ends with the frames of the queue, whatever
\* frames are dropped, rejected and replaced: latchBuffer finds the frame that was
\* latched, and onFrameReplaced an item to replace.
THEOREM ShadowEndsWithQueue == Spec => []ShadowHoldsQueue
<1>1. IInv => ShadowHoldsQueue
  BY DEF IInv, FramesInOrder, AtTheEnd, ShadowHoldsQueue
<1> QED
  BY <1>1, IInvHolds, PTL

\* Flags that are set while the main thread takes the old ones, frames that come
\* while it latches others, and changes that are put off are not forgotten.
THEOREM WorkIsNotForgotten == Spec => []WorkWakesServer
<1>1. IInv => WorkWakesServer
  <2> SUFFICES ASSUME IInv PROVE WorkWakesServer
    OBVIOUS
  <2>1. ChangesAreRevisited
    BY DEF IInv, Revisited, Undrawn, ChangesAreRevisited, StateLockFree
  <2> QED
    BY <2>1 DEF IInv, WorkWakesServer
<1> QED
  BY <1>1, IInvHolds, PTL

\* The state that is drawn of a layer never goes back to an older one.
THEOREM StatesDrawnInOrder == Spec => DrawnInOrder
<1>1. IInv /\ [Next]_vars
         => [\A l \in Layers : layer'[l].drawing.version >= layer[l].drawing.version]_vars
  <2> SUFFICES ASSUME IInv, [Next]_vars, NEW l \in Layers
               PROVE  layer'[l].drawing.version >= layer[l].drawing.version
    OBVIOUS
  <2>1. /\ LayerInv /\ Owned /\ FrameTypes /\ CallKept /\ todo \subseteq Layers
    BY DEF IInv, ThreadTypes, MainTypes
  <2>2. LayerInv' /\ layer[l].drawing.version <= layer'[l].drawing.version
    BY <2>1, LayerStep
  <2>3. layer[l].drawing.version \in Nat /\ layer'[l].drawing.version \in Nat
    BY <2>1, <2>2 DEF LayerInv, LayerState, DrawingState, Version
  <2> QED
    BY <2>2, <2>3
<1> QED
  BY <1>1, IInvHolds, PTL DEF Spec, DrawnInOrder

\* A thread that waited in setTransactionState and met no timeout finds its
\* change drawn or queued behind a barrier, also when other threads' calls and
\* spurious wakeups come in between.
THEOREM WaitersFindTheirChange == Spec => ReturnsCommitted
<1> DEFINE Committed ==
        \A t \in Thread :
          /\ threadState[t] \in {"wait", "notified"} /\ threadState'[t] = "idle"
          /\ ~timedOut'
          => LET s == layer[call[t].layer] IN
             \/ s.drawing.version >= made[t] \/ life[call[t].layer] # "live"
             \/ s.pending # <<>> /\ Head(s.pending).barrierLayer # NoLayer
<1>1. IInv /\ [Next]_vars => [Committed]_vars
  <2> SUFFICES ASSUME IInv, [Next]_vars, NEW t \in Thread,
                      Waiting(t), threadState'[t] = "idle", ~timedOut'
               PROVE  Answered(t)
    BY DEF Waiting, Answered, AtBarrier
  <2>1. CallKept /\ mTransactionPending \in BOOLEAN /\ timedOut \in BOOLEAN
        /\ threadState \in [Thread -> ThreadStates]
    BY DEF IInv, ThreadTypes, SharedTypes
  <2>2. mTransactionPending \/ timedOut \/ Answered(t)
    BY DEF IInv, WaitersKept
  <2>3. threadState[t] # "idle"
    BY DEF Waiting
  <2>4. CASE UNCHANGED threadState
    BY <2>3, <2>4
  <2>5. CASE commitTransaction
    BY <2>3, <2>5 DEF commitTransaction, broadcast
  <2>6. ASSUME NEW k \in Thread,
               \/ \E c \in Call : setTransactionState(k, c)
               \/ Wakeup(k) \/ animWaitTimesOut(k) \/ waitTimesOut(k)
        PROVE  Answered(t)
    <3>1. CASE \E c \in Call : Applies(k, c)
      <4>1. k # t
        BY <3>1 DEF Applies, Waiting
      <4>2. threadState'[t] = threadState[t]
        BY <2>1, <3>1, <4>1 DEF Applies, applyCall
      <4> QED
        BY <2>3, <4>2
    <3>2. CASE StaysWaiting(k)
      <4>1. threadState'[t] # "idle"
        BY <2>1, <2>3, <3>2 DEF StaysWaiting
      <4> QED
        BY <4>1
    <3>3. CASE Returns(k)
      <4>1. mTransactionPending = FALSE /\ timedOut' = timedOut
        BY <3>3 DEF Returns
      <4> QED
        BY <2>2, <4>1
    <3> QED
      BY <2>1, <2>6, <3>1, <3>2, <3>3, ThreadSteps
  <2>7. CASE MainThread
    <3>1. UNCHANGED threadState \/ commitTransaction
      BY <2>7 DEF MainThread, eventReceiver, frameMissed, invalidate, handleTransaction,
            traverseLayer, gatherLayers, latchBuffer, updateTexImage, presentLater,
            pageFlipDone, handleMessageRefresh, threadVars
    <3> QED
      BY <2>4, <2>5, <3>1
  <2> QED
    BY <2>4, <2>6, <2>7 DEF Next, presentFenceSignals, QueueFrame, Fence, Destroy,
          threadVars, vars
<1> QED
  BY <1>1, IInvHolds, PTL DEF Spec, ReturnsCommitted
=============================================================================
