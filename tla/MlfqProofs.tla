------------------------------- MODULE MlfqProofs -------------------------------
(***************************************************************************)
(* Proofs about Mlfq: the type invariant, the queues without duplicates    *)
(* and the arrows of the levels on any number of processors; on one        *)
(* processor also that no runnable process is lost, that the highest level *)
(* is served first and that a boost reaches everybody.                     *)
(*                                                                         *)
(* BInv says where a process may be: in a queue at most once, on one       *)
(* processor at most, in one fork at most.  QInv adds, for one processor,  *)
(* that whoever waits is in the queue of its level, and that a process that*)
(* runs without having left its queue (L3, MQ) is still in it when it comes*)
(* back.  Every action has a lemma that it has the Outcome stated below.   *)
(***************************************************************************)
EXTENDS Mlfq, SequenceTheorems, FiniteSetTheorems, WellFoundedInduction, TLAPS

-----------------------------------------------------------------------------
(* Sequences without duplicates.                                            *)

Once(q) == \A i, j \in DOMAIN q : q[i] = q[j] => i = j
Line(q) == q \in Seq(Procs) /\ Once(q)

(* A set of numbers has a least one: induction, from the well-founded order.*)
LEMMA Least ==
    ASSUME NEW T, T \subseteq Nat, T # {}
    PROVE  \E x \in T : \A y \in T : x <= y
<1> DEFINE R == {ss \in Nat \X Nat : ss[1] < ss[2]}
<1>1. R = OpToRel(<, Nat)  BY DEF OpToRel
<1>2. \A x, y \in Nat : y < x => <<y, x>> \in R  OBVIOUS
<1> HIDE DEF R
<1>3. IsWellFoundedOn(R, Nat)  BY <1>1, NatLessThanWellFounded
<1>4. PICK x \in T : \A y \in T : ~(<<y, x>> \in R)
  BY <1>3, WFMin
<1>5. \A y \in T : ~(y < x)  BY <1>2, <1>4
<1> QED  BY <1>5

(* What is true of 0, and of n when it is true of n - 1, is true up to N.   *)
LEMMA Induct ==
    ASSUME NEW N \in Nat, NEW T, 0 \in T, \A n \in 1 .. N : n - 1 \in T => n \in T
    PROVE  N \in T
<1> DEFINE S == {n \in 0 .. N : n \notin T}
<1>1. SUFFICES ASSUME N \notin T PROVE FALSE  OBVIOUS
<1>2. S \subseteq Nat /\ S # {}  BY <1>1
<1>3. PICK x \in S : \A y \in S : x <= y  BY <1>2, Least
<1>4. x \in 1 .. N /\ x \notin T  OBVIOUS
<1>5. x - 1 \notin S  BY <1>3, <1>4
<1>6. x - 1 \in T  BY <1>4, <1>5
<1> QED  BY <1>4, <1>6

(* A function that is defined by recursion on 0 .. N exists.                *)
RecursiveOn(f, N, S, a, g) ==
    /\ f \in [0 .. N -> S] /\ f[0] = a
    /\ \A n \in 1 .. N : f[n] = g[<<n, f[n - 1]>>]
LEMMA Recursion ==
    ASSUME NEW N \in Nat, NEW S, NEW a \in S, NEW g \in [(1 .. N) \X S -> S]
    PROVE  \E f : RecursiveOn(f, N, S, a, g)
<1> DEFINE Upto(m, f) == /\ f \in [0 .. m -> S] /\ f[0] = a
                         /\ \A n \in 1 .. m : f[n] = g[<<n, f[n - 1]>>]
<1> DEFINE T == {m \in 0 .. N : \E f : Upto(m, f)}
<1>1. 0 \in T
  <2>1. Upto(0, [n \in 0 .. 0 |-> a])  OBVIOUS
  <2> HIDE DEF Upto
  <2> QED  BY <2>1
<1>2. ASSUME NEW m \in 1 .. N, m - 1 \in T
      PROVE  m \in T
  <2>1. PICK f : Upto(m - 1, f)  BY <1>2
  <2> DEFINE h == [n \in 0 .. m |-> IF n = m THEN g[<<m, f[m - 1]>>] ELSE f[n]]
  <2>2. f[m - 1] \in S  BY <2>1
  <2>3. g[<<m, f[m - 1]>>] \in S  BY <2>2
  <2>4. h \in [0 .. m -> S]  BY <2>1, <2>3
  <2>5. h[0] = a  BY <2>1
  <2>6. \A n \in 1 .. m : h[n] = g[<<n, h[n - 1]>>]
    <3> SUFFICES ASSUME NEW n \in 1 .. m PROVE h[n] = g[<<n, h[n - 1]>>]  OBVIOUS
    <3>1. h[n - 1] = f[n - 1]  OBVIOUS
    <3>2. h[m] = g[<<m, f[m - 1]>>]  OBVIOUS
    <3>3. CASE n # m
      <4>1. n \in 1 .. m - 1 /\ h[n] = f[n]  BY <3>3
      <4>2. f[n] = g[<<n, f[n - 1]>>]  BY <2>1, <4>1
      <4> HIDE DEF h
      <4> QED  BY <3>1, <4>1, <4>2
    <3>4. CASE n = m
      <4> HIDE DEF h
      <4> QED  BY <3>1, <3>2, <3>4
    <3> QED  BY <3>3, <3>4
  <2>7. Upto(m, h)  BY <2>4, <2>5, <2>6
  <2> HIDE DEF h, Upto
  <2> QED  BY <2>7
<1>3. N \in T
  <2> HIDE DEF T
  <2> QED  BY <1>1, <1>2, Induct
<1> QED  BY <1>3 DEF RecursiveOn

-----------------------------------------------------------------------------
(* queue.c.                                                                 *)

LEMMA Slice ==
    ASSUME NEW q \in Seq(Procs), NEW m \in 1 .. Len(q) + 1, NEW n \in m - 1 .. Len(q)
    PROVE  /\ SubSeq(q, m, n) \in Seq(Procs) /\ Len(SubSeq(q, m, n)) = n - m + 1
           /\ \A k \in 1 .. n - m + 1 : SubSeq(q, m, n)[k] = q[k + m - 1]
<1>1. Len(q) \in Nat /\ \A k \in 1 .. Len(q) : q[k] \in Procs  OBVIOUS
<1>2. m \in Int /\ n \in Int /\ \A k \in m .. n : q[k] \in Procs  BY <1>1
<1>3. /\ SubSeq(q, m, n) \in Seq(Procs)
      /\ Len(SubSeq(q, m, n)) = IF m <= n THEN n - m + 1 ELSE 0
      /\ \A k \in 1 .. n - m + 1 : SubSeq(q, m, n)[k] = q[m + k - 1]
  BY <1>2, SubSeqProperties
<1> QED  BY <1>1, <1>2, <1>3

(* q_remove moves what is behind p one forward.                             *)
LEMMA RemovedAt ==
    ASSUME NEW q, Line(q), NEW p, NEW i \in 1 .. Len(q), q[i] = p
    PROVE  /\ q_remove(q, p) \in Seq(Procs) /\ Len(q_remove(q, p)) = Len(q) - 1
           /\ \A k \in 1 .. Len(q_remove(q, p)) :
                 q_remove(q, p)[k] = IF k < i THEN q[k] ELSE q[k + 1]
<1>1. q \in Seq(Procs) /\ Len(q) \in Nat /\ DOMAIN q = 1 .. Len(q)  BY DEF Line
<1>2. \A j \in 1 .. Len(q) : q[j] = p => j = i  BY <1>1 DEF Line, Once
<1>3. {j \in 1 .. Len(q) : q[j] = p} = {i}  BY <1>2
<1>4. SelectInSeq(q, LAMBDA v : v = p) = i
  <2>1. Min({i}) = i  BY <1>1 DEF Min
  <2> QED  BY <1>3, <2>1 DEF SelectInSeq
<1>5. q_remove(q, p) = RemoveAt(q, i)  BY <1>4 DEF q_remove, RemoveFirst
<1> DEFINE a == SubSeq(q, 1, i - 1)
<1> DEFINE b == SubSeq(q, i + 1, Len(q))
<1> DEFINE r == q_remove(q, p)
<1>6. r = a \o b  BY <1>5 DEF RemoveAt
<1>7. a \in Seq(Procs) /\ Len(a) = i - 1 /\ \A k \in 1 .. i - 1 : a[k] = q[k]
  <2>1. 1 \in 1 .. Len(q) + 1 /\ i - 1 \in 1 - 1 .. Len(q)  BY <1>1
  <2> QED  BY <1>1, <2>1, Slice
<1>8. b \in Seq(Procs) /\ Len(b) = Len(q) - i /\ \A k \in 1 .. Len(q) - i : b[k] = q[k + i]
  <2>1. i + 1 \in 1 .. Len(q) + 1 /\ Len(q) \in i + 1 - 1 .. Len(q)  BY <1>1
  <2>2. /\ b \in Seq(Procs) /\ Len(b) = Len(q) - (i + 1) + 1
        /\ \A k \in 1 .. Len(q) - (i + 1) + 1 : b[k] = q[k + (i + 1) - 1]
    <3> DEFINE m == i + 1
    <3> DEFINE n == Len(q)
    <3>1. m \in 1 .. Len(q) + 1 /\ n \in m - 1 .. Len(q)  BY <2>1
    <3> HIDE DEF m, n
    <3>2. /\ SubSeq(q, m, n) \in Seq(Procs) /\ Len(SubSeq(q, m, n)) = n - m + 1
          /\ \A k \in 1 .. n - m + 1 : SubSeq(q, m, n)[k] = q[k + m - 1]
      BY <1>1, <3>1, Slice
    <3> QED  BY <3>2 DEF m, n
  <2> HIDE DEF b
  <2> QED  BY <1>1, <2>2
<1> HIDE DEF a, b, r
<1>9. r \in Seq(Procs) /\ Len(r) = Len(q) - 1
  <2>1. a \o b \in Seq(Procs) /\ Len(a \o b) = Len(a) + Len(b)
    BY <1>7, <1>8, ConcatProperties
  <2>2. r \in Seq(Procs) /\ Len(r) = Len(a) + Len(b)  BY <1>6, <2>1
  <2>3. Len(r) = i - 1 + (Len(q) - i)  BY <1>7, <1>8, <2>2
  <2>4. i \in Int /\ Len(q) \in Int  BY <1>1
  <2>5. i - 1 + (Len(q) - i) = Len(q) - 1  BY <2>4
  <2> QED  BY <2>2, <2>3, <2>5
<1>10. \A k \in 1 .. Len(r) : r[k] = IF k < i THEN q[k] ELSE q[k + 1]
  <2>1. \A k \in 1 .. Len(r) : r[k] = IF k <= Len(a) THEN a[k] ELSE b[k - Len(a)]
    BY <1>1, <1>6, <1>7, <1>8, <1>9, ConcatProperties
  <2> QED  BY <1>1, <1>7, <1>8, <1>9, <2>1
<1> QED  BY <1>9, <1>10 DEF r

LEMMA Removed ==
    ASSUME NEW q, Line(q), NEW p
    PROVE  /\ Line(q_remove(q, p))
           /\ \A x : Contains(q_remove(q, p), x) <=> Contains(q, x) /\ x # p
<1>1. CASE ~\E i \in 1 .. Len(q) : q[i] = p
  <2>1. q_remove(q, p) = q  BY <1>1 DEF q_remove, RemoveFirst
  <2> QED  BY <1>1, <2>1 DEF Contains
<1>2. CASE \E i \in 1 .. Len(q) : q[i] = p
  <2>1. PICK i \in 1 .. Len(q) : q[i] = p  BY <1>2
  <2>2. q \in Seq(Procs) /\ Len(q) \in Nat /\ DOMAIN q = 1 .. Len(q)  BY DEF Line
  <2>3. \A j \in 1 .. Len(q) : q[j] = p => j = i  BY <2>1, <2>2 DEF Line, Once
  <2> DEFINE r == q_remove(q, p)
  <2>4. r \in Seq(Procs) /\ Len(r) = Len(q) - 1  BY <2>1, RemovedAt
  <2>5. \A k \in 1 .. Len(r) : r[k] = IF k < i THEN q[k] ELSE q[k + 1]  BY <2>1, RemovedAt
  <2> HIDE DEF r
  <2>6. DOMAIN r = 1 .. Len(r)  BY <2>4
  <2>7. Once(r)
    <3> SUFFICES ASSUME NEW k \in 1 .. Len(r), NEW m \in 1 .. Len(r), r[k] = r[m] PROVE k = m
      BY <2>6 DEF Once
    <3> DEFINE up(n) == IF n < i THEN n ELSE n + 1
    <3>1. up(k) \in 1 .. Len(q) /\ up(m) \in 1 .. Len(q)  BY <2>1, <2>2, <2>4
    <3>2. q[up(k)] = q[up(m)]  BY <2>5
    <3>3. up(k) = up(m)  BY <2>2, <3>1, <3>2 DEF Line, Once
    <3> QED  BY <2>1, <2>2, <2>4, <3>3
  <2>8. ASSUME NEW x PROVE Contains(r, x) <=> Contains(q, x) /\ x # p
    <3>1. ASSUME NEW k \in 1 .. Len(r) PROVE Contains(q, r[k]) /\ r[k] # p
      <4> DEFINE n == IF k < i THEN k ELSE k + 1
      <4>1. n \in 1 .. Len(q) /\ n # i /\ r[k] = q[n]  BY <2>1, <2>2, <2>4, <2>5
      <4> QED  BY <2>3, <4>1 DEF Contains
    <3>2. ASSUME NEW n \in 1 .. Len(q), q[n] # p PROVE Contains(r, q[n])
      <4> DEFINE k == IF n < i THEN n ELSE n - 1
      <4>1. k \in 1 .. Len(r) /\ r[k] = q[n]  BY <2>1, <2>2, <2>4, <2>5, <3>2
      <4> QED  BY <4>1 DEF Contains
    <3> QED  BY <3>1, <3>2 DEF Contains
  <2> QED  BY <2>4, <2>7, <2>8 DEF Line, r
<1> QED  BY <1>1, <1>2

LEMMA Pushed ==
    ASSUME NEW q, Line(q), NEW p \in Procs
    PROVE  /\ Line(q_push(q, p))
           /\ \A x : Contains(q_push(q, p), x) <=> Contains(q, x) \/ x = p
<1> DEFINE r == q_remove(q, p)
<1>1. Line(r) /\ \A x : Contains(r, x) <=> Contains(q, x) /\ x # p  BY Removed
<1> HIDE DEF r
<1> DEFINE s == Append(r, p)
<1>2. q_push(q, p) = s  BY DEF q_push, r
<1>3. r \in Seq(Procs) /\ Len(r) \in Nat /\ DOMAIN r = 1 .. Len(r)  BY <1>1 DEF Line
<1>4. s \in Seq(Procs) /\ Len(s) = Len(r) + 1 /\ DOMAIN s = 1 .. Len(s)  BY <1>3
<1>5. s[Len(s)] = p /\ \A i \in 1 .. Len(r) : s[i] = r[i]  BY <1>3, <1>4
<1> HIDE DEF s
<1>6. \A x : Contains(s, x) <=> Contains(r, x) \/ x = p  BY <1>3, <1>4, <1>5 DEF Contains
<1>7. \A i \in 1 .. Len(r) : r[i] # p  BY <1>1 DEF Contains
<1>8. Once(s)
  <2> SUFFICES ASSUME NEW i \in 1 .. Len(s), NEW j \in 1 .. Len(s), s[i] = s[j] PROVE i = j
    BY <1>4 DEF Once
  <2>1. CASE i = Len(s) \/ j = Len(s)  BY <1>3, <1>4, <1>5, <1>7, <2>1
  <2>2. CASE i # Len(s) /\ j # Len(s)
    BY <1>1, <1>3, <1>4, <1>5, <2>2 DEF Line, Once
  <2> QED  BY <2>1, <2>2
<1> QED  BY <1>1, <1>2, <1>4, <1>6, <1>8 DEF Line

(* The processes of ps that are in S.                                       *)
Among(ps, S, x) == x \in S /\ Contains(ps, x)

LEMMA PushedAll ==
    ASSUME NEW q, Line(q), NEW ps \in Seq(Procs), NEW S
    PROVE  /\ Line(PushAll(q, ps, S))
           /\ \A x : Contains(PushAll(q, ps, S), x) <=> Contains(q, x) \/ Among(ps, S, x)
<1> DEFINE N == Len(ps)
<1> DEFINE Lines == {s \in Seq(Procs) : Once(s)}
<1> DEFINE step == [x \in (1 .. N) \X Lines |->
                       IF ps[x[1]] \in S THEN q_push(x[2], ps[x[1]]) ELSE x[2]]
<1>1. N \in Nat /\ DOMAIN ps = 1 .. N /\ \A n \in 1 .. N : ps[n] \in Procs  OBVIOUS
<1>2. \A s : s \in Lines <=> Line(s)  BY DEF Line
<1> HIDE DEF N, Lines
<1>3. step \in [(1 .. N) \X Lines -> Lines]
  <2> SUFFICES ASSUME NEW n \in 1 .. N, NEW s \in Lines
               PROVE  (IF ps[n] \in S THEN q_push(s, ps[n]) ELSE s) \in Lines
    OBVIOUS
  <2> QED  BY <1>1, <1>2, Pushed
<1>4. \A n \in 1 .. N, s \in Lines :
          step[<<n, s>>] = IF ps[n] \in S THEN q_push(s, ps[n]) ELSE s
  OBVIOUS
<1> HIDE DEF step
<1>5. PICK f : RecursiveOn(f, N, Lines, q, step)
  <2>1. N \in Nat /\ q \in Lines  BY <1>1, <1>2
  <2> QED  BY <1>3, <2>1, Recursion
<1>6. /\ f \in [0 .. N -> Lines] /\ f[0] = q
      /\ \A n \in 1 .. N : f[n] = step[<<n, f[n - 1]>>]
  BY <1>5 DEF RecursiveOn
<1>7. f = [n \in 0 .. N |-> IF n = 0 THEN q
                            ELSE IF ps[n] \in S THEN q_push(f[n - 1], ps[n])
                            ELSE f[n - 1]]
  <2> DEFINE body(n) == IF n = 0 THEN q
                        ELSE IF ps[n] \in S THEN q_push(f[n - 1], ps[n])
                        ELSE f[n - 1]
  <2>1. ASSUME NEW n \in 0 .. N PROVE f[n] = body(n)
    <3>1. CASE n = 0  BY <1>6, <3>1
    <3>2. CASE n # 0
      <4>1. n \in 1 .. N /\ n - 1 \in 0 .. N  BY <1>1, <3>2
      <4>2. f[n - 1] \in Lines  BY <1>6, <4>1
      <4>3. f[n] = step[<<n, f[n - 1]>>]  BY <1>6, <4>1
      <4> QED  BY <1>4, <3>2, <4>1, <4>2, <4>3
    <3> QED  BY <3>1, <3>2
  <2> HIDE DEF body
  <2>2. f = [n \in 0 .. N |-> body(n)]  BY <1>6, <2>1
  <2> QED  BY <2>2 DEF body
<1> DEFINE Def(g) == g = [n \in 0 .. N |-> IF n = 0 THEN q
                                          ELSE IF ps[n] \in S THEN q_push(g[n - 1], ps[n])
                                          ELSE g[n - 1]]
<1> DEFINE pushed == CHOOSE g : Def(g)
<1>8. Def(f)  BY <1>7
<1>9. PushAll(q, ps, S) = pushed[N]  BY DEF PushAll, N
<1> HIDE DEF Def
<1>10. Def(pushed)  BY <1>8
<1> HIDE DEF pushed
<1>11. /\ pushed[0] = q
       /\ \A n \in 1 .. N : pushed[n] = IF ps[n] \in S THEN q_push(pushed[n - 1], ps[n])
                                                       ELSE pushed[n - 1]
  BY <1>1, <1>10 DEF Def
<1> DEFINE Good(n) == /\ Line(pushed[n])
                      /\ \A x : Contains(pushed[n], x) <=>
                             \/ Contains(q, x)
                             \/ x \in S /\ \E i \in 1 .. n : ps[i] = x
<1> DEFINE T == {n \in 0 .. N : Good(n)}
<1>12. 0 \in T
  <2>1. Good(0)  BY <1>11
  <2> QED  BY <1>1, <2>1
<1>13. ASSUME NEW n \in 1 .. N, n - 1 \in T PROVE n \in T
  <2>1. Good(n - 1)  BY <1>13
  <2>2. ps[n] \in Procs  BY <1>1
  <2>3. \A x : (\E i \in 1 .. n : ps[i] = x) <=> (\E i \in 1 .. n - 1 : ps[i] = x) \/ ps[n] = x
    BY <1>1
  <2>4. CASE ps[n] \in S
    <3>1. pushed[n] = q_push(pushed[n - 1], ps[n])  BY <1>11, <2>4
    <3>2. /\ Line(pushed[n])
          /\ \A x : Contains(pushed[n], x) <=> Contains(pushed[n - 1], x) \/ x = ps[n]
      BY <2>1, <2>2, <3>1, Pushed
    <3>3. Good(n)  BY <2>1, <2>3, <2>4, <3>2
    <3> QED  BY <1>1, <3>3
  <2>5. CASE ps[n] \notin S
    <3>1. pushed[n] = pushed[n - 1]  BY <1>11, <2>5
    <3>2. Good(n)  BY <2>1, <2>3, <2>5, <3>1
    <3> QED  BY <1>1, <3>2
  <2> QED  BY <2>4, <2>5
<1>14. N \in T
  <2> HIDE DEF T
  <2> QED  BY <1>1, <1>12, <1>13, Induct
<1>15. Good(N)  BY <1>14
<1> QED  BY <1>9, <1>15 DEF Among, Contains, N

LEMMA TableHasAll ==
    Table \in Seq(Procs) /\ \A x : Contains(Table, x) <=> x \in Procs
<1>1. NPROC \in Nat /\ Procs = 1 .. NPROC  BY MlfqAssumption DEF Procs
<1>2. Table = [i \in 1 .. NPROC |-> i]  BY <1>1 DEF Table
<1>3. Table \in [1 .. NPROC -> Procs]  BY <1>1, <1>2
<1>4. Table \in Seq(Procs) /\ Len(Table) = NPROC  BY <1>1, <1>2, <1>3
<1> QED  BY <1>1, <1>2, <1>4 DEF Contains

Queues(qs) == DOMAIN qs = Levels \union {MoQ} /\ \A l \in Levels \union {MoQ} : Line(qs[l])
Holds(qs, l, x) == Contains(qs[l], x)

LEMMA Enqueued ==
    ASSUME NEW qs, Queues(qs), NEW W, W \subseteq Procs
    PROVE  /\ Queues(Enqueue(qs, W))
           /\ \A l \in Levels \union {MoQ} : \A x : Holds(Enqueue(qs, W), l, x) <=>
                 \/ Holds(qs, l, x)
                 \/ l \in Levels /\ x \in W /\ proc[x].queue_level = l
<1> DEFINE ws == Enqueue(qs, W)
<1>1. /\ DOMAIN ws = Levels \union {MoQ}
      /\ \A l \in Levels \union {MoQ} :
            ws[l] = IF l \in Levels THEN PushAll(qs[l], Table, AtLevel(W, l)) ELSE qs[l]
  BY DEF Queues, Enqueue
<1> HIDE DEF ws
<1>2. ASSUME NEW l \in Levels \union {MoQ}
      PROVE  /\ Line(ws[l])
             /\ \A x : Contains(ws[l], x) <=>
                   \/ Contains(qs[l], x)
                   \/ l \in Levels /\ x \in W /\ proc[x].queue_level = l
  <2>1. Line(qs[l])  BY DEF Queues
  <2>2. CASE l \in Levels
    <3>1. ws[l] = PushAll(qs[l], Table, AtLevel(W, l))  BY <1>1, <2>2
    <3>2. /\ Line(ws[l])
          /\ \A x : Contains(ws[l], x) <=> Contains(qs[l], x) \/ Among(Table, AtLevel(W, l), x)
      BY <2>1, <3>1, PushedAll, TableHasAll
    <3>3. \A x : Among(Table, AtLevel(W, l), x) <=> x \in W /\ proc[x].queue_level = l
      BY TableHasAll DEF Among, AtLevel
    <3> QED  BY <2>2, <3>2, <3>3
  <2>3. CASE l \notin Levels  BY <1>1, <2>1, <2>3
  <2> QED  BY <2>2, <2>3
<1> QED  BY <1>1, <1>2 DEF Queues, Holds, ws

(* The levels below L0, one behind the other.                               *)
LEMMA Flattened ==
    ASSUME NEW qs, Queues(qs)
    PROVE  /\ FlattenSeq([l \in LowerLevels |-> qs[l]]) \in Seq(Procs)
           /\ \A x : Contains(FlattenSeq([l \in LowerLevels |-> qs[l]]), x)
                     <=> \E l \in LowerLevels : Contains(qs[l], x)
<1> DEFINE s == [l \in 1 .. 3 |-> qs[l]]
<1>1. [l \in LowerLevels |-> qs[l]] = s  BY DEF LowerLevels
<1>2. \A l \in 1 .. 3 : qs[l] \in Seq(Procs)  BY DEF Queues, Levels, MoQ, Line
<1>3. s \in Seq(Seq(Procs)) /\ Len(s) = 3 /\ \A l \in 1 .. 3 : s[l] = qs[l]  BY <1>2
<1> HIDE DEF s
<1> DEFINE Def(f) == f = [i \in 1 .. Len(s) |-> IF i = 1 THEN s[i] ELSE f[i - 1] \o s[i]]
<1> DEFINE flatten == CHOOSE f : Def(f)
<1>4. FlattenSeq(s) = flatten[Len(s)]  BY <1>3 DEF FlattenSeq
<1> DEFINE g == [i \in 1 .. 3 |-> IF i = 1 THEN s[1] ELSE IF i = 2 THEN s[1] \o s[2]
                                  ELSE (s[1] \o s[2]) \o s[3]]
<1>5. Def(g)
  <2>1. ASSUME NEW i \in 1 .. 3 PROVE g[i] = IF i = 1 THEN s[i] ELSE g[i - 1] \o s[i]
    <3>1. i = 1 \/ i = 2 \/ i = 3  OBVIOUS
    <3> QED  BY <3>1
  <2>2. g = [i \in 1 .. 3 |-> g[i]]  OBVIOUS
  <2> HIDE DEF g
  <2>3. g = [i \in 1 .. 3 |-> IF i = 1 THEN s[i] ELSE g[i - 1] \o s[i]]  BY <2>1, <2>2
  <2> QED  BY <1>3, <2>3
<1> HIDE DEF Def, g
<1>6. Def(flatten)  BY <1>5
<1> HIDE DEF flatten
<1>7. flatten[1] = s[1] /\ flatten[2] = flatten[1] \o s[2] /\ flatten[3] = flatten[2] \o s[3]
  <2>1. flatten = [i \in 1 .. 3 |-> IF i = 1 THEN s[i] ELSE flatten[i - 1] \o s[i]]
    BY <1>3, <1>6 DEF Def
  <2>2. 1 \in 1 .. 3 /\ 2 \in 1 .. 3 /\ 3 \in 1 .. 3 /\ 2 - 1 = 1 /\ 3 - 1 = 2  OBVIOUS
  <2>3. \A i \in 1 .. 3 : flatten[i] = IF i = 1 THEN s[i] ELSE flatten[i - 1] \o s[i]
    BY <2>1
  <2>4. flatten[2] = flatten[2 - 1] \o s[2] /\ flatten[3] = flatten[3 - 1] \o s[3]
    <3>1. /\ flatten[2] = IF 2 = 1 THEN s[2] ELSE flatten[2 - 1] \o s[2]
          /\ flatten[3] = IF 3 = 1 THEN s[3] ELSE flatten[3 - 1] \o s[3]
      BY <2>2, <2>3
    <3>2. 2 # 1 /\ 3 # 1  OBVIOUS
    <3> QED  BY <3>1, <3>2, Zenon
  <2> QED  BY <2>2, <2>3, <2>4
<1>8. ASSUME NEW a \in Seq(Procs), NEW b \in Seq(Procs)
      PROVE  a \o b \in Seq(Procs) /\ \A x : Contains(a \o b, x) <=> Contains(a, x) \/ Contains(b, x)
  <2> DEFINE c == a \o b
  <2>1. /\ c \in Seq(Procs) /\ Len(c) = Len(a) + Len(b)
        /\ \A i \in 1 .. Len(a) + Len(b) : c[i] = IF i <= Len(a) THEN a[i] ELSE b[i - Len(a)]
    BY ConcatProperties
  <2> HIDE DEF c
  <2>2. Len(a) \in Nat /\ Len(b) \in Nat  OBVIOUS
  <2>3. ASSUME NEW i \in 1 .. Len(a) PROVE Contains(c, a[i])
    <3>1. i \in 1 .. Len(c) /\ c[i] = a[i]  BY <2>1, <2>2
    <3> QED  BY <3>1 DEF Contains
  <2>4. ASSUME NEW i \in 1 .. Len(b) PROVE Contains(c, b[i])
    <3>1. /\ i + Len(a) \in 1 .. Len(c) /\ i + Len(a) \in 1 .. Len(a) + Len(b)
          /\ ~(i + Len(a) <= Len(a)) /\ i + Len(a) - Len(a) = i
      BY <2>1, <2>2
    <3>2. c[i + Len(a)] = b[i + Len(a) - Len(a)]  BY <2>1, <3>1
    <3>3. c[i + Len(a)] = b[i]  BY <3>1, <3>2
    <3> QED  BY <3>1, <3>3 DEF Contains
  <2>5. ASSUME NEW i \in 1 .. Len(c) PROVE Contains(a, c[i]) \/ Contains(b, c[i])
    <3>1. CASE i <= Len(a)  BY <2>1, <2>2, <3>1 DEF Contains
    <3>2. CASE i > Len(a)
      <4>1. i - Len(a) \in 1 .. Len(b) /\ c[i] = b[i - Len(a)]  BY <2>1, <2>2, <3>2
      <4> QED  BY <4>1 DEF Contains
    <3> QED  BY <2>1, <2>2, <3>1, <3>2
  <2>6. \A x : Contains(c, x) <=> Contains(a, x) \/ Contains(b, x)
    BY <2>3, <2>4, <2>5, SMTT(30) DEF Contains
  <2> QED  BY <2>1, <2>6 DEF c
<1>9. s[1] \in Seq(Procs) /\ s[2] \in Seq(Procs) /\ s[3] \in Seq(Procs)  BY <1>2, <1>3
<1>10. /\ flatten[2] \in Seq(Procs)
       /\ \A x : Contains(flatten[2], x) <=> Contains(s[1], x) \/ Contains(s[2], x)
  BY <1>7, <1>8, <1>9
<1>11. /\ flatten[3] \in Seq(Procs)
       /\ \A x : Contains(flatten[3], x) <=> Contains(flatten[2], x) \/ Contains(s[3], x)
  <2>1. flatten[2] \in Seq(Procs) /\ s[3] \in Seq(Procs)  BY <1>9, <1>10
  <2>2. /\ flatten[2] \o s[3] \in Seq(Procs)
        /\ \A x : Contains(flatten[2] \o s[3], x) <=> Contains(flatten[2], x) \/ Contains(s[3], x)
    BY <1>8, <2>1, Zenon
  <2> QED  BY <1>7, <2>2, Zenon
<1>12. FlattenSeq(s) = flatten[3]  BY <1>3, <1>4
<1>13. \A x : Contains(flatten[3], x) <=> \E l \in 1 .. 3 : Contains(s[l], x)
  <2>1. 1 .. 3 = {1, 2, 3}  OBVIOUS
  <2> QED  BY <1>10, <1>11, <2>1
<1> QED  BY <1>1, <1>3, <1>11, <1>12, <1>13 DEF LowerLevels

(* A line without duplicates has room in a ring.                            *)
LEMMA LineFits ==
    ASSUME NEW q, Line(q)
    PROVE  Len(q) <= NPROC /\ ToSet(q) \subseteq Procs
<1>1. q \in Seq(Procs) /\ Len(q) \in Nat /\ DOMAIN q = 1 .. Len(q)  BY DEF Line
<1>2. ToSet(q) \subseteq Procs  BY <1>1 DEF ToSet
<1>3. q \in Injection(1 .. Len(q), Procs)
  BY <1>1 DEF Line, Once, Injection, IsInjective
<1>4. IsFiniteSet(1 .. Len(q)) /\ Cardinality(1 .. Len(q)) = Len(q)
  BY <1>1, FS_Interval
<1>5. IsFiniteSet(Procs) /\ Cardinality(Procs) = NPROC
  BY MlfqAssumption, FS_Interval DEF Procs
<1>6. Cardinality(1 .. Len(q)) <= Cardinality(Procs)
  BY <1>3, <1>4, <1>5, FS_Injection
<1> QED  BY <1>2, <1>4, <1>5, <1>6

ProcType ==
    [state : {"UNUSED", "EMBRYO", "SLEEPING", "RUNNABLE", "RUNNING", "ZOMBIE"},
     pid : 0 .. MaxPid, parent : Procs \union {NoProc},
     chan : {"none", "self"} \union Chans, killed : BOOLEAN,
     priority : 0 .. MaxPriority, queue_level : Levels \union {MoQ},
     ticks : 0 .. MaxTicks, at : {"user", "fork", "wait"},
     np : Procs \union {NoProc}, boosts : BOOLEAN]
Turns == [p : Procs \union {NoProc}, from : Levels \union {MoQ}]
Rest ==
    /\ nextpid \in 1 .. MaxPid + 1
    /\ is_monopolized \in BOOLEAN
    /\ ticks \in 0 .. BoostPeriod - 1
    /\ panic \in {"none", "init exiting", "EMBRYO", "RUNNING"}
Types == proc \in [Procs -> ProcType] /\ cpu \in [CPUs -> Turns] /\ Rest

(* A processor is idle or runs a process, which is RUNNING and runs nowhere *)
(* else.                                                                    *)
CpuOK  == \A c \in CPUs : cpu[c] = Idle \/ (cpu[c].p \in Procs /\ proc[cpu[c].p].state = "RUNNING")
CpuOne == \A c, d \in CPUs : cpu[c].p \in Procs /\ cpu[c].p = cpu[d].p => c = d

(* A fork in progress has its own slot, which is EMBRYO.                    *)
ForkOK ==
    \A p \in Procs : proc[p].at = "fork" =>
        proc[p].np \in Procs /\ proc[proc[p].np].state = "EMBRYO"
ForkOne ==
    \A p, q \in Procs :
        proc[p].at = "fork" /\ proc[q].at = "fork" /\ proc[p].np = proc[q].np => p = q
Places == CpuOK /\ CpuOne /\ ForkOK /\ ForkOne

BInv == Types /\ Queues(queue) /\ Places

-----------------------------------------------------------------------------
LEMMA Constants ==
    /\ NPROC \in Nat \ {0} /\ Procs = 1 .. NPROC /\ NoProc \notin Procs
    /\ InitProc \in Procs /\ Levels = 0 .. 3 /\ MoQ = 99
    /\ Idle \in Turns /\ Idle.p \notin Procs
<1>1. NPROC \in Nat \ {0} /\ NoProc \notin Procs  BY MlfqAssumption
<1>2. InitProc \in Procs  BY <1>1 DEF Procs, InitProc
<1> QED  BY <1>1, <1>2 DEF Procs, Levels, MoQ, Idle, Turns

(* What a step may do to a process that does not move: wake it.             *)
Still(q) ==
    /\ proc'[q].at = proc[q].at /\ proc'[q].np = proc[q].np
    /\ \/ proc'[q].state = proc[q].state
       \/ proc[q].state = "SLEEPING" /\ proc'[q].state = "RUNNABLE"

(* Steps that start no fork and touch neither who runs nor what is EMBRYO.  *)
LEMMA NoForkStarts ==
    ASSUME Types, Places, cpu' = cpu,
           \A q \in Procs :
               /\ \/ proc'[q].state = proc[q].state
                  \/ proc[q].state \notin {"RUNNING", "EMBRYO"}
               /\ \/ proc'[q].at = proc[q].at /\ proc'[q].np = proc[q].np
                  \/ proc'[q].at # "fork"
    PROVE  Places'
<1>1. CpuOK'  BY DEF Places, CpuOK
<1>2. CpuOne'  BY DEF Places, CpuOne
<1>3. ForkOK'  BY DEF Places, ForkOK
<1>4. ForkOne'  BY DEF Places, ForkOne
<1> QED  BY <1>1, <1>2, <1>3, <1>4 DEF Places

LEMMA SetOne ==
    ASSUME NEW pr, pr \in [Procs -> ProcType], NEW p \in Procs, NEW r \in ProcType
    PROVE  /\ [pr EXCEPT ![p] = r] \in [Procs -> ProcType]
           /\ \A q \in Procs : [pr EXCEPT ![p] = r][q] = IF q = p THEN r ELSE pr[q]
OBVIOUS

LEMMA RunnerIs ==
    ASSUME BInv, NEW c \in CPUs, NEW p \in Procs, cpu[c].p = p
    PROVE  proc[p] \in ProcType /\ proc \in [Procs -> ProcType] /\ proc[p].state = "RUNNING"
BY Constants DEF BInv, Types, Places, CpuOK

(* Processor c turns to t, which is Idle or says what it runs.              *)
Turn(p, from) == [p |-> p, from |-> from]
TurnsTo(c, t) == cpu' = [cpu EXCEPT ![c] = t]

LEMMA TurnsToIs ==
    ASSUME cpu \in [CPUs -> Turns], NEW c \in CPUs, NEW t \in Turns, TurnsTo(c, t)
    PROVE  cpu' \in [CPUs -> Turns] /\ \A d \in CPUs : cpu'[d] = IF d = c THEN t ELSE cpu[d]
BY DEF TurnsTo

LEMMA TurnIs ==
    ASSUME NEW p \in Procs, NEW from \in Levels \union {MoQ}
    PROVE  Turn(p, from) \in Turns /\ Turn(p, from).p = p /\ Turn(p, from).from = from
BY DEF Turn, Turns

(* p, which c runs, gives the processor up.                                 *)
LEMMA OneLeaves ==
    ASSUME Types, Places, NEW c \in CPUs, NEW p \in Procs, cpu[c].p = p,
           TurnsTo(c, Idle), \A q \in Procs \ {p} : Still(q),
           proc'[p].at = proc[p].at \/ proc'[p].at # "fork", proc'[p].np = proc[p].np
    PROVE  Places'
<1>1. \A d \in CPUs : cpu'[d] = IF d = c THEN Idle ELSE cpu[d]
  BY Constants, TurnsToIs DEF Types
<1>2. proc[p].state = "RUNNING"  BY Constants DEF Places, CpuOK
<1>3. CpuOK'  BY <1>1 DEF Places, CpuOK, CpuOne, Still
<1>4. CpuOne'  BY <1>1, Constants DEF Places, CpuOne
<1>5. ForkOK'  BY <1>2 DEF Places, ForkOK, Still
<1>6. ForkOne'  BY DEF Places, ForkOne, Still
<1> QED  BY <1>3, <1>4, <1>5, <1>6 DEF Places

(* The scheduler gives c to p.                                              *)
LEMMA OneStarts ==
    ASSUME Types, Places, NEW c \in CPUs, NEW p \in Procs, cpu[c] = Idle, NEW t \in Turns,
           t.p = p, TurnsTo(c, t), \A q \in Procs \ {p} : Still(q),
           proc[p].state \notin {"EMBRYO", "RUNNING"}, proc'[p].state = "RUNNING",
           proc'[p].at = proc[p].at, proc'[p].np = proc[p].np
    PROVE  Places'
<1>1. \A d \in CPUs : cpu'[d] = IF d = c THEN t ELSE cpu[d]
  BY TurnsToIs DEF Types
<1>2. \A d \in CPUs : cpu[d].p # p  BY Constants DEF Places, CpuOK
<1>3. CpuOK'  BY <1>1, <1>2 DEF Places, CpuOK, Still
<1>4. CpuOne'  BY <1>1, <1>2 DEF Places, CpuOne
<1>5. ForkOK'  BY DEF Places, ForkOK, Still
<1>6. ForkOne'  BY DEF Places, ForkOne, Still
<1> QED  BY <1>3, <1>4, <1>5, <1>6 DEF Places

LEMMA LinesOf ==
    ASSUME Queues(queue), NEW l \in Levels \union {MoQ}
    PROVE  /\ Line(queue[l]) /\ queue[l] \in Seq(Procs)
           /\ queue[l] # <<>> => /\ Head(queue[l]) \in Procs /\ Line(Tail(queue[l]))
                                 /\ Holds(queue, l, Head(queue[l]))
                                 /\ \A x : Contains(Tail(queue[l]), x) <=>
                                           Holds(queue, l, x) /\ x # Head(queue[l])
<1> DEFINE q == queue[l]
<1>1. Line(q) /\ q \in Seq(Procs) /\ DOMAIN q = 1 .. Len(q) /\ Len(q) \in Nat  BY DEF Queues, Line
<1> SUFFICES ASSUME q # <<>>
             PROVE  /\ Head(q) \in Procs /\ Line(Tail(q)) /\ Contains(q, Head(q))
                    /\ \A x : Contains(Tail(q), x) <=> Contains(q, x) /\ x # Head(q)
  BY <1>1 DEF Holds
<1> HIDE DEF q
<1> DEFINE t == Tail(q)
<1>2. Len(q) > 0 /\ Head(q) = q[1]  BY <1>1
<1>3. Head(q) \in Procs  BY <1>1, <1>2
<1>4. /\ t \in Seq(Procs) /\ Len(t) = Len(q) - 1 /\ DOMAIN t = 1 .. Len(t)
      /\ \A i \in 1 .. Len(t) : t[i] = q[i + 1]
  BY <1>1, <1>2
<1> HIDE DEF t
<1>5. \A i, j \in 1 .. Len(q) : q[i] = q[j] => i = j  BY <1>1 DEF Line, Once
<1>6. Once(t)
  <2> SUFFICES ASSUME NEW i \in 1 .. Len(t), NEW j \in 1 .. Len(t), t[i] = t[j] PROVE i = j
    BY <1>4 DEF Once
  <2>1. i + 1 \in 1 .. Len(q) /\ j + 1 \in 1 .. Len(q) /\ q[i + 1] = q[j + 1]  BY <1>1, <1>4
  <2>2. i + 1 = j + 1  BY <1>5, <2>1
  <2> QED  BY <2>2
<1>7. ASSUME NEW i \in 1 .. Len(t) PROVE Contains(q, t[i]) /\ t[i] # q[1]
  <2>1. i + 1 \in 1 .. Len(q) /\ t[i] = q[i + 1] /\ i + 1 # 1 /\ 1 \in 1 .. Len(q)
    BY <1>1, <1>2, <1>4
  <2>2. q[i + 1] # q[1]  BY <1>5, <2>1
  <2> QED  BY <2>1, <2>2 DEF Contains
<1>8. ASSUME NEW i \in 1 .. Len(q), q[i] # q[1] PROVE Contains(t, q[i])
  <2>1. i # 1  BY <1>8
  <2>2. i - 1 \in 1 .. Len(t) /\ t[i - 1] = q[i]  BY <1>1, <1>4, <2>1
  <2> QED  BY <2>2 DEF Contains
<1>9. \A x : Contains(t, x) <=> Contains(q, x) /\ x # q[1]
  <2>1. ASSUME NEW x, Contains(t, x) PROVE Contains(q, x) /\ x # q[1]
    <3>1. PICK i \in 1 .. Len(t) : t[i] = x  BY <2>1 DEF Contains
    <3> QED  BY <1>7, <3>1
  <2>2. ASSUME NEW x, Contains(q, x), x # q[1] PROVE Contains(t, x)
    <3>1. PICK i \in 1 .. Len(q) : q[i] = x  BY <2>2 DEF Contains
    <3> QED  BY <1>8, <2>2, <3>1
  <2> QED  BY <2>1, <2>2
<1>10. Contains(q, q[1])
  <2>1. 1 \in 1 .. Len(q)  BY <1>1, <1>2
  <2> QED  BY <2>1 DEF Contains
<1> QED  BY <1>2, <1>3, <1>4, <1>6, <1>9, <1>10 DEF Line, t

(* The process the code goes back to the scheduler's loop from.             *)
LEMMA Back ==
    ASSUME NEW c \in CPUs, NEW p \in Procs, cpu \in [CPUs -> Turns], cpu[c].p = p,
           NEW pr \in [Procs -> ProcType], NEW qs, Queues(qs), BackIn(c, pr, qs)
    PROVE  /\ proc' \in [Procs -> ProcType] /\ Queues(queue')
           /\ TurnsTo(c, Idle) /\ cpu' \in [CPUs -> Turns]
           /\ \A q \in Procs \ {p} : proc'[q] = pr[q]
           /\ \A l \in Levels \union {MoQ} : \A x : Holds(qs, l, x) => Holds(queue', l, x)
           /\ proc'[p].state = pr[p].state /\ proc'[p].pid = pr[p].pid
           /\ proc'[p].at = pr[p].at /\ proc'[p].np = pr[p].np /\ proc'[p].boosts = pr[p].boosts
           /\ IF cpu[c].from \in 0 .. 2 /\ pr[p].state = "RUNNABLE"
              THEN /\ proc'[p].queue_level \in {cpu[c].from, NextLevel(cpu[c].from, pr[p].pid)}
                   /\ proc'[p].queue_level \in Levels
                   /\ Holds(queue', proc'[p].queue_level, p)
              ELSE proc'[p].queue_level = pr[p].queue_level
<1> DEFINE from    == cpu[c].from
<1> DEFINE spent   == from \in Levels /\ Quantum(from) <= pr[p].ticks
<1> DEFINE next    == IF spent THEN NextLevel(from, pr[p].pid) ELSE from
<1> DEFINE pushed  == from \in 0 .. 2 /\ pr[p].state = "RUNNABLE"
<1> DEFINE demoted == spent /\ from = 3 /\ pr[p].priority > 0
<1> DEFINE tk == IF spent THEN 0 ELSE pr[p].ticks
<1> DEFINE lv == IF pushed THEN next ELSE pr[p].queue_level
<1> DEFINE pi == IF demoted THEN pr[p].priority - 1 ELSE pr[p].priority
<1>1. pr[p] \in ProcType /\ from \in Levels \union {MoQ}  BY DEF Turns
<1>2. proc' = [pr EXCEPT ![p].ticks = tk, ![p].queue_level = lv, ![p].priority = pi]
  BY DEF BackIn
<1>3. queue' = IF pushed THEN [qs EXCEPT ![next] = q_push(@, p)] ELSE qs  BY DEF BackIn
<1>4. TurnsTo(c, Idle)  BY DEF BackIn, TurnsTo
<1>5. \A l \in Levels : \A n : NextLevel(l, n) \in Levels  BY DEF NextLevel, Levels
<1>6. from \in 0 .. 2 => from \in Levels  BY DEF Levels
<1>7. tk \in 0 .. MaxTicks  BY <1>1, MlfqAssumption DEF ProcType
<1>8. pi \in 0 .. MaxPriority
  <2>1. pr[p].priority \in 0 .. MaxPriority /\ MaxPriority \in Nat
    BY <1>1, MlfqAssumption DEF ProcType
  <2>2. pr[p].priority > 0 => pr[p].priority - 1 \in 0 .. MaxPriority  BY <2>1
  <2> QED  BY <2>1, <2>2
<1>9. pushed => next \in Levels /\ next \in {from, NextLevel(from, pr[p].pid)}  BY <1>5, <1>6
<1>10. lv \in Levels \union {MoQ}  BY <1>1, <1>9 DEF ProcType
<1> DEFINE r == proc'[p]
<1> HIDE DEF tk, lv, pi, next, pushed, spent, demoted, from
<1>11. /\ r.ticks = tk /\ r.queue_level = lv /\ r.priority = pi /\ r.state = pr[p].state
       /\ r.pid = pr[p].pid /\ r.at = pr[p].at /\ r.np = pr[p].np /\ r.boosts = pr[p].boosts
  BY <1>1, <1>2 DEF ProcType
<1>12. r \in ProcType  BY <1>1, <1>2, <1>7, <1>8, <1>10 DEF ProcType
<1>13. \A q \in Procs \ {p} : proc'[q] = pr[q]  BY <1>2
<1>14. proc' \in [Procs -> ProcType]
  <2>1. \A q \in Procs : proc'[q] \in ProcType  BY <1>12, <1>13
  <2>2. DOMAIN proc' = Procs /\ proc' = [q \in Procs |-> proc'[q]]  BY <1>2
  <2> QED  BY <2>1, <2>2
<1>15. cpu' \in [CPUs -> Turns]  BY <1>4, Constants, TurnsToIs
<1>16. CASE pushed
  <2>1. next \in Levels /\ next \in Levels \union {MoQ}  BY <1>9, <1>16
  <2>2. queue' = [qs EXCEPT ![next] = q_push(qs[next], p)] /\ lv = next
    BY <1>3, <1>16 DEF lv
  <2>3. Line(qs[next])  BY <2>1 DEF Queues
  <2>4. /\ Line(q_push(qs[next], p))
        /\ \A x : Contains(q_push(qs[next], p), x) <=> Contains(qs[next], x) \/ x = p
    BY <2>3, Pushed
  <2>5. /\ DOMAIN queue' = Levels \union {MoQ}
        /\ \A l \in Levels \union {MoQ} :
              queue'[l] = IF l = next THEN q_push(qs[next], p) ELSE qs[l]
    BY <2>1, <2>2 DEF Queues
  <2>6. Queues(queue')  BY <2>4, <2>5 DEF Queues
  <2>7. \A l \in Levels \union {MoQ} : \A x : Holds(qs, l, x) => Holds(queue', l, x)
    BY <2>4, <2>5 DEF Holds
  <2>8. Holds(queue', next, p)  BY <2>1, <2>4, <2>5 DEF Holds
  <2> QED
    BY <1>4, <1>9, <1>11, <1>13, <1>14, <1>15, <1>16, <2>1, <2>2, <2>6, <2>7, <2>8
    DEF pushed, from
<1>17. CASE ~pushed
  <2>1. queue' = qs /\ lv = pr[p].queue_level  BY <1>3, <1>17 DEF lv
  <2> QED
    BY <1>4, <1>11, <1>13, <1>14, <1>15, <1>17, <2>1 DEF pushed, from
<1> QED  BY <1>16, <1>17

LEMMA Started ==
    ASSUME NEW c \in CPUs, NEW p \in Procs, cpu \in [CPUs -> Turns],
           NEW pr \in [Procs -> ProcType], NEW from \in Levels \union {MoQ},
           panic \in {"none", "init exiting", "EMBRYO", "RUNNING"}, Run(c, p, pr, from)
    PROVE  /\ proc' \in [Procs -> ProcType] /\ cpu' \in [CPUs -> Turns]
           /\ panic' \in {"none", "init exiting", "EMBRYO", "RUNNING"}
           /\ \A q \in Procs \ {p} : proc'[q] = pr[q]
           /\ proc'[p].at = pr[p].at /\ proc'[p].np = pr[p].np
           /\ proc'[p].queue_level = pr[p].queue_level /\ proc'[p].boosts = pr[p].boosts
           /\ \/ cpu' = cpu /\ proc'[p].state = pr[p].state
              \/ /\ pr[p].state \notin {"EMBRYO", "RUNNING"} /\ proc'[p].state = "RUNNING"
                 /\ TurnsTo(c, Turn(p, from))
<1>1. CASE pr[p].state \in {"EMBRYO", "RUNNING"}
  BY <1>1 DEF Run
<1>2. CASE pr[p].state \notin {"EMBRYO", "RUNNING"}
  <2>1. /\ TurnsTo(c, Turn(p, from)) /\ panic' = panic
        /\ proc' = [pr EXCEPT ![p].state = "RUNNING", ![p].chan = "none"]
    BY <1>2 DEF Run, Turn, TurnsTo
  <2>2. cpu' \in [CPUs -> Turns]  BY <2>1, TurnIs, TurnsToIs
  <2> DEFINE r == [pr[p] EXCEPT !.state = "RUNNING", !.chan = "none"]
  <2>3. pr[p] \in ProcType  OBVIOUS
  <2>4. r \in ProcType /\ r.state = "RUNNING" /\ r.at = pr[p].at /\ r.np = pr[p].np
        /\ r.queue_level = pr[p].queue_level /\ r.boosts = pr[p].boosts
    BY <2>3 DEF ProcType
  <2>5. proc' = [pr EXCEPT ![p] = r]  BY <2>1
  <2> HIDE DEF r
  <2>6. proc' \in [Procs -> ProcType] /\ proc'[p] = r  BY <2>4, <2>5
  <2>7. \A q \in Procs \ {p} : proc'[q] = pr[q]  BY <2>5
  <2> QED  BY <1>2, <2>1, <2>2, <2>4, <2>6, <2>7
<1> QED  BY <1>1, <1>2

(* One level's arrows of README.md, for one process.                        *)
MayMove(p) ==
    LET old == proc[p].queue_level
        new == proc'[p].queue_level
    IN old \in Levels /\ new \in Levels /\ new # old /\ InPlace(p) =>
          \/ new = 3 /\ old \in {1, 2}
          \/ old = 0 /\ new = (IF proc[p].pid % 2 = 1 THEN 1 ELSE 2)
          \/ new = 0 /\ (proc[p].state = "EMBRYO" \/ Boosts)
Stays(q) == proc'[q].queue_level = proc[q].queue_level
Moves == \A p \in Procs : MayMove(p)

(* With one processor: whoever is runnable is in the queue of its level, and*)
(* so is a process that runs without having left its queue.                 *)
OneCpu == CPUs = {0}
Queued(q) ==
    /\ proc[q].state = "RUNNABLE" => Holds(queue, proc[q].queue_level, q)
    /\ proc[q].state \in Live /\ proc[q].queue_level = MoQ => Holds(queue, MoQ, q)
Kept ==
    \A c \in CPUs : cpu[c].p \in Procs /\ cpu[c].from \in {3, MoQ}
                    => Holds(queue, proc[cpu[c].p].queue_level, cpu[c].p)
QInv == (\A q \in Procs : Queued(q)) /\ Kept

Highest ==
    \A p, o \in Procs :
        /\ Starts(p) /\ ~is_monopolized /\ proc[p].queue_level \in Levels /\ InPlace(p)
        /\ proc[o].state = "RUNNABLE" /\ proc[o].queue_level \in Levels
        => \/ proc[p].queue_level < proc[o].queue_level
           \/ /\ proc[p].queue_level = proc[o].queue_level
              /\ proc[p].queue_level = 3 => proc[p].priority >= proc[o].priority
Reaches ==
    Boosts =>
        \A p \in Procs :
            proc[p].state = "RUNNABLE" /\ proc[p].queue_level \in Levels
            => proc'[p].queue_level = 0 /\ proc'[p].ticks = 0

(* What every step does.                                                    *)
Outcome == BInv' /\ Moves /\ (OneCpu /\ QInv => QInv' /\ Highest /\ Reaches)

(* A step that starts nobody and boosts nobody.                             *)
Plain == \A q \in Procs : ~Starts(q) /\ (proc[q].boosts => proc'[q].boosts)

LEMMA PlainOutcome ==
    ASSUME Plain, BInv', Moves, QInv => QInv'
    PROVE  Outcome
BY DEF Plain, Outcome, Highest, Reaches, Boosts

(* A process that does not move keeps its state or is woken, and then goes  *)
(* back to its queue.                                                       *)
Keeps(qs) == \A l \in Levels \union {MoQ} : \A x : Holds(queue, l, x) => Holds(qs, l, x)
Wakes(q, state, qs) ==
    \/ state = proc[q].state
    \/ /\ proc[q].state = "SLEEPING" /\ state = "RUNNABLE"
       /\ proc[q].queue_level \in Levels => Holds(qs, proc[q].queue_level, q)

LEMMA LevelIs ==
    ASSUME BInv, NEW q \in Procs
    PROVE  proc[q].queue_level \in Levels \union {MoQ}
<1>1. proc[q] \in ProcType  BY DEF BInv, Types
<1> QED  BY <1>1 DEF ProcType

KeepsOne(q, qs) == \A l \in Levels \union {MoQ} : Holds(queue, l, q) => Holds(qs, l, q)
LEMMA OneQueued ==
    ASSUME BInv, NEW q \in Procs, Queued(q), KeepsOne(q, queue'), Stays(q),
           Wakes(q, proc'[q].state, queue') \/ proc'[q].state \notin Live
    PROVE  Queued(q)'
<1>1. proc[q].queue_level \in Levels \union {MoQ}  BY LevelIs
<1> DEFINE lv == proc[q].queue_level
<1>2. proc'[q].queue_level = lv  BY DEF Stays
<1>3. \A l \in Levels \union {MoQ} : Holds(queue, l, q) => Holds(queue', l, q)  BY DEF KeepsOne
<1>4. proc'[q].state = "RUNNABLE" => Holds(queue', lv, q)
  BY <1>1, <1>3 DEF Queued, Wakes, Live
<1>5. proc'[q].state \in Live /\ lv = MoQ => Holds(queue', MoQ, q)
  BY <1>1, <1>3 DEF Queued, Wakes, Live
<1> QED  BY <1>2, <1>4, <1>5 DEF Queued

LEMMA StillQueued ==
    ASSUME BInv, NEW q \in Procs, Queued(q), Keeps(queue'), Stays(q),
           Wakes(q, proc'[q].state, queue') \/ proc'[q].state \notin Live
    PROVE  Queued(q)'
<1>1. KeepsOne(q, queue')  BY DEF Keeps, KeepsOne
<1> QED  BY <1>1, OneQueued

(* The steps that leave the processors alone.                               *)
Remains ==
    /\ cpu' = cpu /\ proc' \in [Procs -> ProcType] /\ Queues(queue') /\ Keeps(queue')
    /\ \A q \in Procs :
          /\ Stays(q)
          /\ proc[q].boosts => proc'[q].boosts
          /\ \/ proc'[q].at = proc[q].at /\ proc'[q].np = proc[q].np
             \/ proc'[q].at # "fork"
          /\ \/ Wakes(q, proc'[q].state, queue')
             \/ proc[q].state = "ZOMBIE" /\ proc'[q].state = "UNUSED"

LEMMA StaysMoves ==
    ASSUME NEW p \in Procs, Stays(p)
    PROVE  MayMove(p)
BY DEF Stays, MayMove

LEMMA StillKept ==
    ASSUME BInv, Kept, cpu' = cpu, Keeps(queue'), \A q \in Procs : Stays(q)
    PROVE  Kept'
<1> SUFFICES ASSUME NEW c \in CPUs, cpu[c].p \in Procs, cpu[c].from \in {3, MoQ}
             PROVE  Holds(queue', proc'[cpu[c].p].queue_level, cpu[c].p)
  BY DEF Kept
<1> DEFINE p == cpu[c].p
<1>1. Holds(queue, proc[p].queue_level, p)  BY DEF Kept
<1>2. proc[p].queue_level \in Levels \union {MoQ}  BY LevelIs
<1> QED  BY <1>1, <1>2 DEF Keeps, Stays

LEMMA Remained ==
    ASSUME BInv, Remains, Rest'
    PROVE  Outcome
<1>1. \A q \in Procs : /\ proc'[q].state = proc[q].state \/ proc[q].state \notin {"RUNNING", "EMBRYO"}
                       /\ \/ proc'[q].at = proc[q].at /\ proc'[q].np = proc[q].np
                          \/ proc'[q].at # "fork"
  BY DEF Remains, Wakes
<1>2. Places'
  <2>1. Types /\ Places /\ cpu' = cpu  BY DEF BInv, Remains
  <2> QED  BY <1>1, <2>1, NoForkStarts
<1>3. Types' /\ Queues(queue')  BY DEF Remains, BInv, Types
<1>4. Moves  BY StaysMoves DEF Moves, Remains
<1>5. Plain  BY DEF Plain, Remains, Wakes, Starts
<1>6. ASSUME QInv PROVE QInv'
  <2>1. \A q \in Procs : Wakes(q, proc'[q].state, queue') \/ proc'[q].state \notin Live
    BY DEF Remains, Live
  <2>2. \A q \in Procs : Queued(q)'
    BY <1>6, <2>1, StillQueued DEF Remains, QInv
  <2>3. Kept'  BY <1>6, StillKept DEF Remains, QInv
  <2> QED  BY <2>2, <2>3 DEF QInv
<1> QED  BY <1>2, <1>3, <1>4, <1>5, <1>6, PlainOutcome DEF BInv

LEMMA Awoken ==
    ASSUME proc \in [Procs -> ProcType], NEW W, W \subseteq Procs,
           \A q \in W : proc[q].state = "SLEEPING"
    PROVE  /\ Awake(W) \in [Procs -> ProcType]
           /\ \A q \in Procs :
                 /\ Awake(W)[q].state = IF q \in W THEN "RUNNABLE" ELSE proc[q].state
                 /\ q \notin W => Awake(W)[q] = proc[q]
                 /\ Awake(W)[q].at = proc[q].at /\ Awake(W)[q].np = proc[q].np
                 /\ Awake(W)[q].queue_level = proc[q].queue_level
                 /\ Awake(W)[q].pid = proc[q].pid /\ Awake(W)[q].boosts = proc[q].boosts
<1>1. ASSUME NEW q \in Procs
      PROVE  /\ Awake(W)[q] \in ProcType
             /\ Awake(W)[q].state = IF q \in W THEN "RUNNABLE" ELSE proc[q].state
             /\ q \notin W => Awake(W)[q] = proc[q]
             /\ Awake(W)[q].at = proc[q].at /\ Awake(W)[q].np = proc[q].np
             /\ Awake(W)[q].queue_level = proc[q].queue_level
             /\ Awake(W)[q].pid = proc[q].pid /\ Awake(W)[q].boosts = proc[q].boosts
  <2>1. proc[q] \in ProcType  OBVIOUS
  <2>2. CASE q \in W
    <3>1. Awake(W)[q] = [proc[q] EXCEPT !.state = "RUNNABLE"]  BY <2>2 DEF Awake
    <3> QED  BY <2>1, <2>2, <3>1 DEF ProcType
  <2>3. CASE q \notin W  BY <2>1, <2>3 DEF Awake
  <2> QED  BY <2>2, <2>3
<1>2. Awake(W) = [q \in Procs |-> Awake(W)[q]]  BY DEF Awake
<1>3. Awake(W) \in [Procs -> ProcType]  BY <1>1, <1>2
<1> QED  BY <1>1, <1>3

(* wakeup1 and kill put whom they wake into the queue of its level.         *)
LEMMA Requeued ==
    ASSUME BInv, NEW W, W \subseteq Procs, \A q \in W : proc[q].state = "SLEEPING"
    PROVE  /\ Queues(Enqueue(queue, W)) /\ Keeps(Enqueue(queue, W))
           /\ \A q \in Procs : \A state :
                 state = (IF q \in W THEN "RUNNABLE" ELSE proc[q].state)
                 => Wakes(q, state, Enqueue(queue, W))
<1> DEFINE qs == Enqueue(queue, W)
<1>1. /\ Queues(qs)
      /\ \A l \in Levels \union {MoQ} : \A x : Holds(qs, l, x) <=>
            \/ Holds(queue, l, x)
            \/ l \in Levels /\ x \in W /\ proc[x].queue_level = l
  BY Enqueued DEF BInv
<1> HIDE DEF qs
<1>2. \A q \in W : proc[q].queue_level \in Levels => Holds(qs, proc[q].queue_level, q)
  BY <1>1
<1> QED  BY <1>1, <1>2 DEF Keeps, Wakes, qs

-----------------------------------------------------------------------------
LEMMA RestKept ==
    ASSUME BInv, nextpid' = nextpid, panic' = panic, is_monopolized' \in BOOLEAN,
           ticks' = ticks \/ ticks' = 0
    PROVE  Rest'
<1>1. 0 \in 0 .. BoostPeriod - 1  BY MlfqAssumption
<1> QED  BY <1>1 DEF Rest, BInv, Types

LEMMA RestSame ==
    ASSUME BInv, UNCHANGED <<nextpid, is_monopolized, ticks, panic>>
    PROVE  Rest'
BY DEF Rest, BInv, Types

LEMMA SameRemains ==
    ASSUME BInv, UNCHANGED <<proc, queue, cpu>>
    PROVE  Remains
BY DEF Remains, BInv, Types, Keeps, Stays, Wakes

LEMMA MonopolyStep ==
    ASSUME BInv, NEW c \in CPUs, NEW p,
           MoqOver(c) \/ monopolize(c, p) \/ unmonopolize(c, p)
    PROVE  Outcome
<1>1. UNCHANGED <<proc, queue, cpu>>  BY DEF MoqOver, monopolize, unmonopolize
<1>2. Rest'
  <2>1. is_monopolized \in BOOLEAN  BY DEF BInv, Types, Rest
  <2> QED  BY <2>1, RestKept DEF MoqOver, monopolize, unmonopolize
<1> QED  BY <1>1, <1>2, SameRemains, Remained

LEMMA SleepersAre ==
    ASSUME NEW chan
    PROVE  Sleepers(chan) \subseteq Procs /\ \A q \in Sleepers(chan) : proc[q].state = "SLEEPING"
BY DEF Sleepers, Asleep

LEMMA InterruptStep ==
    ASSUME BInv, NEW c \in CPUs, Interrupt(c)
    PROVE  Outcome
<1> DEFINE W == Sleepers("io")
<1>1. proc' = Awake(W) /\ queue' = Enqueue(queue, W)
      /\ UNCHANGED <<cpu, nextpid, is_monopolized, ticks, panic>>
  BY DEF Interrupt
<1>2. W \subseteq Procs /\ \A q \in W : proc[q].state = "SLEEPING"  BY SleepersAre
<1> HIDE DEF W
<1>3. proc \in [Procs -> ProcType]  BY DEF BInv, Types
<1>4. /\ proc' \in [Procs -> ProcType]
      /\ \A q \in Procs :
            /\ proc'[q].state = IF q \in W THEN "RUNNABLE" ELSE proc[q].state
            /\ proc'[q].at = proc[q].at /\ proc'[q].np = proc[q].np
            /\ proc'[q].boosts = proc[q].boosts /\ Stays(q)
  BY <1>1, <1>2, <1>3, Awoken DEF Stays
<1>5. Queues(queue') /\ Keeps(queue')  BY <1>1, <1>2, Requeued
<1>6. \A q \in Procs : Wakes(q, proc'[q].state, queue')  BY <1>1, <1>2, <1>4, Requeued
<1>7. Remains  BY <1>1, <1>4, <1>5, <1>6 DEF Remains
<1> QED  BY <1>1, <1>7, RestSame, Remained

LEMMA SetpriorityStep ==
    ASSUME BInv, NEW c \in CPUs, NEW p \in Procs, NEW n, NEW priority \in 0 .. MaxPriority,
           setpriority(c, p, n, priority)
    PROVE  Outcome
<1>1. PICK r \in Procs : proc' = [proc EXCEPT ![r].priority = priority]  BY DEF setpriority
<1>2. UNCHANGED <<queue, cpu, nextpid, is_monopolized, ticks, panic>>  BY DEF setpriority
<1>3. proc \in [Procs -> ProcType] /\ proc[r] \in ProcType  BY DEF BInv, Types
<1> DEFINE a == [proc[r] EXCEPT !.priority = priority]
<1>4. /\ a \in ProcType /\ a.at = proc[r].at /\ a.np = proc[r].np /\ a.state = proc[r].state
      /\ a.queue_level = proc[r].queue_level /\ a.boosts = proc[r].boosts
  BY <1>3 DEF ProcType
<1>5. proc' = [proc EXCEPT ![r] = a]  BY <1>1
<1> HIDE DEF a
<1>6. /\ proc' \in [Procs -> ProcType]
      /\ \A q \in Procs : proc'[q] = IF q = r THEN a ELSE proc[q]
  BY <1>3, <1>4, <1>5, SetOne
<1>7. \A q \in Procs : /\ Stays(q) /\ proc'[q].state = proc[q].state
                       /\ proc'[q].at = proc[q].at /\ proc'[q].np = proc[q].np
                       /\ proc'[q].boosts = proc[q].boosts
  BY <1>4, <1>6 DEF Stays
<1>8. Keeps(queue') /\ Queues(queue')  BY <1>2 DEF Keeps, BInv
<1>9. Remains  BY <1>2, <1>6, <1>7, <1>8 DEF Remains, Wakes
<1> QED  BY <1>2, <1>9, RestSame, Remained

(* A kill wakes at most the process it marks.                               *)
LEMMA KillStep ==
    ASSUME BInv, NEW c \in CPUs, NEW p \in Procs, NEW n, Kill(c, p, n)
    PROVE  Outcome
<1>1. PICK r \in Procs :
        LET woken == {s \in {r} : proc[s].state = "SLEEPING"}
        IN /\ proc' = [Awake(woken) EXCEPT ![r].killed = TRUE]
           /\ queue' = Enqueue(queue, woken)
  BY DEF Kill
<1>2. UNCHANGED <<cpu, nextpid, is_monopolized, ticks, panic>>  BY DEF Kill
<1> DEFINE W == {s \in {r} : proc[s].state = "SLEEPING"}
<1> DEFINE pr == Awake(W)
<1>3. proc' = [pr EXCEPT ![r].killed = TRUE] /\ queue' = Enqueue(queue, W)  BY <1>1
<1>4. W \subseteq Procs /\ \A q \in W : proc[q].state = "SLEEPING"  OBVIOUS
<1> HIDE DEF W
<1>5. proc \in [Procs -> ProcType]  BY DEF BInv, Types
<1>6. pr \in [Procs -> ProcType] /\ \A q \in Procs :
          /\ pr[q].state = IF q \in W THEN "RUNNABLE" ELSE proc[q].state
          /\ pr[q].at = proc[q].at /\ pr[q].np = proc[q].np
          /\ pr[q].queue_level = proc[q].queue_level /\ pr[q].boosts = proc[q].boosts
  BY <1>4, <1>5, Awoken
<1> HIDE DEF pr
<1> DEFINE a == [pr[r] EXCEPT !.killed = TRUE]
<1>7. /\ a \in ProcType /\ a.at = pr[r].at /\ a.np = pr[r].np /\ a.state = pr[r].state
      /\ a.queue_level = pr[r].queue_level /\ a.boosts = pr[r].boosts
  <2>1. pr[r] \in ProcType  BY <1>6
  <2> QED  BY <2>1 DEF ProcType
<1>8. proc' = [pr EXCEPT ![r] = a]  BY <1>3
<1> HIDE DEF a
<1>9. /\ proc' \in [Procs -> ProcType]
      /\ \A q \in Procs : proc'[q] = IF q = r THEN a ELSE pr[q]
  BY <1>6, <1>7, <1>8, SetOne
<1>10. \A q \in Procs : /\ Stays(q) /\ proc'[q].at = proc[q].at /\ proc'[q].np = proc[q].np
                        /\ proc'[q].boosts = proc[q].boosts
                        /\ proc'[q].state = IF q \in W THEN "RUNNABLE" ELSE proc[q].state
  BY <1>6, <1>7, <1>9 DEF Stays
<1>11. Queues(queue') /\ Keeps(queue')  BY <1>3, <1>4, Requeued
<1>12. \A q \in Procs : Wakes(q, proc'[q].state, queue')  BY <1>3, <1>4, <1>10, Requeued
<1>13. Remains  BY <1>2, <1>9, <1>10, <1>11, <1>12 DEF Remains
<1> QED  BY <1>2, <1>13, RestSame, Remained

-----------------------------------------------------------------------------
(* p gives c up, leaving the table pr and the queues qs to the scheduler.   *)
Leaves(c, p, pr, qs) ==
    /\ cpu[c].p = p /\ BackIn(c, pr, qs)
    /\ pr \in [Procs -> ProcType] /\ Queues(qs) /\ Keeps(qs)
    /\ \A q \in Procs :
          /\ pr[q].np = proc[q].np /\ pr[q].queue_level = proc[q].queue_level
          /\ pr[q].pid = proc[q].pid /\ (proc[q].boosts => pr[q].boosts)
    /\ \A q \in Procs \ {p} : pr[q].at = proc[q].at /\ Wakes(q, pr[q].state, qs)
    /\ pr[p].state \in {"RUNNABLE", "SLEEPING", "ZOMBIE"}
    /\ pr[p].at = proc[p].at \/ pr[p].at # "fork"

LEMMA Left ==
    ASSUME BInv, NEW c \in CPUs, NEW p \in Procs, NEW pr \in [Procs -> ProcType], NEW qs,
           Leaves(c, p, pr, qs), Rest'
    PROVE  Outcome
<1>1. cpu \in [CPUs -> Turns]  BY DEF BInv, Types
<1>2. /\ proc' \in [Procs -> ProcType] /\ Queues(queue')
      /\ TurnsTo(c, Idle) /\ cpu' \in [CPUs -> Turns]
      /\ \A q \in Procs \ {p} : proc'[q] = pr[q]
      /\ \A l \in Levels \union {MoQ} : \A x : Holds(qs, l, x) => Holds(queue', l, x)
      /\ proc'[p].state = pr[p].state
      /\ proc'[p].at = pr[p].at /\ proc'[p].np = pr[p].np /\ proc'[p].boosts = pr[p].boosts
      /\ IF cpu[c].from \in 0 .. 2 /\ pr[p].state = "RUNNABLE"
         THEN /\ proc'[p].queue_level \in {cpu[c].from, NextLevel(cpu[c].from, pr[p].pid)}
              /\ proc'[p].queue_level \in Levels
              /\ Holds(queue', proc'[p].queue_level, p)
         ELSE proc'[p].queue_level = pr[p].queue_level
  <2>1. Queues(qs) /\ BackIn(c, pr, qs) /\ cpu[c].p = p
    BY DEF Leaves
  <2>2. /\ proc' \in [Procs -> ProcType] /\ Queues(queue')
        /\ TurnsTo(c, Idle) /\ cpu' \in [CPUs -> Turns]
        /\ \A q \in Procs \ {p} : proc'[q] = pr[q]
        /\ proc'[p].state = pr[p].state
        /\ proc'[p].at = pr[p].at /\ proc'[p].np = pr[p].np /\ proc'[p].boosts = pr[p].boosts
        /\ IF cpu[c].from \in 0 .. 2 /\ pr[p].state = "RUNNABLE"
           THEN /\ proc'[p].queue_level \in {cpu[c].from, NextLevel(cpu[c].from, pr[p].pid)}
                /\ proc'[p].queue_level \in Levels
                /\ Holds(queue', proc'[p].queue_level, p)
           ELSE proc'[p].queue_level = pr[p].queue_level
    BY <1>1, <2>1, Back
  <2>3. \A l \in Levels \union {MoQ} : \A x : Holds(qs, l, x) => Holds(queue', l, x)
    BY <1>1, <2>1, Back
  <2> QED  BY <2>2, <2>3
<1>3. \A q \in Procs \ {p} : Still(q) /\ Stays(q) /\ Wakes(q, proc'[q].state, queue')
  <2>1. ASSUME NEW q \in Procs \ {p} PROVE Still(q) /\ Stays(q)
    BY <1>2 DEF Leaves, Still, Stays, Wakes
  <2>2. ASSUME NEW q \in Procs \ {p} PROVE Wakes(q, proc'[q].state, queue')
    <3>1. Wakes(q, pr[q].state, qs) /\ proc'[q] = pr[q]  BY <1>2 DEF Leaves
    <3> QED  BY <1>2, <3>1 DEF Wakes
  <2> QED  BY <2>1, <2>2
<1>4. Places'
  <2>1. Types /\ Places /\ cpu[c].p = p  BY DEF BInv, Leaves
  <2>2. proc'[p].at = proc[p].at \/ proc'[p].at # "fork"  BY <1>2 DEF Leaves
  <2>3. proc'[p].np = proc[p].np  BY <1>2 DEF Leaves
  <2> QED  BY <1>2, <1>3, <2>1, <2>2, <2>3, OneLeaves
<1>5. MayMove(p)
  <2>1. CASE cpu[c].from \in 0 .. 2 /\ pr[p].state = "RUNNABLE"
    <3> DEFINE old == proc[p].queue_level
    <3> DEFINE new == proc'[p].queue_level
    <3> SUFFICES ASSUME InPlace(p), new # old
                 PROVE  \/ new = 3 /\ old \in {1, 2}
                        \/ old = 0 /\ new = (IF proc[p].pid % 2 = 1 THEN 1 ELSE 2)
      BY DEF MayMove
    <3>1. cpu[c].from = old  BY DEF InPlace, Leaves
    <3>2. new = NextLevel(old, proc[p].pid)  BY <1>2, <2>1, <3>1 DEF Leaves
    <3>3. old = 0 \/ old = 1 \/ old = 2  BY <2>1, <3>1
    <3> HIDE DEF old, new
    <3> QED  BY <3>2, <3>3 DEF NextLevel
  <2>2. CASE ~(cpu[c].from \in 0 .. 2 /\ pr[p].state = "RUNNABLE")
    BY <1>2, <2>2, StaysMoves DEF Stays, Leaves
  <2> QED  BY <2>1, <2>2
<1>6. Moves  BY <1>3, <1>5, StaysMoves DEF Moves
<1>7. BInv'  BY <1>2, <1>4 DEF Types, BInv
<1>8. Plain
  <2>1. ASSUME NEW q \in Procs PROVE ~Starts(q)
    <3>1. CASE q = p  BY <1>2, <3>1 DEF Leaves, Starts
    <3>2. CASE q # p  BY <1>3, <3>2 DEF Wakes, Starts
    <3> QED  BY <3>1, <3>2
  <2>2. \A q \in Procs : proc[q].boosts => proc'[q].boosts  BY <1>2 DEF Leaves
  <2> QED  BY <2>1, <2>2 DEF Plain
<1>9. Keeps(queue')  BY <1>2 DEF Keeps, Leaves
<1>10. ASSUME QInv PROVE QInv'
  <2>1. \A q \in Procs \ {p} : Queued(q)'  BY <1>3, <1>9, <1>10, StillQueued DEF QInv
  <2>2. /\ proc[p].queue_level \in Levels \union {MoQ} /\ proc[p].state = "RUNNING"
        /\ cpu[c].from \in Levels \union {MoQ}
    <3>1. cpu[c].p = p  BY DEF Leaves
    <3> QED  BY <1>1, <3>1, LevelIs, RunnerIs DEF Turns
  <2>3. Queued(p)'
    <3>1. CASE cpu[c].from \in 0 .. 2 /\ pr[p].state = "RUNNABLE"
      BY <1>2, <3>1, Constants DEF Queued
    <3>2. CASE ~(cpu[c].from \in 0 .. 2 /\ pr[p].state = "RUNNABLE")
      <4>1. proc'[p].queue_level = proc[p].queue_level  BY <1>2, <3>2 DEF Leaves
      <4>2. ASSUME proc'[p].state = "RUNNABLE" PROVE Holds(queue', proc[p].queue_level, p)
        <5>1. cpu[c].from \in {3, MoQ}  BY <1>2, <2>2, <3>2, <4>2 DEF Levels
        <5>2. Holds(queue, proc[p].queue_level, p)
          BY <1>10, <5>1 DEF QInv, Kept, Leaves
        <5> QED  BY <1>9, <2>2, <5>2 DEF Keeps
      <4>3. ASSUME proc[p].queue_level = MoQ PROVE Holds(queue', MoQ, p)
        <5>1. Holds(queue, MoQ, p)  BY <1>10, <2>2, <4>3 DEF QInv, Queued, Live
        <5> QED  BY <1>9, <5>1 DEF Keeps
      <4> QED  BY <4>1, <4>2, <4>3 DEF Queued
    <3> QED  BY <3>1, <3>2
  <2>4. Kept'
    <3> SUFFICES ASSUME NEW d \in CPUs, cpu'[d].p \in Procs, cpu'[d].from \in {3, MoQ}
                 PROVE  Holds(queue', proc'[cpu'[d].p].queue_level, cpu'[d].p)
      BY DEF Kept
    <3> DEFINE q == cpu[d].p
    <3>1. d # c /\ cpu'[d] = cpu[d]  BY <1>1, <1>2, Constants, TurnsToIs
    <3>2. q # p  BY <3>1 DEF BInv, Places, CpuOne, Leaves
    <3>3. Stays(q)  BY <1>3, <3>1, <3>2
    <3>4. Holds(queue, proc[q].queue_level, q)  BY <1>10, <3>1 DEF QInv, Kept
    <3>5. proc[q].queue_level \in Levels \union {MoQ}  BY <3>1, LevelIs
    <3> QED  BY <1>9, <3>1, <3>3, <3>4, <3>5 DEF Keeps, Stays
  <2> QED  BY <2>1, <2>3, <2>4 DEF QInv
<1> QED  BY <1>6, <1>7, <1>8, <1>10, PlainOutcome

LEMMA YieldStep ==
    ASSUME BInv, NEW c \in CPUs, NEW p \in Procs, Yield(c, p)
    PROVE  Outcome
<1> DEFINE pr == [proc EXCEPT ![p].state = "RUNNABLE"]
<1>1. proc \in [Procs -> ProcType] /\ proc[p] \in ProcType  BY DEF BInv, Types
<1>2. BackIn(c, pr, queue) /\ cpu[c].p = p /\ UNCHANGED <<nextpid, is_monopolized, ticks, panic>>
  BY DEF Yield, Enters, InUser, Runs
<1>3. pr \in [Procs -> ProcType]  BY <1>1 DEF ProcType
<1>4. /\ \A q \in Procs \ {p} : pr[q] = proc[q]
      /\ pr[p].at = proc[p].at /\ pr[p].np = proc[p].np /\ pr[p].boosts = proc[p].boosts
      /\ pr[p].queue_level = proc[p].queue_level /\ pr[p].pid = proc[p].pid
      /\ pr[p].state = "RUNNABLE"
  BY <1>1 DEF ProcType
<1> HIDE DEF pr
<1>5. Leaves(c, p, pr, queue)  BY <1>2, <1>3, <1>4 DEF Leaves, BInv, Keeps, Wakes
<1> QED  BY <1>2, <1>3, <1>5, RestSame, Left

LEMMA SleepStep ==
    ASSUME BInv, NEW c \in CPUs, NEW p \in Procs, NEW chan \in Chans, Sleep(c, p, chan)
    PROVE  Outcome
<1> DEFINE pr == [proc EXCEPT ![p].state = "SLEEPING", ![p].chan = chan]
<1>1. proc \in [Procs -> ProcType] /\ proc[p] \in ProcType  BY DEF BInv, Types
<1>2. BackIn(c, pr, queue) /\ cpu[c].p = p /\ UNCHANGED <<nextpid, is_monopolized, ticks, panic>>
  BY DEF Sleep, Enters, InUser, Runs
<1>3. pr \in [Procs -> ProcType]  BY <1>1 DEF ProcType
<1>4. /\ \A q \in Procs \ {p} : pr[q] = proc[q]
      /\ pr[p].at = proc[p].at /\ pr[p].np = proc[p].np /\ pr[p].boosts = proc[p].boosts
      /\ pr[p].queue_level = proc[p].queue_level /\ pr[p].pid = proc[p].pid
      /\ pr[p].state = "SLEEPING"
  BY <1>1 DEF ProcType
<1> HIDE DEF pr
<1>5. Leaves(c, p, pr, queue)  BY <1>2, <1>3, <1>4 DEF Leaves, BInv, Keeps, Wakes
<1> QED  BY <1>2, <1>3, <1>5, RestSame, Left

LEMMA TimerStep ==
    ASSUME BInv, NEW c \in CPUs, Timer(c)
    PROVE  Outcome
<1> DEFINE p == cpu[c].p
<1> DEFINE W == IF c = 0 THEN Sleepers("ticks") ELSE {}
<1> DEFINE pr == Awake(W)
<1> DEFINE qs == Enqueue(queue, W)
<1> DEFINE dying == proc[p].killed /\ proc[p].at = "user"
<1> DEFINE used == IF pr[p].ticks < MaxTicks THEN pr[p].ticks + 1 ELSE MaxTicks
<1> DEFINE charge == [pr EXCEPT ![p].ticks = used]
<1> DEFINE boosting == [pr EXCEPT ![p].state = "RUNNABLE", ![p].boosts = TRUE]
<1> DEFINE spending == [charge EXCEPT ![p].state = "RUNNABLE", ![p].boosts = FALSE]
<1>1. \/ proc' = pr /\ queue' = qs /\ UNCHANGED cpu
      \/ cpu[c] # Idle /\ BackIn(c, boosting, qs)
      \/ cpu[c] # Idle /\ BackIn(c, spending, qs)
      \/ cpu[c] # Idle /\ proc' = charge /\ queue' = qs /\ UNCHANGED cpu
  BY DEF Timer
<1>2. Rest'
  <2>1. /\ ticks' = IF c = 0 THEN (ticks + 1) % BoostPeriod ELSE ticks
        /\ UNCHANGED <<nextpid, is_monopolized, panic>>
    BY DEF Timer
  <2>2. Rest /\ BoostPeriod \in Nat \ {0}  BY MlfqAssumption DEF BInv, Types
  <2>3. ticks \in 0 .. BoostPeriod - 1  BY <2>2 DEF Rest
  <2>4. ticks \in Int /\ (ticks + 1) % BoostPeriod \in 0 .. BoostPeriod - 1  BY <2>2, <2>3
  <2>5. ticks' \in 0 .. BoostPeriod - 1  BY <2>1, <2>3, <2>4
  <2> QED  BY <2>1, <2>2, <2>5 DEF Rest
<1>3. W \subseteq Procs /\ \A q \in W : proc[q].state = "SLEEPING"  BY SleepersAre
<1>4. cpu[c] # Idle => p \in Procs  BY DEF BInv, Places, CpuOK
<1> HIDE DEF W, p
<1>5. proc \in [Procs -> ProcType]  BY DEF BInv, Types
<1>6. pr \in [Procs -> ProcType] /\ \A q \in Procs :
          /\ pr[q].state = IF q \in W THEN "RUNNABLE" ELSE proc[q].state
          /\ pr[q].at = proc[q].at /\ pr[q].np = proc[q].np
          /\ pr[q].queue_level = proc[q].queue_level
          /\ pr[q].pid = proc[q].pid /\ pr[q].boosts = proc[q].boosts
  BY <1>3, <1>5, Awoken
<1>7. Queues(qs) /\ Keeps(qs) /\ \A q \in Procs : Wakes(q, pr[q].state, qs)
  BY <1>3, <1>6, Requeued
<1> HIDE DEF pr, qs
<1>8. CASE proc' = pr /\ queue' = qs /\ UNCHANGED cpu
  <2>1. Remains  BY <1>6, <1>7, <1>8 DEF Remains, Stays
  <2> QED  BY <1>2, <2>1, Remained
<1>9. ASSUME cpu[c] # Idle
      PROVE  /\ charge \in [Procs -> ProcType] /\ boosting \in [Procs -> ProcType]
             /\ spending \in [Procs -> ProcType]
             /\ \A q \in Procs :
                   /\ charge[q].np = pr[q].np /\ charge[q].queue_level = pr[q].queue_level
                   /\ charge[q].pid = pr[q].pid /\ charge[q].at = pr[q].at
                   /\ charge[q].state = pr[q].state /\ charge[q].boosts = pr[q].boosts
                   /\ boosting[q].np = pr[q].np /\ boosting[q].queue_level = pr[q].queue_level
                   /\ boosting[q].pid = pr[q].pid /\ boosting[q].at = pr[q].at
                   /\ spending[q].np = pr[q].np /\ spending[q].queue_level = pr[q].queue_level
                   /\ spending[q].pid = pr[q].pid /\ spending[q].at = pr[q].at
                   /\ q # p => /\ boosting[q] = pr[q] /\ spending[q] = pr[q]
             /\ boosting[p].state = "RUNNABLE" /\ spending[p].state = "RUNNABLE"
  <2>1. p \in Procs /\ pr[p] \in ProcType  BY <1>4, <1>6, <1>9
  <2>2. used \in 0 .. MaxTicks
    <3>1. pr[p].ticks \in 0 .. MaxTicks /\ MaxTicks \in Nat  BY <2>1, MlfqAssumption DEF ProcType
    <3> QED  BY <3>1
  <2> HIDE DEF used
  <2> DEFINE a == [pr[p] EXCEPT !.ticks = used]
  <2> DEFINE b == [pr[p] EXCEPT !.state = "RUNNABLE", !.boosts = TRUE]
  <2> DEFINE e == [a EXCEPT !.state = "RUNNABLE", !.boosts = FALSE]
  <2>3. /\ a \in ProcType /\ a.np = pr[p].np /\ a.queue_level = pr[p].queue_level
        /\ a.pid = pr[p].pid /\ a.at = pr[p].at /\ a.state = pr[p].state
        /\ a.boosts = pr[p].boosts
    BY <2>1, <2>2 DEF ProcType
  <2>4. /\ b \in ProcType /\ b.np = pr[p].np /\ b.queue_level = pr[p].queue_level
        /\ b.pid = pr[p].pid /\ b.at = pr[p].at /\ b.state = "RUNNABLE"
    BY <2>1 DEF ProcType
  <2> HIDE DEF a
  <2>5. /\ e \in ProcType /\ e.np = a.np /\ e.queue_level = a.queue_level
        /\ e.pid = a.pid /\ e.at = a.at /\ e.state = "RUNNABLE"
    BY <2>3 DEF ProcType
  <2>6. charge = [pr EXCEPT ![p] = a] /\ boosting = [pr EXCEPT ![p] = b]
    BY DEF a
  <2>7. spending = [pr EXCEPT ![p] = e]
    <3>1. charge[p] = a  BY <1>6, <2>1, <2>6
    <3>2. spending = [charge EXCEPT ![p] = [charge[p] EXCEPT !.state = "RUNNABLE", !.boosts = FALSE]]
      OBVIOUS
    <3> HIDE DEF charge, spending
    <3>3. spending = [charge EXCEPT ![p] = e]  BY <3>1, <3>2
    <3> HIDE DEF e
    <3> QED  BY <1>6, <2>6, <3>3
  <2> HIDE DEF b, e, charge, boosting, spending
  <2>8. ASSUME NEW f, NEW x \in ProcType, f = [pr EXCEPT ![p] = x]
        PROVE  f \in [Procs -> ProcType] /\ f[p] = x /\ \A q \in Procs : q # p => f[q] = pr[q]
    BY <1>6, <2>1, <2>8
  <2>9. charge \in [Procs -> ProcType] /\ charge[p] = a /\ \A q \in Procs : q # p => charge[q] = pr[q]
    BY <2>3, <2>6, <2>8
  <2>10. boosting \in [Procs -> ProcType] /\ boosting[p] = b
         /\ \A q \in Procs : q # p => boosting[q] = pr[q]
    BY <2>4, <2>6, <2>8
  <2>11. spending \in [Procs -> ProcType] /\ spending[p] = e
         /\ \A q \in Procs : q # p => spending[q] = pr[q]
    BY <2>5, <2>7, <2>8
  <2> QED  BY <2>3, <2>4, <2>5, <2>9, <2>10, <2>11
<1> HIDE DEF charge, boosting, spending
<1>10. CASE cpu[c] # Idle /\ proc' = charge /\ queue' = qs /\ UNCHANGED cpu
  <2>1. Remains  BY <1>6, <1>7, <1>9, <1>10 DEF Remains, Stays
  <2> QED  BY <1>2, <2>1, Remained
<1>11. cpu[c] # Idle => p \in Procs /\ cpu[c].p = p /\ ~proc[p].boosts
  BY <1>4 DEF p, Timer, Interruptible
<1>12. ASSUME cpu[c] # Idle, NEW f \in [Procs -> ProcType], f \in {boosting, spending},
              BackIn(c, f, qs)
       PROVE  Outcome
  <2>1. \A q \in Procs : /\ f[q].np = pr[q].np /\ f[q].queue_level = pr[q].queue_level
                         /\ f[q].pid = pr[q].pid /\ f[q].at = pr[q].at
                         /\ q # p => f[q] = pr[q]
    BY <1>9, <1>12
  <2>2. f[p].state = "RUNNABLE"  BY <1>9, <1>12
  <2>3. Leaves(c, p, f, qs)  BY <1>6, <1>7, <1>11, <1>12, <2>1, <2>2 DEF Leaves
  <2> QED  BY <1>2, <1>11, <1>12, <2>3, Left
<1>13. cpu[c] # Idle => boosting \in [Procs -> ProcType] /\ spending \in [Procs -> ProcType]
  BY <1>9
<1>14. CASE cpu[c] # Idle /\ BackIn(c, boosting, qs)  BY <1>12, <1>13, <1>14
<1>15. CASE cpu[c] # Idle /\ BackIn(c, spending, qs)  BY <1>12, <1>13, <1>15
<1> QED  BY <1>1, <1>8, <1>10, <1>14, <1>15
(* What an exit hands to the scheduler: the table and queues with those it  *)
(* wakes.                                                                   *)
LEMMA ExitIs ==
    ASSUME BInv, NEW c \in CPUs, NEW p \in Procs, Exit(c, p), p # InitProc
    PROVE  \E pr \in [Procs -> ProcType], W \in SUBSET Procs, V \in SUBSET Procs :
              /\ BackIn(c, pr, Enqueue(Enqueue(queue, W), V))
              /\ \A q \in W \union V : proc[q].state = "SLEEPING" /\ q # p
              /\ pr[p].state = "ZOMBIE"
              /\ \A q \in Procs :
                    /\ pr[q].np = proc[q].np /\ pr[q].queue_level = proc[q].queue_level
                    /\ pr[q].pid = proc[q].pid /\ pr[q].at = proc[q].at /\ pr[q].boosts = proc[q].boosts
                    /\ q # p => pr[q].state = IF q \in W \union V THEN "RUNNABLE" ELSE proc[q].state
<1> DEFINE orphans == {r \in Procs : proc[r].parent = p}
<1> DEFINE adopts  == \E r \in orphans : proc[r].state = "ZOMBIE"
<1> DEFINE W       == Sleepers("self") \cap {proc[p].parent}
<1> DEFINE V       == IF adopts THEN Sleepers("self") \cap ({InitProc} \ W) ELSE {}
<1> DEFINE awake   == Awake(W \union V)
<1> DEFINE pr == [r \in Procs |-> [awake[r] EXCEPT
                                      !.parent = IF r \in orphans THEN InitProc ELSE @,
                                      !.state = IF r = p THEN "ZOMBIE" ELSE @]]
<1>1. BackIn(c, pr, Enqueue(Enqueue(queue, W), V)) /\ cpu[c].p = p
  BY DEF Exit, InUser, Runs
<1>2. proc[p] \in ProcType /\ proc \in [Procs -> ProcType] /\ proc[p].state = "RUNNING"
  BY <1>1, RunnerIs
<1>3. /\ W \subseteq Procs /\ V \subseteq Procs
      /\ \A q \in W \union V : proc[q].state = "SLEEPING"
  BY SleepersAre
<1>4. \A q \in W \union V : q # p  BY <1>2, <1>3
<1> HIDE DEF W, V
<1>5. awake \in [Procs -> ProcType] /\ \A q \in Procs :
          /\ awake[q].state = IF q \in W \union V THEN "RUNNABLE" ELSE proc[q].state
          /\ awake[q].at = proc[q].at /\ awake[q].np = proc[q].np
          /\ awake[q].queue_level = proc[q].queue_level
          /\ awake[q].pid = proc[q].pid /\ awake[q].boosts = proc[q].boosts
  BY <1>2, <1>3, Awoken
<1> HIDE DEF awake
<1>6. ASSUME NEW q \in Procs
      PROVE  /\ pr[q] \in ProcType
             /\ pr[q].np = awake[q].np /\ pr[q].queue_level = awake[q].queue_level
             /\ pr[q].pid = awake[q].pid /\ pr[q].at = awake[q].at
             /\ pr[q].boosts = awake[q].boosts
             /\ pr[q].state = IF q = p THEN "ZOMBIE" ELSE awake[q].state
  <2> DEFINE pa == IF q \in orphans THEN InitProc ELSE awake[q].parent
  <2> DEFINE st == IF q = p THEN "ZOMBIE" ELSE awake[q].state
  <2>1. awake[q] \in ProcType  BY <1>5
  <2>2. pr[q] = [awake[q] EXCEPT !.parent = pa, !.state = st]  OBVIOUS
  <2>3. pa \in Procs \union {NoProc}
        /\ st \in {"UNUSED", "EMBRYO", "SLEEPING", "RUNNABLE", "RUNNING", "ZOMBIE"}
    BY <2>1, Constants DEF ProcType
  <2> HIDE DEF pa, st, pr, orphans
  <2>4. pr[q] \in ProcType /\ pr[q].state = st  BY <2>1, <2>2, <2>3 DEF ProcType
  <2>5. pr[q].np = awake[q].np /\ pr[q].queue_level = awake[q].queue_level
        /\ pr[q].pid = awake[q].pid /\ pr[q].at = awake[q].at
             /\ pr[q].boosts = awake[q].boosts
    BY <2>1, <2>2 DEF ProcType
  <2> QED  BY <2>4, <2>5 DEF st
<1>7. pr = [q \in Procs |-> pr[q]]  OBVIOUS
<1> HIDE DEF pr
<1>8. pr \in [Procs -> ProcType]  BY <1>6, <1>7
<1>9. /\ pr[p].state = "ZOMBIE"
      /\ \A q \in Procs :
            /\ pr[q].np = proc[q].np /\ pr[q].queue_level = proc[q].queue_level
            /\ pr[q].pid = proc[q].pid /\ pr[q].at = proc[q].at /\ pr[q].boosts = proc[q].boosts
            /\ q # p => pr[q].state = IF q \in W \union V THEN "RUNNABLE" ELSE proc[q].state
  BY <1>5, <1>6
<1> QED  BY <1>1, <1>3, <1>4, <1>8, <1>9

LEMMA ExitStep ==
    ASSUME BInv, NEW c \in CPUs, NEW p \in Procs, Exit(c, p)
    PROVE  Outcome
<1>1. CASE p = InitProc
  <2>1. panic' = "init exiting" /\ UNCHANGED <<proc, queue, cpu, nextpid, is_monopolized, ticks>>
    BY <1>1 DEF Exit
  <2>2. Rest'  BY <2>1 DEF BInv, Types, Rest
  <2> QED  BY <2>1, <2>2, SameRemains, Remained
<1>2. CASE p # InitProc
  <2>1. PICK pr \in [Procs -> ProcType], W \in SUBSET Procs, V \in SUBSET Procs :
              /\ BackIn(c, pr, Enqueue(Enqueue(queue, W), V))
              /\ \A q \in W \union V : proc[q].state = "SLEEPING" /\ q # p
              /\ pr[p].state = "ZOMBIE"
              /\ \A q \in Procs :
                    /\ pr[q].np = proc[q].np /\ pr[q].queue_level = proc[q].queue_level
                    /\ pr[q].pid = proc[q].pid /\ pr[q].at = proc[q].at /\ pr[q].boosts = proc[q].boosts
                    /\ q # p => pr[q].state = IF q \in W \union V THEN "RUNNABLE" ELSE proc[q].state
    BY <1>2, ExitIs
  <2> DEFINE qs == Enqueue(queue, W)
  <2> DEFINE rs == Enqueue(qs, V)
  <2>2. /\ Queues(qs)
        /\ \A l \in Levels \union {MoQ} : \A x : Holds(qs, l, x) <=>
              \/ Holds(queue, l, x)
              \/ l \in Levels /\ x \in W /\ proc[x].queue_level = l
    BY Enqueued DEF BInv
  <2> HIDE DEF qs
  <2>3. /\ Queues(rs)
        /\ \A l \in Levels \union {MoQ} : \A x : Holds(rs, l, x) <=>
              \/ Holds(qs, l, x)
              \/ l \in Levels /\ x \in V /\ proc[x].queue_level = l
    BY <2>2, Enqueued
  <2> HIDE DEF rs
  <2>4. cpu[c].p = p  BY DEF Exit, InUser, Runs
  <2>5. Rest'
    <3>1. UNCHANGED <<nextpid, is_monopolized, ticks, panic>>  BY <1>2 DEF Exit
    <3> QED  BY <3>1, RestSame
  <2>6. BackIn(c, pr, rs)  BY <2>1 DEF rs, qs
  <2>7. Keeps(rs)  BY <2>2, <2>3 DEF Keeps
  <2>8. ASSUME NEW q \in Procs \ {p} PROVE Wakes(q, pr[q].state, rs)
    <3>1. q \in W \union V /\ proc[q].queue_level \in Levels => Holds(rs, proc[q].queue_level, q)
      BY <2>2, <2>3
    <3> QED  BY <2>1, <3>1 DEF Wakes
  <2>9. Leaves(c, p, pr, rs)  BY <2>1, <2>3, <2>4, <2>6, <2>7, <2>8 DEF Leaves
  <2> QED  BY <2>5, <2>9, Left
<1> QED  BY <1>1, <1>2

(* wait either returns, with a slot reaped or not, or goes to sleep again.  *)
WaitSleeps(c, p) ==
    BackIn(c, [proc EXCEPT ![p].at = "wait", ![p].chan = "self", ![p].state = "SLEEPING"], queue)

LEMMA WaitIs ==
    ASSUME BInv, NEW c \in CPUs, NEW p \in Procs, Wait(c, p)
    PROVE  /\ cpu[c].p = p /\ UNCHANGED <<nextpid, is_monopolized, ticks, panic>>
           /\ \/ WaitSleeps(c, p)
              \/ /\ UNCHANGED <<queue, cpu>> /\ proc' \in [Procs -> ProcType]
                 /\ \A q \in Procs :
                       /\ Stays(q)
                       /\ \/ proc'[q].state = proc[q].state
                          \/ proc[q].state = "ZOMBIE" /\ proc'[q].state = "UNUSED"
                       /\ proc'[q].boosts = proc[q].boosts
                       /\ \/ proc'[q].at = proc[q].at /\ proc'[q].np = proc[q].np
                          \/ proc'[q].at # "fork"
<1> DEFINE back == [proc EXCEPT ![p].at = "user"]
<1>1. cpu[c].p = p /\ UNCHANGED <<nextpid, is_monopolized, ticks, panic>>  BY DEF Wait
<1>2. \/ \E r \in Procs :
            /\ proc[r].state = "ZOMBIE"
            /\ proc' = [back EXCEPT ![r].state = "UNUSED", ![r].pid = 0,
                                    ![r].parent = NoProc, ![r].killed = FALSE]
            /\ UNCHANGED <<queue, cpu>>
      \/ proc' = back /\ UNCHANGED <<queue, cpu>>
      \/ WaitSleeps(c, p)
  BY DEF Wait, WaitSleeps
<1>3. proc[p] \in ProcType /\ proc \in [Procs -> ProcType] /\ proc[p].state = "RUNNING"
  BY <1>1, RunnerIs
<1> DEFINE a == [proc[p] EXCEPT !.at = "user"]
<1>4. a \in ProcType /\ a.at = "user" /\ a.state = proc[p].state
      /\ a.queue_level = proc[p].queue_level /\ a.boosts = proc[p].boosts
  BY <1>3 DEF ProcType
<1>5. back = [proc EXCEPT ![p] = a]  OBVIOUS
<1> HIDE DEF a, back
<1>6. back \in [Procs -> ProcType] /\ \A q \in Procs : back[q] = IF q = p THEN a ELSE proc[q]
  BY <1>3, <1>4, <1>5, SetOne
<1>7. CASE proc' = back /\ UNCHANGED <<queue, cpu>>
  BY <1>1, <1>4, <1>6, <1>7 DEF Stays
<1>8. ASSUME NEW r \in Procs, proc[r].state = "ZOMBIE", UNCHANGED <<queue, cpu>>,
             proc' = [back EXCEPT ![r].state = "UNUSED", ![r].pid = 0,
                                  ![r].parent = NoProc, ![r].killed = FALSE]
      PROVE  /\ proc' \in [Procs -> ProcType]
             /\ \A q \in Procs :
                   /\ Stays(q)
                   /\ \/ proc'[q].state = proc[q].state
                      \/ proc[q].state = "ZOMBIE" /\ proc'[q].state = "UNUSED"
                   /\ proc'[q].boosts = proc[q].boosts
                   /\ \/ proc'[q].at = proc[q].at /\ proc'[q].np = proc[q].np
                      \/ proc'[q].at # "fork"
  <2>1. r # p /\ back[r] \in ProcType /\ back[r] = proc[r]  BY <1>3, <1>6, <1>8
  <2> DEFINE b == [back[r] EXCEPT !.state = "UNUSED", !.pid = 0, !.parent = NoProc, !.killed = FALSE]
  <2>2. 0 \in 0 .. MaxPid  BY MlfqAssumption
  <2>3. /\ b \in ProcType /\ b.state = "UNUSED" /\ b.at = proc[r].at /\ b.np = proc[r].np
        /\ b.queue_level = proc[r].queue_level /\ b.boosts = proc[r].boosts
    BY <2>1, <2>2 DEF ProcType
  <2>4. proc' = [back EXCEPT ![r] = b]  BY <1>8
  <2> HIDE DEF b
  <2>5. proc' \in [Procs -> ProcType] /\ \A q \in Procs : proc'[q] = IF q = r THEN b ELSE back[q]
    BY <1>6, <2>3, <2>4, SetOne
  <2> QED  BY <1>4, <1>6, <1>8, <2>1, <2>3, <2>5 DEF Stays
<1> QED  BY <1>1, <1>2, <1>7, <1>8

LEMMA WaitStep ==
    ASSUME BInv, NEW c \in CPUs, NEW p \in Procs, Wait(c, p)
    PROVE  Outcome
<1>1. cpu[c].p = p /\ UNCHANGED <<nextpid, is_monopolized, ticks, panic>>  BY WaitIs
<1>2. Rest'  BY <1>1, RestSame
<1>3. CASE WaitSleeps(c, p)
  <2> DEFINE pr == [proc EXCEPT ![p].at = "wait", ![p].chan = "self", ![p].state = "SLEEPING"]
  <2>1. proc[p] \in ProcType /\ proc \in [Procs -> ProcType]  BY <1>1, RunnerIs
  <2>2. BackIn(c, pr, queue)  BY <1>3 DEF WaitSleeps
  <2>3. pr \in [Procs -> ProcType]  BY <2>1 DEF ProcType
  <2>4. /\ \A q \in Procs \ {p} : pr[q] = proc[q]
        /\ pr[p].at = "wait" /\ pr[p].np = proc[p].np /\ pr[p].boosts = proc[p].boosts
        /\ pr[p].queue_level = proc[p].queue_level /\ pr[p].pid = proc[p].pid
        /\ pr[p].state = "SLEEPING"
    BY <2>1 DEF ProcType
  <2> HIDE DEF pr
  <2>5. Leaves(c, p, pr, queue)  BY <1>1, <2>2, <2>3, <2>4 DEF Leaves, BInv, Keeps, Wakes
  <2> QED  BY <1>2, <2>3, <2>5, Left
<1>4. CASE ~WaitSleeps(c, p)
  <2>1. /\ UNCHANGED <<queue, cpu>> /\ proc' \in [Procs -> ProcType]
        /\ \A q \in Procs :
              /\ Stays(q)
              /\ \/ proc'[q].state = proc[q].state
                 \/ proc[q].state = "ZOMBIE" /\ proc'[q].state = "UNUSED"
              /\ proc'[q].boosts = proc[q].boosts
              /\ \/ proc'[q].at = proc[q].at /\ proc'[q].np = proc[q].np
                 \/ proc'[q].at # "fork"
    BY <1>4, WaitIs
  <2>2. Queues(queue') /\ Keeps(queue')  BY <2>1 DEF BInv, Keeps
  <2>3. Remains  BY <2>1, <2>2 DEF Remains, Wakes
  <2> QED  BY <1>2, <2>3, Remained
<1> QED  BY <1>3, <1>4

QueueTo(l, s) == queue' = [queue EXCEPT ![l] = s]
LEMMA QueueToIs ==
    ASSUME Queues(queue), NEW l \in Levels \union {MoQ}, NEW s, Line(s), QueueTo(l, s)
    PROVE  /\ Queues(queue')
           /\ \A k \in Levels \union {MoQ} : queue'[k] = IF k = l THEN s ELSE queue[k]
BY DEF Queues, QueueTo

LEMMA ForkBase ==
    ASSUME BInv, NEW c \in CPUs, NEW p \in Procs, Fork(c, p)
    PROVE  /\ BInv' /\ Moves
           /\ \A q \in Procs : /\ Stays(q) /\ proc'[q].boosts = proc[q].boosts
                               /\ proc'[q].state = proc[q].state \/ proc'[q].state = "EMBRYO"
<1>1. PICK np \in Procs :
        /\ proc[np].state = "UNUSED"
        /\ proc' = [proc EXCEPT ![np].state = "EMBRYO", ![np].pid = nextpid,
                                ![p].at = "fork", ![p].np = np]
  BY DEF Fork
<1>2. /\ cpu[c].p = p /\ proc[p].at = "user" /\ nextpid <= MaxPid /\ nextpid' = nextpid + 1
      /\ UNCHANGED <<queue, cpu, is_monopolized, ticks, panic>>
  BY DEF Fork, Enters, InUser, Runs
<1>3. proc[p] \in ProcType /\ proc \in [Procs -> ProcType] /\ proc[p].state = "RUNNING"
  BY <1>2, RunnerIs
<1>4. np # p /\ proc[np] \in ProcType  BY <1>1, <1>3
<1> DEFINE a == [proc[np] EXCEPT !.state = "EMBRYO", !.pid = nextpid]
<1> DEFINE b == [proc[p] EXCEPT !.at = "fork", !.np = np]
<1>5. nextpid \in 0 .. MaxPid /\ nextpid' \in 1 .. MaxPid + 1
  <2>1. nextpid \in 1 .. MaxPid + 1 /\ MaxPid \in Nat  BY MlfqAssumption DEF BInv, Types, Rest
  <2> QED  BY <1>2, <2>1
<1>6. /\ a \in ProcType /\ a.state = "EMBRYO" /\ a.at = proc[np].at /\ a.np = proc[np].np
      /\ a.queue_level = proc[np].queue_level /\ a.boosts = proc[np].boosts
  BY <1>4, <1>5 DEF ProcType
<1>7. /\ b \in ProcType /\ b.at = "fork" /\ b.np = np /\ b.state = proc[p].state
      /\ b.queue_level = proc[p].queue_level /\ b.boosts = proc[p].boosts
  BY <1>3 DEF ProcType
<1>8. proc' = [[proc EXCEPT ![np] = a] EXCEPT ![p] = b]  BY <1>1, <1>3, <1>4
<1> HIDE DEF a, b
<1>9. /\ proc' \in [Procs -> ProcType]
      /\ \A q \in Procs : proc'[q] = IF q = p THEN b ELSE IF q = np THEN a ELSE proc[q]
  BY <1>3, <1>4, <1>6, <1>7, <1>8
<1>10. \A q \in Procs : /\ Stays(q) /\ proc'[q].boosts = proc[q].boosts
                        /\ proc'[q].state = proc[q].state \/ proc'[q].state = "EMBRYO"
  BY <1>6, <1>7, <1>9 DEF Stays
<1>11. Places'
  <2>1. \A q \in Procs : proc[q].at = "fork" => q # p /\ proc[q].np # np
    BY <1>1, <1>2 DEF BInv, Places, ForkOK
  <2>2. CpuOK'  BY <1>1, <1>2, <1>6, <1>7, <1>9 DEF BInv, Places, CpuOK
  <2>3. CpuOne'  BY <1>2 DEF BInv, Places, CpuOne
  <2>4. ForkOK'
    <3> SUFFICES ASSUME NEW q \in Procs, proc'[q].at = "fork"
                 PROVE  proc'[q].np \in Procs /\ proc'[proc'[q].np].state = "EMBRYO"
      BY DEF ForkOK
    <3>1. CASE q = p  BY <1>4, <1>6, <1>7, <1>9, <3>1
    <3>2. CASE q # p
      <4>1. proc[q].at = "fork" /\ proc'[q].np = proc[q].np  BY <1>6, <1>9, <3>2
      <4>2. proc[q].np \in Procs /\ proc[proc[q].np].state = "EMBRYO"
        BY <4>1 DEF BInv, Places, ForkOK
      <4> QED  BY <1>6, <1>7, <1>9, <4>1, <4>2
    <3> QED  BY <3>1, <3>2
  <2>5. ForkOne'
    <3>1. \A q \in Procs \ {p} : proc'[q].at = proc[q].at /\ proc'[q].np = proc[q].np
      BY <1>6, <1>9
    <3> QED  BY <1>7, <1>9, <2>1, <3>1 DEF BInv, Places, ForkOne
  <2> QED  BY <2>2, <2>3, <2>4, <2>5 DEF Places
<1>12. Types' /\ Queues(queue')  BY <1>2, <1>5, <1>9 DEF BInv, Types, Rest
<1> QED  BY <1>10, <1>11, <1>12, StaysMoves DEF BInv, Moves

SetTwo(q, a, p, b) == proc' = [[proc EXCEPT ![q] = a] EXCEPT ![p] = b]

(* The end of a fork: a is what becomes of the slot.                        *)
LEMMA ForkEnds ==
    ASSUME BInv, NEW c \in CPUs, NEW p \in Procs, Forking(c, p),
           NEW a \in ProcType, a.state \notin {"EMBRYO", "RUNNING"},
           a.at = proc[proc[p].np].at, a.np = proc[proc[p].np].np,
           NEW b \in ProcType, b.at = "user", b.state = proc[p].state,
           SetTwo(proc[p].np, a, p, b),
           Queues(queue'), UNCHANGED <<cpu, nextpid, is_monopolized, ticks, panic>>
    PROVE  /\ BInv' /\ proc[p].np \in Procs \ {p} /\ proc[proc[p].np].state = "EMBRYO"
           /\ \A q \in Procs :
                  proc'[q] = IF q = p THEN b ELSE IF q = proc[p].np THEN a ELSE proc[q]
<1> DEFINE np == proc[p].np
<1>1. cpu[c].p = p /\ proc[p].at = "fork"  BY DEF Forking, Runs
<1>2. proc[p] \in ProcType /\ proc \in [Procs -> ProcType] /\ proc[p].state = "RUNNING"
  BY <1>1, RunnerIs
<1>3. np \in Procs /\ proc[np].state = "EMBRYO"  BY <1>1 DEF BInv, Places, ForkOK
<1>4. np # p  BY <1>2, <1>3
<1>5. \A q \in Procs : proc[q].at = "fork" /\ q # p => proc[q].np # np
  BY <1>1 DEF BInv, Places, ForkOne
<1> HIDE DEF np
<1>6. /\ proc' \in [Procs -> ProcType]
      /\ \A q \in Procs : proc'[q] = IF q = p THEN b ELSE IF q = np THEN a ELSE proc[q]
  <2>1. proc' = [[proc EXCEPT ![np] = a] EXCEPT ![p] = b]  BY DEF np, SetTwo
  <2> QED  BY <1>2, <1>3, <1>4, <2>1
<1>7. a.at = proc[np].at /\ a.np = proc[np].np  BY DEF np
<1>8. CpuOK'  BY <1>3, <1>6, <1>7 DEF BInv, Places, CpuOK
<1>9. CpuOne'  BY DEF BInv, Places, CpuOne
<1>10. ForkOK'
  <2> SUFFICES ASSUME NEW q \in Procs, proc'[q].at = "fork"
               PROVE  proc'[q].np \in Procs /\ proc'[proc'[q].np].state = "EMBRYO"
    BY DEF ForkOK
  <2>1. q # p  BY <1>6
  <2>2. proc[q].at = "fork" /\ proc'[q].np = proc[q].np  BY <1>6, <1>7, <2>1
  <2>3. proc[q].np \in Procs /\ proc[proc[q].np].state = "EMBRYO" /\ proc[q].np # np
    BY <1>5, <2>1, <2>2 DEF BInv, Places, ForkOK
  <2>4. proc[q].np # p  BY <1>2, <2>3
  <2> QED  BY <1>6, <2>2, <2>3, <2>4
<1>11. ForkOne'
  <2>1. \A q \in Procs \ {p} : proc'[q].at = proc[q].at /\ proc'[q].np = proc[q].np
    BY <1>6, <1>7
  <2> QED  BY <1>6, <2>1 DEF BInv, Places, ForkOne
<1>12. Types'  BY <1>6 DEF BInv, Types, Rest
<1> QED  BY <1>3, <1>4, <1>6, <1>8, <1>9, <1>10, <1>11, <1>12 DEF BInv, Places, np

LEMMA ForkFailsBase ==
    ASSUME BInv, NEW c \in CPUs, NEW p \in Procs, ForkFails(c, p)
    PROVE  /\ BInv' /\ Moves
           /\ \A q \in Procs : /\ Stays(q) /\ proc'[q].boosts = proc[q].boosts
                               /\ proc'[q].state = proc[q].state \/ proc'[q].state = "UNUSED"
<1> DEFINE np == proc[p].np
<1>1. /\ Forking(c, p) /\ cpu[c].p = p /\ proc[p].at = "fork"
      /\ proc' = [proc EXCEPT ![np].state = "UNUSED", ![p].at = "user", ![p].np = NoProc]
      /\ UNCHANGED <<queue, cpu, nextpid, is_monopolized, ticks, panic>>
  BY DEF ForkFails, Forking, Runs
<1>2. proc[p] \in ProcType /\ proc \in [Procs -> ProcType] /\ proc[p].state = "RUNNING"
  BY <1>1, RunnerIs
<1>3. np \in Procs /\ proc[np].state = "EMBRYO"  BY <1>1 DEF BInv, Places, ForkOK
<1>4. np # p /\ proc[np] \in ProcType  BY <1>2, <1>3
<1> DEFINE a == [proc[np] EXCEPT !.state = "UNUSED"]
<1> DEFINE b == [proc[p] EXCEPT !.at = "user", !.np = NoProc]
<1> HIDE DEF np
<1>5. a \in ProcType /\ a.state = "UNUSED" /\ a.at = proc[np].at /\ a.np = proc[np].np
      /\ a.queue_level = proc[np].queue_level /\ a.boosts = proc[np].boosts
  BY <1>4 DEF ProcType
<1>6. b \in ProcType /\ b.at = "user" /\ b.state = proc[p].state
      /\ b.queue_level = proc[p].queue_level /\ b.boosts = proc[p].boosts
  BY <1>2 DEF ProcType
<1>7. SetTwo(np, a, p, b)  BY <1>1, <1>2, <1>4 DEF SetTwo
<1> HIDE DEF a, b
<1>8. Queues(queue')  BY <1>1 DEF BInv
<1>9. /\ BInv'
      /\ \A q \in Procs : proc'[q] = IF q = p THEN b ELSE IF q = np THEN a ELSE proc[q]
  <2>1. UNCHANGED <<cpu, nextpid, is_monopolized, ticks, panic>> /\ Forking(c, p)  BY <1>1
  <2>2. SetTwo(proc[p].np, a, p, b)  BY <1>7 DEF np
  <2>3. a.at = proc[proc[p].np].at /\ a.np = proc[proc[p].np].np /\ a \in ProcType
        /\ a.state \notin {"EMBRYO", "RUNNING"}
    BY <1>5 DEF np
  <2>4. b \in ProcType /\ b.at = "user" /\ b.state = proc[p].state  BY <1>6
  <2>5. /\ BInv'
        /\ \A q \in Procs :
              proc'[q] = IF q = p THEN b ELSE IF q = proc[p].np THEN a ELSE proc[q]
    BY <1>8, <2>1, <2>2, <2>3, <2>4, ForkEnds
  <2> QED  BY <2>5 DEF np
<1>10. \A q \in Procs : /\ Stays(q) /\ proc'[q].boosts = proc[q].boosts
                        /\ proc'[q].state = proc[q].state \/ proc'[q].state = "UNUSED"
  BY <1>5, <1>6, <1>9 DEF Stays
<1> QED  BY <1>9, <1>10, StaysMoves DEF Moves

LEMMA ForkDoneBase ==
    ASSUME BInv, NEW c \in CPUs, NEW p \in Procs, ForkDone(c, p)
    PROVE  /\ BInv' /\ Moves
           /\ \A q \in Procs \ {proc[p].np} : Stays(q) /\ proc'[q].state = proc[q].state
           /\ proc[p].np \in Procs \ {p}
           /\ proc'[proc[p].np].state = "RUNNABLE" /\ proc'[proc[p].np].queue_level = 0
           /\ \A l \in Levels \union {MoQ} : \A x : Holds(queue, l, x) => Holds(queue', l, x)
           /\ Holds(queue', 0, proc[p].np)
           /\ \A q \in Procs : proc'[q].boosts = proc[q].boosts
<1> DEFINE np == proc[p].np
<1>1. /\ Forking(c, p) /\ cpu[c].p = p /\ proc[p].at = "fork"
      /\ proc' = [proc EXCEPT ![np].state = "RUNNABLE", ![np].parent = p, ![np].queue_level = 0,
                              ![p].at = "user", ![p].np = NoProc]
      /\ queue' = [queue EXCEPT ![0] = q_push(queue[0], np)]
      /\ UNCHANGED <<cpu, nextpid, is_monopolized, ticks, panic>>
  BY DEF ForkDone, Forking, Runs
<1>2. proc[p] \in ProcType /\ proc \in [Procs -> ProcType] /\ proc[p].state = "RUNNING"
  BY <1>1, RunnerIs
<1>3. np \in Procs /\ proc[np].state = "EMBRYO"  BY <1>1 DEF BInv, Places, ForkOK
<1>4. np # p /\ proc[np] \in ProcType  BY <1>2, <1>3
<1> DEFINE a == [proc[np] EXCEPT !.state = "RUNNABLE", !.parent = p, !.queue_level = 0]
<1> DEFINE b == [proc[p] EXCEPT !.at = "user", !.np = NoProc]
<1> HIDE DEF np
<1>5. 0 \in Levels /\ 0 \in Levels \union {MoQ}  BY DEF Levels
<1>6. a \in ProcType /\ a.state = "RUNNABLE" /\ a.at = proc[np].at /\ a.np = proc[np].np
      /\ a.queue_level = 0 /\ a.boosts = proc[np].boosts
  BY <1>4, <1>5 DEF ProcType
<1>7. b \in ProcType /\ b.at = "user" /\ b.state = proc[p].state
      /\ b.queue_level = proc[p].queue_level /\ b.boosts = proc[p].boosts
  BY <1>2 DEF ProcType
<1>8. SetTwo(np, a, p, b)  BY <1>1, <1>2, <1>4 DEF SetTwo
<1> HIDE DEF a, b
<1> DEFINE s == q_push(queue[0], np)
<1>9. Line(queue[0]) /\ Line(s) /\ \A x : Contains(s, x) <=> Contains(queue[0], x) \/ x = np
  BY <1>3, <1>5, LinesOf, Pushed DEF BInv
<1>10. QueueTo(0, s)  BY <1>1 DEF QueueTo
<1> HIDE DEF s
<1>11. /\ Queues(queue')
       /\ \A k \in Levels \union {MoQ} : queue'[k] = IF k = 0 THEN s ELSE queue[k]
  BY <1>5, <1>9, <1>10, QueueToIs DEF BInv
<1>12. \A l \in Levels \union {MoQ} : \A x : Holds(queue, l, x) => Holds(queue', l, x)
  BY <1>9, <1>11 DEF Holds
<1>13. Holds(queue', 0, np)  BY <1>5, <1>9, <1>11 DEF Holds
<1>14. /\ BInv'
       /\ \A q \in Procs : proc'[q] = IF q = p THEN b ELSE IF q = np THEN a ELSE proc[q]
  <2>1. UNCHANGED <<cpu, nextpid, is_monopolized, ticks, panic>> /\ Forking(c, p)  BY <1>1
  <2>2. SetTwo(proc[p].np, a, p, b)  BY <1>8 DEF np
  <2>3. a.at = proc[proc[p].np].at /\ a.np = proc[proc[p].np].np /\ a \in ProcType
        /\ a.state \notin {"EMBRYO", "RUNNING"}
    BY <1>6 DEF np
  <2>4. b \in ProcType /\ b.at = "user" /\ b.state = proc[p].state  BY <1>7
  <2>5. /\ BInv'
        /\ \A q \in Procs :
              proc'[q] = IF q = p THEN b ELSE IF q = proc[p].np THEN a ELSE proc[q]
    BY <1>11, <2>1, <2>2, <2>3, <2>4, ForkEnds
  <2> QED  BY <2>5 DEF np
<1>15. \A q \in Procs \ {np} : Stays(q) /\ proc'[q].state = proc[q].state
  BY <1>7, <1>14 DEF Stays
<1>16. proc'[np].state = "RUNNABLE" /\ proc'[np].queue_level = 0  BY <1>3, <1>4, <1>6, <1>14
<1>17. MayMove(np)  BY <1>3, <1>16 DEF MayMove
<1>18. \A q \in Procs : proc'[q].boosts = proc[q].boosts  BY <1>6, <1>7, <1>14
<1> QED
  BY <1>3, <1>4, <1>12, <1>13, <1>14, <1>15, <1>16, <1>17, <1>18, StaysMoves DEF Moves, np

LEMMA ForkStep ==
    ASSUME BInv, NEW c \in CPUs, NEW p \in Procs, Fork(c, p) \/ ForkFails(c, p)
    PROVE  Outcome
<1>1. /\ BInv' /\ Moves
      /\ \A q \in Procs : /\ Stays(q) /\ proc'[q].boosts = proc[q].boosts
                          /\ \/ proc'[q].state = proc[q].state
                             \/ proc'[q].state \in {"EMBRYO", "UNUSED"}
  BY ForkBase, ForkFailsBase
<1>2. queue' = queue /\ cpu' = cpu  BY DEF Fork, ForkFails
<1>3. Plain  BY <1>1 DEF Plain, Starts
<1>4. Keeps(queue')  BY <1>2 DEF Keeps
<1>5. ASSUME QInv PROVE QInv'
  <2>1. \A q \in Procs : Wakes(q, proc'[q].state, queue') \/ proc'[q].state \notin Live
    BY <1>1 DEF Wakes, Live
  <2>2. \A q \in Procs : Queued(q)'  BY <1>1, <1>4, <1>5, <2>1, StillQueued DEF QInv
  <2>3. Kept'  BY <1>1, <1>2, <1>4, <1>5, StillKept DEF QInv
  <2> QED  BY <2>2, <2>3 DEF QInv
<1> QED  BY <1>1, <1>3, <1>5, PlainOutcome

LEMMA ForkDoneStep ==
    ASSUME BInv, NEW c \in CPUs, NEW p \in Procs, ForkDone(c, p)
    PROVE  Outcome
<1>1. PICK np \in Procs : np = proc[p].np  BY ForkDoneBase
<1>2. /\ BInv' /\ Moves
      /\ \A q \in Procs \ {np} : Stays(q) /\ proc'[q].state = proc[q].state
      /\ np \in Procs \ {p}
      /\ proc'[np].state = "RUNNABLE" /\ proc'[np].queue_level = 0
      /\ \A l \in Levels \union {MoQ} : \A x : Holds(queue, l, x) => Holds(queue', l, x)
      /\ Holds(queue', 0, np)
      /\ \A q \in Procs : proc'[q].boosts = proc[q].boosts
  BY <1>1, ForkDoneBase
<1>3. cpu' = cpu  BY DEF ForkDone
<1>4. proc[np].state = "EMBRYO"
  BY <1>1 DEF ForkDone, Forking, BInv, Places, ForkOK
<1>5. Plain  BY <1>2 DEF Plain, Starts
<1>6. Keeps(queue')  BY <1>2 DEF Keeps
<1>7. ASSUME QInv PROVE QInv'
  <2>1. \A q \in Procs \ {np} : Wakes(q, proc'[q].state, queue')  BY <1>2 DEF Wakes
  <2>2. \A q \in Procs \ {np} : Queued(q)'  BY <1>2, <1>6, <1>7, <2>1, StillQueued DEF QInv
  <2>3. Queued(np)'
    <3>1. 0 # MoQ  BY DEF MoQ
    <3> QED  BY <1>2, <3>1 DEF Queued
  <2>4. Kept'
    <3> SUFFICES ASSUME NEW d \in CPUs, cpu'[d].p \in Procs, cpu'[d].from \in {3, MoQ}
                 PROVE  Holds(queue', proc'[cpu'[d].p].queue_level, cpu'[d].p)
      BY DEF Kept
    <3> DEFINE q == cpu[d].p
    <3>1. q \in Procs /\ proc[q].state = "RUNNING"  BY <1>3, RunnerIs
    <3>2. q # np  BY <1>4, <3>1
    <3>3. Holds(queue, proc[q].queue_level, q)  BY <1>3, <1>7 DEF QInv, Kept
    <3>4. proc[q].queue_level \in Levels \union {MoQ}  BY <3>1, LevelIs
    <3> QED  BY <1>2, <1>3, <3>1, <3>2, <3>3, <3>4 DEF Stays
  <2> QED  BY <2>2, <2>3, <2>4 DEF QInv
<1> QED  BY <1>2, <1>5, <1>7, PlainOutcome

(* setmonopoly puts another process at the end of the monopoly queue.       *)
LEMMA SetmonopolyIs ==
    ASSUME BInv, NEW c \in CPUs, NEW p \in Procs, NEW n, setmonopoly(c, p, n)
    PROVE  /\ BInv' /\ Moves /\ cpu[c].p = p /\ cpu' = cpu
           /\ \E r \in Procs \ {p} :
                /\ proc'[r].queue_level = MoQ /\ Holds(queue', MoQ, r)
                /\ proc'[r].state = proc[r].state /\ proc'[r].boosts = proc[r].boosts
                /\ \A q \in Procs \ {r} :
                      /\ proc'[q] = proc[q]
                      /\ \A l \in Levels \union {MoQ} : Holds(queue, l, q) => Holds(queue', l, q)
<1>1. PICK r \in Procs \ {p} :
        /\ proc[r].queue_level # MoQ
        /\ queue' = [queue EXCEPT ![proc[r].queue_level] = q_remove(@, r),
                                  ![MoQ] = q_push(@, r)]
        /\ proc' = [proc EXCEPT ![r].queue_level = MoQ]
  BY DEF setmonopoly
<1>2. UNCHANGED <<cpu, nextpid, is_monopolized, ticks, panic>> /\ cpu[c].p = p
  BY DEF setmonopoly, Enters, InUser, Runs
<1>3. proc \in [Procs -> ProcType] /\ proc[r] \in ProcType  BY DEF BInv, Types
<1> DEFINE a == [proc[r] EXCEPT !.queue_level = MoQ]
<1>4. /\ a \in ProcType /\ a.at = proc[r].at /\ a.np = proc[r].np /\ a.state = proc[r].state
      /\ a.queue_level = MoQ /\ a.boosts = proc[r].boosts
  BY <1>3 DEF ProcType
<1>5. proc' = [proc EXCEPT ![r] = a]  BY <1>1
<1> HIDE DEF a
<1>6. /\ proc' \in [Procs -> ProcType]
      /\ \A q \in Procs : proc'[q] = IF q = r THEN a ELSE proc[q]
  BY <1>3, <1>4, <1>5
<1> DEFINE lv == proc[r].queue_level
<1>7. lv \in Levels /\ lv \in Levels \union {MoQ} /\ lv # MoQ  BY <1>1, <1>3 DEF ProcType
<1> HIDE DEF lv
<1> DEFINE s == q_remove(queue[lv], r)
<1> DEFINE m == q_push(queue[MoQ], r)
<1>8. queue' = [[queue EXCEPT ![lv] = s] EXCEPT ![MoQ] = m]  BY <1>1, <1>7 DEF lv, BInv, Queues
<1>9. /\ Line(s) /\ \A x : Contains(s, x) <=> Contains(queue[lv], x) /\ x # r
      /\ Line(m) /\ \A x : Contains(m, x) <=> Contains(queue[MoQ], x) \/ x = r
  <2>1. Line(queue[lv]) /\ Line(queue[MoQ])  BY <1>7, LinesOf DEF BInv
  <2> QED  BY <2>1, Removed, Pushed
<1> HIDE DEF s, m
<1>10. /\ DOMAIN queue' = Levels \union {MoQ}
       /\ \A l \in Levels \union {MoQ} :
             queue'[l] = IF l = MoQ THEN m ELSE IF l = lv THEN s ELSE queue[l]
  BY <1>7, <1>8 DEF BInv, Queues
<1>11. Queues(queue')  BY <1>9, <1>10 DEF BInv, Queues
<1>12. Holds(queue', MoQ, r)  BY <1>9, <1>10 DEF Holds
<1>13. \A q \in Procs \ {r}, l \in Levels \union {MoQ} : Holds(queue, l, q) => Holds(queue', l, q)
  BY <1>9, <1>10 DEF Holds
<1>14. \A q \in Procs : Still(q)  BY <1>4, <1>6 DEF Still
<1>15. Moves
  <2>1. \A q \in Procs \ {r} : Stays(q)  BY <1>6 DEF Stays
  <2>2. MayMove(r)  BY <1>4, <1>6, Constants DEF MayMove
  <2> QED  BY <2>1, <2>2, StaysMoves DEF Moves
<1>16. BInv'
  <2>1. Places'
    <3>1. Types /\ Places /\ cpu' = cpu  BY <1>2 DEF BInv
    <3>2. \A q \in Procs : /\ \/ proc'[q].state = proc[q].state
                              \/ proc[q].state \notin {"RUNNING", "EMBRYO"}
                           /\ \/ proc'[q].at = proc[q].at /\ proc'[q].np = proc[q].np
                              \/ proc'[q].at # "fork"
      BY <1>14 DEF Still
    <3> QED  BY <3>1, <3>2, NoForkStarts
  <2> QED  BY <1>2, <1>6, <1>11, <2>1, RestSame DEF BInv, Types
<1>17. proc'[r].queue_level = MoQ /\ proc'[r].state = proc[r].state
       /\ \A q \in Procs \ {r} : proc'[q] = proc[q]
  BY <1>4, <1>6
<1>18. proc'[r].boosts = proc[r].boosts  BY <1>3, <1>4, <1>6
<1> QED  BY <1>2, <1>12, <1>13, <1>15, <1>16, <1>17, <1>18

(* Another process is not the one that runs: with one processor.            *)
LEMMA SetmonopolyStep ==
    ASSUME BInv, NEW c \in CPUs, NEW p \in Procs, NEW n, setmonopoly(c, p, n)
    PROVE  Outcome
<1>1. BInv' /\ Moves /\ cpu[c].p = p /\ cpu' = cpu  BY SetmonopolyIs
<1>2. PICK r \in Procs \ {p} :
        /\ proc'[r].queue_level = MoQ /\ Holds(queue', MoQ, r)
        /\ proc'[r].state = proc[r].state /\ proc'[r].boosts = proc[r].boosts
        /\ \A q \in Procs \ {r} :
              /\ proc'[q] = proc[q]
              /\ \A l \in Levels \union {MoQ} : Holds(queue, l, q) => Holds(queue', l, q)
  BY SetmonopolyIs
<1>3. Plain  BY <1>2 DEF Plain, Starts
<1>4. ASSUME OneCpu, QInv PROVE QInv'
  <2>1. ASSUME NEW q \in Procs \ {r} PROVE Queued(q)'
    <3>1. Queued(q) /\ KeepsOne(q, queue') /\ Stays(q) /\ Wakes(q, proc'[q].state, queue')
      BY <1>2, <1>4 DEF QInv, KeepsOne, Stays, Wakes
    <3> QED  BY <3>1, OneQueued
  <2>2. Queued(r)'  BY <1>2 DEF Queued
  <2>3. Kept'
    <3>1. \A d \in CPUs : cpu[d].p = p  BY <1>1, <1>4 DEF OneCpu
    <3>2. proc[p].queue_level \in Levels \union {MoQ}  BY LevelIs
    <3> QED  BY <1>1, <1>2, <1>4, <3>1, <3>2 DEF QInv, Kept
  <2> QED  BY <2>1, <2>2, <2>3 DEF QInv
<1>5. Highest /\ Reaches  BY <1>3 DEF Plain, Highest, Reaches, Boosts
<1> QED  BY <1>1, <1>4, <1>5 DEF Outcome

-----------------------------------------------------------------------------
(* Each process in one of the levels goes to L0 with a fresh quantum.       *)
InLevels(x) == \E l \in Levels : Holds(queue, l, x)
LEMMA BoostIs ==
    ASSUME BInv, NEW c \in CPUs, NEW p \in Procs, Boost(c, p)
    PROVE  /\ Queues(queue') /\ \A x : InLevels(x) => Holds(queue', 0, x)
           /\ \A x : Holds(queue', MoQ, x) <=> Holds(queue, MoQ, x)
           /\ \A r \in Procs : proc'[r] =
                 [proc[r] EXCEPT !.ticks = IF InLevels(r) THEN 0 ELSE @,
                                 !.queue_level = IF InLevels(r) THEN 0 ELSE @,
                                 !.boosts = IF r = p THEN FALSE ELSE @]
<1> DEFINE rest == FlattenSeq([l \in LowerLevels |-> queue[l]])
<1> DEFINE all == queue[0] \o rest
<1>1. /\ queue' = [l \in DOMAIN queue |->
             CASE l = 0 -> PushAll(queue[0], rest, Procs) [] l \in LowerLevels -> <<>>
               [] OTHER -> queue[l]]
      /\ proc' = [r \in Procs |->
             [proc[r] EXCEPT !.ticks = IF Contains(all, r) THEN 0 ELSE @,
                             !.queue_level = IF Contains(all, r) THEN 0 ELSE @,
                             !.boosts = IF r = p THEN FALSE ELSE @]]
  BY DEF Boost
<1>2. rest \in Seq(Procs) /\ \A x : Contains(rest, x) <=> \E l \in LowerLevels : Contains(queue[l], x)
  BY Flattened DEF BInv
<1> HIDE DEF rest
<1>3. LowerLevels = 1 .. 3 /\ Levels = {0} \union LowerLevels /\ 0 \in Levels
      /\ DOMAIN queue = Levels \union {MoQ} /\ MoQ # 0 /\ MoQ \notin LowerLevels
  BY DEF LowerLevels, Levels, MoQ, BInv, Queues
<1>4. Line(queue[0]) /\ queue[0] \in Seq(Procs)  BY <1>3, LinesOf DEF BInv
<1>5. \A x : Contains(all, x) <=> InLevels(x)
  <2>1. /\ all \in Seq(Procs) /\ Len(all) = Len(queue[0]) + Len(rest)
        /\ \A i \in 1 .. Len(queue[0]) + Len(rest) :
              all[i] = IF i <= Len(queue[0]) THEN queue[0][i] ELSE rest[i - Len(queue[0])]
    BY <1>2, <1>4, ConcatProperties
  <2> HIDE DEF all
  <2>2. Len(queue[0]) \in Nat /\ Len(rest) \in Nat  BY <1>2, <1>4
  <2>3. ASSUME NEW i \in 1 .. Len(queue[0]) PROVE Contains(all, queue[0][i])
    <3>1. i \in 1 .. Len(all) /\ all[i] = queue[0][i]  BY <2>1, <2>2
    <3> QED  BY <3>1 DEF Contains
  <2>4. ASSUME NEW i \in 1 .. Len(rest) PROVE Contains(all, rest[i])
    <3> DEFINE n == i + Len(queue[0])
    <3>1. n \in 1 .. Len(queue[0]) + Len(rest) /\ ~(n <= Len(queue[0])) /\ n - Len(queue[0]) = i
      BY <2>2
    <3> HIDE DEF n
    <3>2. all[n] = rest[n - Len(queue[0])]  BY <2>1, <3>1
    <3>3. all[n] = rest[i] /\ n \in 1 .. Len(all)  BY <2>1, <3>1, <3>2
    <3> QED  BY <3>3 DEF Contains
  <2>5. ASSUME NEW i \in 1 .. Len(all) PROVE Contains(queue[0], all[i]) \/ Contains(rest, all[i])
    <3>1. CASE i <= Len(queue[0])  BY <2>1, <2>2, <3>1 DEF Contains
    <3>2. CASE i > Len(queue[0])
      <4>1. i - Len(queue[0]) \in 1 .. Len(rest) /\ all[i] = rest[i - Len(queue[0])]
        BY <2>1, <2>2, <3>2
      <4> QED  BY <4>1 DEF Contains
    <3> QED  BY <2>1, <2>2, <3>1, <3>2
  <2>6. \A x : Contains(all, x) <=> Contains(queue[0], x) \/ Contains(rest, x)
    BY <2>3, <2>4, <2>5 DEF Contains
  <2> QED  BY <1>2, <1>3, <2>6 DEF InLevels, Holds
<1> HIDE DEF all
<1> DEFINE new == PushAll(queue[0], rest, Procs)
<1>6. Line(new) /\ \A x : Contains(new, x) <=> Contains(queue[0], x) \/ Among(rest, Procs, x)
  BY <1>2, <1>4, PushedAll
<1>7. \A x : Contains(rest, x) => x \in Procs  BY <1>2 DEF Contains
<1> HIDE DEF new
<1>8. /\ DOMAIN queue' = Levels \union {MoQ}
      /\ queue'[0] = new /\ queue'[MoQ] = queue[MoQ]
      /\ \A l \in LowerLevels : queue'[l] = <<>>
  <2>1. \A l \in Levels \union {MoQ} : queue'[l] =
           CASE l = 0 -> new [] l \in LowerLevels -> <<>> [] OTHER -> queue[l]
    BY <1>1, <1>3 DEF new
  <2>2. DOMAIN queue' = Levels \union {MoQ}  BY <1>1, <1>3
  <2>3. queue'[0] = new  BY <1>3, <2>1
  <2>4. queue'[MoQ] = queue[MoQ]  BY <1>3, <2>1
  <2>5. \A l \in LowerLevels : l # 0 /\ l \in Levels \union {MoQ}  BY <1>3
  <2>6. \A l \in LowerLevels : queue'[l] = <<>>  BY <2>1, <2>5
  <2> QED  BY <2>2, <2>3, <2>4, <2>6
<1>9. Line(<<>>)  BY DEF Line, Once
<1>10. Queues(queue')  BY <1>3, <1>6, <1>8, <1>9 DEF BInv, Queues
<1>11. \A x : InLevels(x) => Holds(queue', 0, x)
  BY <1>2, <1>3, <1>6, <1>7, <1>8 DEF InLevels, Holds, Among
<1>12. \A x : Holds(queue', MoQ, x) <=> Holds(queue, MoQ, x)  BY <1>8 DEF Holds
<1> QED  BY <1>1, <1>5, <1>10, <1>11, <1>12

LEMMA BoostBase ==
    ASSUME BInv, NEW c \in CPUs, NEW p \in Procs, Boost(c, p)
    PROVE  /\ BInv' /\ Moves
           /\ \A r \in Procs : /\ proc'[r].queue_level = IF InLevels(r) THEN 0 ELSE proc[r].queue_level
                               /\ InLevels(r) => proc'[r].ticks = 0
                               /\ proc'[r].state = proc[r].state
<1>1. ASSUME NEW r \in Procs
      PROVE  /\ proc'[r] \in ProcType /\ Still(r) /\ proc'[r].state = proc[r].state
             /\ proc'[r].queue_level = IF InLevels(r) THEN 0 ELSE proc[r].queue_level
             /\ InLevels(r) => proc'[r].ticks = 0
             /\ proc'[r].boosts = IF r = p THEN FALSE ELSE proc[r].boosts
  <2>1. proc[r] \in ProcType  BY DEF BInv, Types
  <2> DEFINE tk == IF InLevels(r) THEN 0 ELSE proc[r].ticks
  <2> DEFINE lv == IF InLevels(r) THEN 0 ELSE proc[r].queue_level
  <2> DEFINE bo == IF r = p THEN FALSE ELSE proc[r].boosts
  <2>2. proc'[r] = [proc[r] EXCEPT !.ticks = tk, !.queue_level = lv, !.boosts = bo]
    BY BoostIs
  <2>3. tk \in 0 .. MaxTicks /\ lv \in Levels \union {MoQ} /\ bo \in BOOLEAN
    <3>1. 0 \in 0 .. MaxTicks /\ 0 \in Levels \union {MoQ}  BY MlfqAssumption DEF Levels
    <3> QED  BY <2>1, <3>1 DEF ProcType
  <2> HIDE DEF tk, lv, bo
  <2>4. proc'[r].ticks = tk /\ proc'[r].queue_level = lv /\ proc'[r].boosts = bo
        /\ proc'[r].at = proc[r].at /\ proc'[r].np = proc[r].np /\ proc'[r].state = proc[r].state
    BY <2>1, <2>2 DEF ProcType
  <2>5. proc'[r] \in ProcType  BY <2>1, <2>2, <2>3 DEF ProcType
  <2> QED  BY <2>4, <2>5 DEF tk, lv, bo, Still
<1>2. DOMAIN proc' = Procs /\ proc' = [r \in Procs |-> proc'[r]]  BY DEF Boost
<1>3. proc' \in [Procs -> ProcType]  BY <1>1, <1>2
<1>4. Boosts
  <2>1. proc[p].boosts /\ proc'[p].boosts = FALSE  BY <1>1 DEF Boost
  <2> QED  BY <2>1 DEF Boosts
<1>5. Moves
  <2>1. \A r \in Procs : Stays(r) \/ proc'[r].queue_level = 0  BY <1>1 DEF Stays
  <2>2. \A r \in Procs : proc'[r].queue_level = 0 => MayMove(r)  BY <1>4 DEF MayMove
  <2> QED  BY <2>1, <2>2, StaysMoves DEF Moves
<1>6. UNCHANGED <<cpu, nextpid, is_monopolized, ticks, panic>> /\ Queues(queue')
  BY BoostIs DEF Boost
<1>7. Rest'  BY <1>6, RestSame
<1>8. Places'
  <2>1. Types /\ Places /\ cpu' = cpu  BY <1>6 DEF BInv
  <2>2. \A q \in Procs : /\ \/ proc'[q].state = proc[q].state
                            \/ proc[q].state \notin {"RUNNING", "EMBRYO"}
                         /\ \/ proc'[q].at = proc[q].at /\ proc'[q].np = proc[q].np
                            \/ proc'[q].at # "fork"
    BY <1>1 DEF Still
  <2> QED  BY <2>1, <2>2, NoForkStarts
<1> QED  BY <1>1, <1>3, <1>5, <1>6, <1>7, <1>8 DEF BInv, Types

(* Whoever waits in a level is in its queue, and so in L0 afterwards.       *)
LEMMA BoostStep ==
    ASSUME BInv, NEW c \in CPUs, NEW p \in Procs, Boost(c, p)
    PROVE  Outcome
<1>1. /\ BInv' /\ Moves /\ cpu' = cpu
      /\ \A r \in Procs : /\ proc'[r].queue_level = IF InLevels(r) THEN 0 ELSE proc[r].queue_level
                          /\ InLevels(r) => proc'[r].ticks = 0
                          /\ proc'[r].state = proc[r].state
      /\ \A x : InLevels(x) => Holds(queue', 0, x)
      /\ \A x : Holds(queue', MoQ, x) <=> Holds(queue, MoQ, x)
  BY BoostBase, BoostIs DEF Boost
<1>2. ASSUME NEW q \in Procs, Holds(queue, proc[q].queue_level, q)
      PROVE  Holds(queue', proc'[q].queue_level, q)
  <2>1. CASE InLevels(q)  BY <1>1, <2>1
  <2>2. CASE ~InLevels(q)
    <3>1. proc[q].queue_level = MoQ  BY <1>2, <2>2, LevelIs DEF InLevels
    <3> QED  BY <1>1, <1>2, <2>2, <3>1
  <2> QED  BY <2>1, <2>2
<1>3. ASSUME QInv PROVE QInv'
  <2>1. ASSUME NEW q \in Procs PROVE Queued(q)'
    <3>1. Queued(q)  BY <1>3 DEF QInv
    <3>2. 0 # MoQ  BY DEF MoQ
    <3> QED  BY <1>1, <1>2, <3>1, <3>2 DEF Queued
  <2>2. Kept'  BY <1>1, <1>2, <1>3 DEF QInv, Kept
  <2> QED  BY <2>1, <2>2 DEF QInv
<1>4. Highest  BY <1>1 DEF Highest, Starts
<1>5. ASSUME QInv PROVE Reaches
  <2>1. ASSUME NEW q \in Procs, proc[q].state = "RUNNABLE", proc[q].queue_level \in Levels
        PROVE  InLevels(q)
    BY <1>5, <2>1 DEF QInv, Queued, InLevels
  <2> QED  BY <1>1, <2>1 DEF Reaches
<1> QED  BY <1>1, <1>3, <1>4, <1>5 DEF Outcome

(* The first process of highest priority exists.                            *)
LEMMA TopIs ==
    ASSUME proc \in [Procs -> ProcType], NEW q, Line(q), NEW k \in DOMAIN q
    PROVE  /\ q_top(q) \in Procs /\ Contains(q, q_top(q))
           /\ \A x : Contains(q, x) => proc[x].priority <= proc[q_top(q)].priority
<1> DEFINE pi == [i \in DOMAIN q |-> proc[q[i]].priority]
<1>1. q \in Seq(Procs) /\ DOMAIN q = 1 .. Len(q) /\ Len(q) \in Nat  BY DEF Line
<1>2. \A i \in DOMAIN q : q[i] \in Procs /\ pi[i] \in 0 .. MaxPriority
  BY <1>1 DEF ProcType
<1>3. MaxPriority \in Nat  BY MlfqAssumption
<1> HIDE DEF pi
<1>4. PICK m \in DOMAIN q : \A j \in DOMAIN q : pi[j] <= pi[m]
  <2> DEFINE T == {MaxPriority - pi[i] : i \in DOMAIN q}
  <2>1. T \subseteq Nat /\ T # {}  BY <1>2, <1>3
  <2>2. PICK x \in T : \A y \in T : x <= y  BY <2>1, Least
  <2>3. PICK m \in DOMAIN q : x = MaxPriority - pi[m]  OBVIOUS
  <2>4. \A j \in DOMAIN q : MaxPriority - pi[m] <= MaxPriority - pi[j]  BY <2>2, <2>3
  <2>5. \A j \in DOMAIN q : pi[j] <= pi[m]  BY <1>2, <1>3, <2>4
  <2> QED  BY <2>5
<1>5. PICK i \in DOMAIN q : \A j \in DOMAIN q : pi[j] < pi[i] \/ (pi[j] = pi[i] /\ i <= j)
  <2> DEFINE T == {i \in DOMAIN q : pi[i] = pi[m]}
  <2>1. T \subseteq Nat /\ T # {}  BY <1>1, <1>4
  <2>2. PICK i \in T : \A y \in T : i <= y  BY <2>1, Least
  <2>3. ASSUME NEW j \in DOMAIN q PROVE pi[j] < pi[i] \/ (pi[j] = pi[i] /\ i <= j)
    <3>1. pi[j] <= pi[m] /\ pi[i] = pi[m] /\ pi[j] \in Int /\ pi[m] \in Int
      BY <1>2, <1>4, <2>2
    <3>2. CASE pi[j] = pi[m]  BY <2>2, <3>1, <3>2
    <3>3. CASE pi[j] # pi[m]
      <4>1. pi[j] < pi[m]  BY <3>1, <3>3
      <4> QED  BY <3>1, <4>1
    <3> QED  BY <3>2, <3>3
  <2> QED  BY <2>3
<1> DEFINE Best(n) == \A j \in DOMAIN q : \/ pi[j] < pi[n]
                                          \/ pi[j] = pi[n] /\ n <= j
<1> DEFINE b == CHOOSE n \in DOMAIN q : Best(n)
<1>6. q_top(q) = q[b]
  <2>1. \A n, j \in DOMAIN q : pi[n] = proc[q[n]].priority /\ pi[j] = proc[q[j]].priority
    BY DEF pi
  <2>2. b = CHOOSE n \in DOMAIN q : \A j \in DOMAIN q :
                \/ proc[q[j]].priority < proc[q[n]].priority
                \/ proc[q[j]].priority = proc[q[n]].priority /\ n <= j
    BY <2>1
  <2> QED  BY <2>2 DEF q_top
<1>7. Best(i)  BY <1>5
<1> HIDE DEF Best
<1>8. b \in DOMAIN q /\ Best(b)  BY <1>7
<1> HIDE DEF b
<1>9. \A j \in DOMAIN q : pi[j] <= pi[b]  BY <1>2, <1>8 DEF Best
<1>10. Contains(q, q[b])  BY <1>1, <1>8 DEF Contains
<1> QED  BY <1>1, <1>2, <1>6, <1>8, <1>9, <1>10 DEF Contains, pi

(* What starting p leaves of the invariant; pr may have moved p to MoQ.     *)
StartIs(c, p, from) ==
    /\ BInv' /\ Moves
    /\ \A q \in Procs \ {p} : proc'[q] = proc[q]
    /\ proc'[p].boosts = proc[p].boosts
    /\ \/ cpu' = cpu /\ proc'[p].state = proc[p].state
       \/ TurnsTo(c, Turn(p, from)) /\ proc'[p].state = "RUNNING"

LEMMA StartBase ==
    ASSUME BInv, NEW c \in CPUs, cpu[c] = Idle, NEW p \in Procs, NEW from \in Levels \union {MoQ},
           NEW pr \in [Procs -> ProcType], Run(c, p, pr, from), Queues(queue'),
           \A q \in Procs \ {p} : pr[q] = proc[q],
           pr[p].at = proc[p].at, pr[p].np = proc[p].np, pr[p].state = proc[p].state,
           pr[p].boosts = proc[p].boosts,
           pr[p].queue_level = proc[p].queue_level \/ pr[p].queue_level = MoQ,
           UNCHANGED <<nextpid, is_monopolized, ticks>>
    PROVE  StartIs(c, p, from) /\ proc'[p].queue_level = pr[p].queue_level
<1>1. /\ proc' \in [Procs -> ProcType] /\ cpu' \in [CPUs -> Turns]
      /\ panic' \in {"none", "init exiting", "EMBRYO", "RUNNING"}
      /\ \A q \in Procs \ {p} : proc'[q] = pr[q]
      /\ proc'[p].at = pr[p].at /\ proc'[p].np = pr[p].np
      /\ proc'[p].queue_level = pr[p].queue_level /\ proc'[p].boosts = pr[p].boosts
      /\ \/ cpu' = cpu /\ proc'[p].state = pr[p].state
         \/ /\ pr[p].state \notin {"EMBRYO", "RUNNING"} /\ proc'[p].state = "RUNNING"
            /\ TurnsTo(c, Turn(p, from))
  <2>1. cpu \in [CPUs -> Turns] /\ panic \in {"none", "init exiting", "EMBRYO", "RUNNING"}
    BY DEF BInv, Types, Rest
  <2> QED  BY <2>1, Started
<1>2. Types'  BY <1>1 DEF BInv, Types, Rest
<1>3. \A q \in Procs \ {p} : Still(q) /\ Stays(q)  BY <1>1 DEF Still, Stays
<1>4. MayMove(p)
  <2>1. proc'[p].queue_level = proc[p].queue_level \/ proc'[p].queue_level = MoQ  BY <1>1
  <2>2. MoQ \notin Levels  BY DEF MoQ, Levels
  <2> QED  BY <2>1, <2>2 DEF MayMove
<1>5. Moves  BY <1>3, <1>4, StaysMoves DEF Moves
<1>6. CASE cpu' = cpu /\ proc'[p].state = pr[p].state
  <2>1. \A q \in Procs : /\ \/ proc'[q].state = proc[q].state
                            \/ proc[q].state \notin {"RUNNING", "EMBRYO"}
                         /\ \/ proc'[q].at = proc[q].at /\ proc'[q].np = proc[q].np
                            \/ proc'[q].at # "fork"
    BY <1>1, <1>6
  <2>2. Types /\ Places  BY DEF BInv
  <2>3. Places'  BY <1>6, <2>1, <2>2, NoForkStarts
  <2> QED  BY <1>1, <1>2, <1>5, <1>6, <2>3 DEF BInv, StartIs
<1>7. CASE /\ pr[p].state \notin {"EMBRYO", "RUNNING"} /\ proc'[p].state = "RUNNING"
           /\ TurnsTo(c, Turn(p, from))
  <2>1. Turn(p, from).p = p /\ Turn(p, from) \in Turns  BY TurnIs
  <2>2. Types /\ Places  BY DEF BInv
  <2>3. proc[p].state \notin {"EMBRYO", "RUNNING"} /\ proc'[p].state = "RUNNING"
        /\ proc'[p].at = proc[p].at /\ proc'[p].np = proc[p].np
    BY <1>1, <1>7
  <2>4. Places'  BY <1>3, <1>7, <2>1, <2>2, <2>3, OneStarts
  <2> QED  BY <1>1, <1>2, <1>5, <1>7, <2>4 DEF BInv, StartIs
<1> QED  BY <1>1, <1>6, <1>7

(* With one processor, nobody runs while the scheduler looks.               *)
LEMMA StartKept ==
    ASSUME BInv, OneCpu, NEW c \in CPUs, cpu[c] = Idle, NEW p \in Procs,
           NEW from \in Levels \union {MoQ}, cpu' = cpu \/ TurnsTo(c, Turn(p, from)),
           from \in {3, MoQ} => Holds(queue', proc'[p].queue_level, p)
    PROVE  Kept'
<1>1. \A d \in CPUs : d = c  BY DEF OneCpu
<1>2. CASE cpu' = cpu  BY <1>1, <1>2, Constants DEF Kept
<1>3. CASE TurnsTo(c, Turn(p, from))
  <2>1. cpu \in [CPUs -> Turns] /\ Turn(p, from) \in Turns
        /\ Turn(p, from).p = p /\ Turn(p, from).from = from
    BY TurnIs DEF BInv, Types
  <2>2. cpu'[c] = Turn(p, from)  BY <1>3, <2>1, TurnsToIs
  <2> QED  BY <1>1, <2>1, <2>2 DEF Kept
<1> QED  BY <1>2, <1>3

LEMMA IdleKept ==
    ASSUME OneCpu, NEW c \in CPUs, cpu[c] = Idle, cpu' = cpu
    PROVE  Kept'
<1>1. \A d \in CPUs : d = c  BY DEF OneCpu
<1> QED  BY <1>1, Constants DEF Kept

(* p is taken out of queue l.                                               *)
Drops(l, p) ==
    /\ Queues(queue')
    /\ \A k \in Levels \union {MoQ} : k # l => queue'[k] = queue[k]
    /\ \A q \in Procs \ {p} : KeepsOne(q, queue')

LEMMA DropIs ==
    ASSUME BInv, NEW l \in Levels \union {MoQ}, NEW p, NEW s, Line(s), QueueTo(l, s),
           \A x : Contains(s, x) <=> Contains(queue[l], x) /\ x # p
    PROVE  Drops(l, p)
<1>1. /\ Queues(queue')
      /\ \A k \in Levels \union {MoQ} : queue'[k] = IF k = l THEN s ELSE queue[k]
  BY QueueToIs DEF BInv
<1>2. \A q \in Procs \ {p} : KeepsOne(q, queue')  BY <1>1 DEF KeepsOne, Holds
<1> QED  BY <1>1, <1>2 DEF Drops

(* The scheduler passes over a process of a level that is not RUNNABLE.     *)
LEMMA PassedOver ==
    ASSUME BInv, NEW c \in CPUs, cpu[c] = Idle, NEW l \in Levels, NEW p \in Procs,
           proc[p].state # "RUNNABLE", Drops(l, p),
           UNCHANGED <<proc, cpu, nextpid, is_monopolized, ticks, panic>>
    PROVE  Outcome
<1>1. BInv'
  <2>1. Rest'  BY RestSame
  <2>2. Places'  BY DEF BInv, Places, CpuOK, CpuOne, ForkOK, ForkOne
  <2> QED  BY <2>1, <2>2 DEF BInv, Types, Drops
<1>2. Moves /\ Highest /\ Reaches
  <2>1. \A q \in Procs : Stays(q)  BY DEF Stays
  <2> QED  BY <2>1, StaysMoves DEF Moves, Highest, Reaches, Starts, Boosts
<1>3. ASSUME OneCpu, QInv PROVE QInv'
  <2>1. ASSUME NEW q \in Procs \ {p} PROVE Queued(q)'
    <3>1. Queued(q) /\ KeepsOne(q, queue') /\ Stays(q) /\ Wakes(q, proc'[q].state, queue')
      BY <1>3 DEF QInv, Drops, Stays, Wakes
    <3> QED  BY <3>1, OneQueued
  <2>2. Queued(p)'
    <3>1. queue'[MoQ] = queue[MoQ]  BY Constants DEF Drops
    <3> QED  BY <1>3, <3>1 DEF QInv, Queued, Holds
  <2>3. Kept'  BY <1>3, IdleKept
  <2> QED  BY <2>1, <2>2, <2>3 DEF QInv
<1> QED  BY <1>1, <1>2, <1>3 DEF Outcome

(* A RUNNABLE process of the level that is served gets the processor; a     *)
(* process of L3 is a first one, and stays in the queue.                    *)
LEMMA ServedNext ==
    ASSUME BInv, NEW c \in CPUs, NEW l \in Levels, Serves(c, l), NEW p \in Procs,
           proc[p].state = "RUNNABLE", Run(c, p, proc, l), Holds(queue, l, p),
           IF l = 3 THEN /\ queue' = queue
                         /\ \A x : Holds(queue, 3, x) => proc[x].priority <= proc[p].priority
                    ELSE Drops(l, p),
           UNCHANGED <<nextpid, is_monopolized, ticks>>
    PROVE  Outcome
<1>1. proc \in [Procs -> ProcType] /\ cpu[c] = Idle /\ l \in Levels \union {MoQ} /\ l # MoQ
  BY Constants DEF BInv, Types, Serves, Scheduling
<1>2. Queues(queue')  BY DEF Drops, BInv
<1>3. StartIs(c, p, l) /\ proc'[p].queue_level = proc[p].queue_level
  BY <1>1, <1>2, StartBase
<1>4. queue'[MoQ] = queue[MoQ]  BY <1>1, Constants DEF Drops
<1>5. \A q \in Procs \ {p} : KeepsOne(q, queue')  BY DEF Drops, KeepsOne
<1>6. ASSUME OneCpu, QInv PROVE QInv' /\ Highest
  <2>1. proc'[p].state = "RUNNING"  BY <1>1 DEF Run, ProcType
  <2>2. ASSUME NEW q \in Procs \ {p} PROVE Queued(q)'
    <3>1. Queued(q) /\ KeepsOne(q, queue') /\ Stays(q) /\ Wakes(q, proc'[q].state, queue')
      BY <1>3, <1>5, <1>6 DEF QInv, StartIs, Stays, Wakes
    <3> QED  BY <3>1, OneQueued
  <2>3. Queued(p)'
    <3>1. Queued(p)  BY <1>6 DEF QInv
    <3> QED  BY <1>3, <1>4, <2>1, <3>1 DEF Queued, Live, Holds
  <2>4. Kept'
    <3>1. l \in {3, MoQ} => Holds(queue', proc'[p].queue_level, p)
      <4>1. Holds(queue, proc[p].queue_level, p)  BY <1>6 DEF QInv, Queued
      <4> QED  BY <1>1, <1>3, <4>1
    <3>2. cpu' = cpu \/ TurnsTo(c, Turn(p, l))  BY <1>3 DEF StartIs
    <3> QED  BY <1>1, <1>6, <3>1, <3>2, StartKept
  <2>5. Highest
    <3> SUFFICES ASSUME NEW s \in Procs, NEW o \in Procs, Starts(s), InPlace(s),
                        proc[o].state = "RUNNABLE", proc[o].queue_level \in Levels
                 PROVE  \/ proc[s].queue_level < proc[o].queue_level
                        \/ /\ proc[s].queue_level = proc[o].queue_level
                           /\ proc[s].queue_level = 3 => proc[s].priority >= proc[o].priority
      BY DEF Highest
    <3> DEFINE m == proc[o].queue_level
    <3>1. s = p  BY <1>3 DEF StartIs, Starts
    <3>2. proc[p].queue_level = l
      <4>1. DOMAIN queue = Levels \union {MoQ}  BY DEF BInv, Queues
      <4> QED  BY <1>1, <3>1, <4>1 DEF InPlace, In, Holds
    <3>3. Holds(queue, m, o)  BY <1>6 DEF QInv, Queued
    <3>4. q_runnable(queue[m])
      <4>1. queue[m] \in Seq(Procs)  BY LinesOf DEF BInv
      <4> QED  BY <3>3, <4>1 DEF q_runnable, Holds, Contains
    <3>5. ~(m \in 0 .. l - 1)  BY <3>4 DEF Serves
    <3>6. m \in Int /\ l \in Int /\ m >= 0 /\ m <= 3 /\ l <= 3  BY DEF Levels
    <3>7. l <= m  BY <3>5, <3>6
    <3>8. CASE l = 3
      <4>1. m = 3  BY <3>6, <3>7, <3>8
      <4>2. proc[o].priority <= proc[p].priority  BY <3>3, <3>8, <4>1
      <4>3. proc[o].priority \in Int /\ proc[p].priority \in Int
        <5>1. proc[o] \in ProcType /\ proc[p] \in ProcType /\ MaxPriority \in Nat
          BY <1>1, MlfqAssumption
        <5> QED  BY <5>1 DEF ProcType
      <4>4. proc[p].priority >= proc[o].priority  BY <4>2, <4>3
      <4> QED  BY <3>1, <3>2, <3>8, <4>1, <4>4
    <3>9. CASE l # 3
      <4>1. l < m \/ l = m  BY <3>6, <3>7
      <4> QED  BY <3>1, <3>2, <3>9, <4>1
    <3> QED  BY <3>8, <3>9
  <2> QED  BY <2>2, <2>3, <2>4, <2>5 DEF QInv
<1>7. Reaches  BY <1>3 DEF StartIs, Reaches, Boosts
<1> QED  BY <1>3, <1>6, <1>7 DEF Outcome, StartIs

LEMMA RoundRobinStep ==
    ASSUME BInv, NEW c \in CPUs, NEW l \in 0 .. 2, RoundRobin(c, l)
    PROVE  Outcome
<1>1. l \in Levels /\ l \in Levels \union {MoQ} /\ l # 3  BY DEF Levels
<1>2. queue[l] # <<>>
  <2>1. queue[l] \in Seq(Procs)  BY <1>1, LinesOf DEF BInv
  <2>2. \E i \in DOMAIN queue[l] : TRUE  BY DEF RoundRobin, Serves, q_runnable
  <2> QED  BY <2>1, <2>2
<1>3. PICK p \in Procs : p = Head(queue[l])  BY <1>1, <1>2, LinesOf DEF BInv
<1>4. /\ Serves(c, l) /\ cpu[c] = Idle /\ QueueTo(l, Tail(queue[l]))
      /\ IF proc[p].state = "RUNNABLE" THEN Run(c, p, proc, l) ELSE UNCHANGED <<proc, cpu, panic>>
      /\ UNCHANGED <<nextpid, is_monopolized, ticks>>
  BY <1>3 DEF RoundRobin, Serves, Scheduling, QueueTo
<1>5. Drops(l, p) /\ Holds(queue, l, p)
  <2>1. /\ Line(Tail(queue[l])) /\ Holds(queue, l, Head(queue[l]))
        /\ \A x : Contains(Tail(queue[l]), x) <=> Holds(queue, l, x) /\ x # Head(queue[l])
    BY <1>1, <1>2, LinesOf DEF BInv
  <2>2. \A x : Contains(Tail(queue[l]), x) <=> Contains(queue[l], x) /\ x # p
    BY <1>3, <2>1 DEF Holds
  <2>3. Line(Tail(queue[l])) /\ Holds(queue, l, p)  BY <1>3, <2>1
  <2> QED  BY <1>1, <1>4, <2>2, <2>3, DropIs
<1>6. CASE proc[p].state = "RUNNABLE"
  BY <1>1, <1>4, <1>5, <1>6, ServedNext
<1>7. CASE proc[p].state # "RUNNABLE"
  BY <1>1, <1>4, <1>5, <1>7, PassedOver
<1> QED  BY <1>6, <1>7

LEMMA ByPriorityStep ==
    ASSUME BInv, NEW c \in CPUs, ByPriority(c)
    PROVE  Outcome
<1>1. 3 \in Levels /\ 3 \in Levels \union {MoQ} /\ proc \in [Procs -> ProcType]
  BY DEF Levels, BInv, Types
<1>2. Line(queue[3])  BY <1>1, LinesOf DEF BInv
<1>3. PICK p \in Procs : /\ p = q_top(queue[3]) /\ Contains(queue[3], p)
                         /\ \A x : Contains(queue[3], x) => proc[x].priority <= proc[p].priority
  <2>1. PICK k \in DOMAIN queue[3] : TRUE  BY DEF ByPriority, Serves, q_runnable
  <2> QED  BY <1>1, <1>2, TopIs
<1>4. /\ Serves(c, 3) /\ cpu[c] = Idle
      /\ IF proc[p].state = "RUNNABLE"
         THEN Run(c, p, proc, 3) /\ queue' = queue
         ELSE QueueTo(3, q_remove(queue[3], p)) /\ UNCHANGED <<proc, cpu, panic>>
      /\ UNCHANGED <<nextpid, is_monopolized, ticks>>
  BY <1>3 DEF ByPriority, Serves, Scheduling, QueueTo
<1>5. CASE proc[p].state = "RUNNABLE"
  <2>1. Holds(queue, 3, p) /\ \A x : Holds(queue, 3, x) => proc[x].priority <= proc[p].priority
    BY <1>3 DEF Holds
  <2> QED  BY <1>1, <1>4, <1>5, <2>1, ServedNext
<1>6. CASE proc[p].state # "RUNNABLE"
  <2>1. Line(q_remove(queue[3], p))
        /\ \A x : Contains(q_remove(queue[3], p), x) <=> Contains(queue[3], x) /\ x # p
    BY <1>2, Removed
  <2>2. Drops(3, p)  BY <1>1, <1>4, <1>6, <2>1, DropIs
  <2> QED  BY <1>1, <1>4, <1>6, <2>2, PassedOver
<1> QED  BY <1>5, <1>6

(* During a monopoly the first of the queue runs, or is dropped when it is  *)
(* dead; either way it is, or stays, of level 99.                           *)
LEMMA MoqFrontStep ==
    ASSUME BInv, NEW c \in CPUs, MoqFront(c)
    PROVE  Outcome
<1>1. PICK p \in Procs : p = Head(queue[MoQ]) /\ Line(queue[MoQ]) /\ Holds(queue, MoQ, p)
  BY LinesOf DEF MoqFront, BInv
<1> DEFINE pr == [proc EXCEPT ![p].queue_level = MoQ]
<1>2. proc[p] \in ProcType /\ proc \in [Procs -> ProcType]  BY DEF BInv, Types
<1>3. IF proc[p].state \in {"ZOMBIE", "UNUSED"}
      THEN QueueTo(MoQ, q_remove(queue[MoQ], p)) /\ proc' = pr /\ UNCHANGED <<cpu, panic>>
      ELSE Run(c, p, pr, MoQ) /\ UNCHANGED queue
  BY <1>1 DEF MoqFront, QueueTo
<1>4. cpu[c] = Idle /\ is_monopolized /\ UNCHANGED <<nextpid, is_monopolized, ticks>>
  BY DEF MoqFront, Scheduling
<1> DEFINE r == [proc[p] EXCEPT !.queue_level = MoQ]
<1>5. r \in ProcType /\ r.queue_level = MoQ /\ r.at = proc[p].at /\ r.np = proc[p].np
      /\ r.state = proc[p].state /\ r.boosts = proc[p].boosts
  BY <1>2 DEF ProcType
<1>6. pr = [proc EXCEPT ![p] = r]  OBVIOUS
<1> HIDE DEF pr, r
<1>7. pr \in [Procs -> ProcType] /\ pr[p] = r /\ \A q \in Procs \ {p} : pr[q] = proc[q]
  BY <1>2, <1>5, <1>6
<1>8. Highest  BY <1>4 DEF Highest
<1>9. CASE proc[p].state \in {"ZOMBIE", "UNUSED"}
  <2>1. Line(q_remove(queue[MoQ], p))
        /\ \A x : Contains(q_remove(queue[MoQ], p), x) <=> Contains(queue[MoQ], x) /\ x # p
    BY <1>1, Removed
  <2>2. Drops(MoQ, p)  BY <1>3, <1>9, <2>1, DropIs
  <2>3. \A q \in Procs : /\ proc'[q].state = proc[q].state /\ proc'[q].boosts = proc[q].boosts
                         /\ proc'[q].at = proc[q].at /\ proc'[q].np = proc[q].np
                         /\ q # p => Stays(q)
    BY <1>3, <1>5, <1>7, <1>9 DEF Stays
  <2>4. BInv'
    <3>1. Types /\ Places /\ cpu' = cpu  BY <1>3, <1>9 DEF BInv
    <3>2. Places'  BY <2>3, <3>1, NoForkStarts
    <3>3. Rest'  BY <1>3, <1>4, <1>9, RestSame
    <3> QED  BY <1>3, <1>7, <1>9, <2>2, <3>1, <3>2, <3>3 DEF BInv, Types, Drops
  <2>5. Moves
    <3>1. MayMove(p)  BY <1>3, <1>5, <1>7, <1>9, Constants DEF MayMove
    <3> QED  BY <2>3, <3>1, StaysMoves DEF Moves
  <2>6. ASSUME OneCpu, QInv PROVE QInv'
    <3>1. ASSUME NEW q \in Procs \ {p} PROVE Queued(q)'
      <4>1. Queued(q) /\ KeepsOne(q, queue') /\ Stays(q) /\ Wakes(q, proc'[q].state, queue')
        BY <2>2, <2>3, <2>6 DEF QInv, Drops, Wakes
      <4> QED  BY <4>1, OneQueued
    <3>2. Queued(p)'  BY <1>9, <2>3 DEF Queued, Live
    <3>3. Kept'  BY <1>3, <1>4, <1>9, <2>6, IdleKept
    <3> QED  BY <3>1, <3>2, <3>3 DEF QInv
  <2>7. Reaches  BY <2>3 DEF Reaches, Boosts
  <2> QED  BY <1>8, <2>4, <2>5, <2>6, <2>7 DEF Outcome
<1>10. CASE proc[p].state \notin {"ZOMBIE", "UNUSED"}
  <2>1. queue' = queue /\ Run(c, p, pr, MoQ)  BY <1>3, <1>10
  <2>2. StartIs(c, p, MoQ) /\ proc'[p].queue_level = MoQ
    <3>1. Queues(queue')  BY <2>1 DEF BInv
    <3>2. pr[p].at = proc[p].at /\ pr[p].np = proc[p].np /\ pr[p].state = proc[p].state
          /\ pr[p].boosts = proc[p].boosts /\ pr[p].queue_level = MoQ
      BY <1>5, <1>7
    <3>3. StartIs(c, p, MoQ) /\ proc'[p].queue_level = pr[p].queue_level
      BY <1>4, <1>7, <2>1, <3>1, <3>2, StartBase
    <3> QED  BY <3>2, <3>3
  <2>3. ASSUME OneCpu, QInv PROVE QInv'
    <3>1. ASSUME NEW q \in Procs \ {p} PROVE Queued(q)'
      <4>1. Queued(q) /\ KeepsOne(q, queue') /\ Stays(q) /\ Wakes(q, proc'[q].state, queue')
        BY <2>1, <2>2, <2>3 DEF QInv, StartIs, KeepsOne, Stays, Wakes
      <4> QED  BY <4>1, OneQueued
    <3>2. Holds(queue', MoQ, p)  BY <1>1, <2>1
    <3>3. Queued(p)'  BY <2>2, <3>2 DEF Queued
    <3>4. Kept'
      <4>1. cpu' = cpu \/ TurnsTo(c, Turn(p, MoQ))  BY <2>2 DEF StartIs
      <4> QED  BY <1>4, <2>2, <2>3, <3>2, <4>1, StartKept
    <3> QED  BY <3>1, <3>3, <3>4 DEF QInv
  <2>4. Reaches  BY <2>2 DEF StartIs, Reaches, Boosts
  <2> QED  BY <1>8, <2>2, <2>3, <2>4 DEF Outcome, StartIs
<1> QED  BY <1>9, <1>10

LEMMA InitBase == Init => BInv
<1> SUFFICES ASSUME Init PROVE BInv  OBVIOUS
<1>1. /\ NPROC \in Nat \ {0} /\ InitProc \in Procs /\ Idle \in Turns /\ Idle.p \notin Procs
      /\ 0 \in Levels /\ MoQ \notin Levels /\ 0 \in 0 .. MaxPid /\ 1 \in 0 .. MaxPid
      /\ 0 \in 0 .. MaxPriority /\ 0 \in 0 .. MaxTicks /\ 0 \in 0 .. BoostPeriod - 1
      /\ 2 \in 1 .. MaxPid + 1
  BY Constants, MlfqAssumption DEF Levels, MoQ
<1>2. Blank \in ProcType /\ Blank.state = "UNUSED" /\ Blank.at = "user"
  BY <1>1 DEF Blank, ProcType
<1> DEFINE a == [Blank EXCEPT !.state = "RUNNABLE", !.pid = 1]
<1>3. a \in ProcType /\ a.at = "user"  BY <1>1, <1>2 DEF ProcType
<1>4. proc = [p \in Procs |-> IF p = InitProc THEN a ELSE Blank]  BY DEF Init
<1> HIDE DEF a
<1>5. proc \in [Procs -> ProcType] /\ \A p \in Procs : proc[p].at = "user"
  BY <1>2, <1>3, <1>4
<1>6. cpu \in [CPUs -> Turns] /\ \A c \in CPUs : cpu[c] = Idle  BY <1>1 DEF Init
<1>7. Rest  BY <1>1 DEF Init, Rest
<1>8. Line(<<>>) /\ Line(<<InitProc>>)  BY <1>1 DEF Line, Once
<1>9. Queues(queue)  BY <1>8 DEF Init, Queues
<1>10. Places  BY <1>1, <1>5, <1>6 DEF Places, CpuOK, CpuOne, ForkOK, ForkOne
<1> QED  BY <1>5, <1>6, <1>7, <1>9, <1>10 DEF BInv, Types

LEMMA InitQueued == Init => QInv
<1> SUFFICES ASSUME Init PROVE QInv  OBVIOUS
<1>1. /\ InitProc \in Procs /\ Idle.p \notin Procs /\ 0 \in Levels \union {MoQ} /\ MoQ # 0
  BY Constants DEF Levels, MoQ
<1>2. /\ proc[InitProc].queue_level = 0
      /\ \A p \in Procs \ {InitProc} : proc[p].state = "UNUSED"
  BY <1>1 DEF Init, Blank
<1>3. queue[0] = <<InitProc>>  BY <1>1 DEF Init
<1>4. Holds(queue, 0, InitProc)  BY <1>3 DEF Holds, Contains
<1>5. \A p \in Procs : Queued(p)  BY <1>1, <1>2, <1>4 DEF Queued, Live
<1>6. Kept  BY <1>1 DEF Init, Kept
<1> QED  BY <1>5, <1>6 DEF QInv

LEMMA NextStep ==
    ASSUME BInv, [Next]_vars
    PROVE  Outcome
<1>1. CASE UNCHANGED vars
  <2>1. UNCHANGED <<proc, queue, cpu, nextpid, is_monopolized, ticks, panic>>
    BY <1>1 DEF vars
  <2> QED  BY <2>1, RestSame, SameRemains, Remained
<1>2. CASE Next
  <2>1. PICK c \in CPUs :
          \/ MoqOver(c) \/ MoqFront(c)
          \/ \E l \in 0 .. 2 : RoundRobin(c, l)
          \/ ByPriority(c) \/ Timer(c) \/ Interrupt(c)
          \/ \E p \in Procs :
                \/ Boost(c, p) \/ Yield(c, p)
                \/ \E chan \in Chans : Sleep(c, p, chan)
                \/ Fork(c, p) \/ ForkFails(c, p) \/ ForkDone(c, p) \/ Exit(c, p) \/ Wait(c, p)
                \/ monopolize(c, p) \/ unmonopolize(c, p)
                \/ \E n \in TargetPids :
                      \/ Kill(c, p, n) \/ setmonopoly(c, p, n)
                      \/ \E priority \in 0 .. MaxPriority : setpriority(c, p, n, priority)
    BY <1>2 DEF Next, Current
  <2>2. CASE \/ MoqOver(c) \/ MoqFront(c) \/ ByPriority(c) \/ Timer(c) \/ Interrupt(c)
    BY <2>2, MonopolyStep, MoqFrontStep, ByPriorityStep, TimerStep, InterruptStep
  <2>3. ASSUME NEW l \in 0 .. 2, RoundRobin(c, l) PROVE Outcome
    BY <2>3, RoundRobinStep
  <2>4. ASSUME NEW p \in Procs,
               \/ Boost(c, p) \/ Yield(c, p) \/ Fork(c, p) \/ ForkFails(c, p) \/ ForkDone(c, p)
               \/ Exit(c, p) \/ Wait(c, p) \/ monopolize(c, p) \/ unmonopolize(c, p)
        PROVE  Outcome
    BY <2>4, BoostStep, YieldStep, ForkStep, ForkDoneStep, ExitStep, WaitStep,
       MonopolyStep
  <2>5. ASSUME NEW p \in Procs, NEW chan \in Chans, Sleep(c, p, chan) PROVE Outcome
    BY <2>5, SleepStep
  <2>6. ASSUME NEW p \in Procs, NEW n \in TargetPids, Kill(c, p, n) \/ setmonopoly(c, p, n)
        PROVE  Outcome
    BY <2>6, KillStep, SetmonopolyStep
  <2>7. ASSUME NEW p \in Procs, NEW n \in TargetPids, NEW priority \in 0 .. MaxPriority,
               setpriority(c, p, n, priority)
        PROVE  Outcome
    BY <2>7, SetpriorityStep
  <2> QED  BY <2>1, <2>2, <2>3, <2>4, <2>5, <2>6, <2>7
<1> QED  BY <1>1, <1>2

LEMMA BaseHolds == Spec => []BInv /\ [][Moves]_vars
<1>1. BInv /\ [Next]_vars => BInv'  BY NextStep DEF Outcome
<1>2. BInv /\ [Next]_vars => [Moves]_vars  BY NextStep DEF Outcome
<1> QED  BY <1>1, <1>2, InitBase, PTL DEF Spec

LEMMA QueuedHolds ==
    ASSUME OneCpu
    PROVE  Spec => []QInv /\ [][Highest]_vars /\ [][Reaches]_vars
<1>1. BInv /\ QInv /\ [Next]_vars => QInv'  BY NextStep DEF Outcome
<1>2. BInv /\ QInv /\ [Next]_vars => [Highest]_vars /\ [Reaches]_vars  BY NextStep DEF Outcome
<1> QED  BY <1>1, <1>2, BaseHolds, InitQueued, PTL DEF Spec

-----------------------------------------------------------------------------
(* Every variable keeps its type: a process keeps a level and a priority in *)
(* range, and no queue outgrows its ring of NPROC + 1 cells (queue.c:16).   *)
THEOREM TypeCorrect == Spec => []TypeOK
<1>1. BInv => TypeOK
  <2> SUFFICES ASSUME BInv PROVE TypeOK  OBVIOUS
  <2>1. \A l \in DOMAIN queue : ToSet(queue[l]) \subseteq Procs /\ Len(queue[l]) <= NPROC
    BY LineFits DEF BInv, Queues
  <2>2. DOMAIN queue = Levels \union {MoQ}  BY DEF BInv, Queues
  <2> QED  BY <2>1, <2>2 DEF BInv, Types, Rest, ProcType, Turns, TypeOK
<1> QED  BY <1>1, BaseHolds, PTL

(* q_push removes a process before it appends it: no queue holds one twice, *)
(* whatever is left of the last process of a slot.                          *)
THEOREM HeldOnce == Spec => []NoDuplicates
<1>1. BInv => NoDuplicates
  BY DEF BInv, Queues, Line, Once, NoDuplicates
<1> QED  BY <1>1, BaseHolds, PTL

(* A process changes its level only along the arrows of README.md:59-62.    *)
THEOREM MovesAsDrawn == Spec => LevelMoves
<1>1. Moves => \A p \in Procs :
          LET old == proc[p].queue_level
              new == proc'[p].queue_level
          IN old \in Levels /\ new \in Levels /\ new # old /\ InPlace(p) =>
                \/ new = 3 /\ old \in {1, 2}
                \/ old = 0 /\ new = (IF proc[p].pid % 2 = 1 THEN 1 ELSE 2)
                \/ new = 0 /\ (proc[p].state = "EMBRYO" \/ Boosts)
  BY DEF Moves, MayMove
<1> QED  BY <1>1, BaseHolds, PTL DEF LevelMoves

(* Every runnable process is in the queue of its level, where scheduler()   *)
(* looks for it, and a live one of the monopoly queue is in that queue.     *)
THEOREM NobodyIsLost ==
    ASSUME OneCpu
    PROVE  Spec => []RunnableIsQueued
<1>1. QInv => RunnableIsQueued  BY DEF QInv, Queued, Holds, In, RunnableIsQueued
<1> QED  BY <1>1, QueuedHolds, PTL

(* scheduler() starts a process of the highest level in which one is        *)
(* runnable, and in L3 one of the highest priority.                         *)
THEOREM ServesHighest ==
    ASSUME OneCpu
    PROVE  Spec => HighestFirst
<1>1. Highest =>
        \A p, o \in Procs :
          /\ Starts(p) /\ ~is_monopolized /\ proc[p].queue_level \in Levels /\ InPlace(p)
          /\ proc[o].state = "RUNNABLE" /\ proc[o].queue_level \in Levels
          => \/ proc[p].queue_level < proc[o].queue_level
             \/ /\ proc[p].queue_level = proc[o].queue_level
                /\ proc[p].queue_level = 3 => proc[p].priority >= proc[o].priority
  BY DEF Highest
<1> QED  BY <1>1, QueuedHolds, PTL DEF HighestFirst

(* priority_boosting() gives every runnable process of the levels L0 and a  *)
(* fresh quantum.                                                           *)
THEOREM BoostReaches ==
    ASSUME OneCpu
    PROVE  Spec => BoostReachesAll
<1>1. Reaches =>
        (Boosts =>
          \A p \in Procs :
              proc[p].state = "RUNNABLE" /\ proc[p].queue_level \in Levels
              => proc'[p].queue_level = 0 /\ proc'[p].ticks = 0)
  BY DEF Reaches
<1> QED  BY <1>1, QueuedHolds, PTL DEF BoostReachesAll

-----------------------------------------------------------------------------
(* The rings of queue.c.  A ring is a function of the cell its front is at  *)
(* and of the sequence it holds; the operations are followed cell by cell.  *)
Rings == INSTANCE RingQueue WITH nullptr <- NoProc

LEMMA Multiple ==
    ASSUME NEW n \in Nat \ {0}, NEW x \in Int, x > 0
    PROVE  n * x >= n
OBVIOUS

LEMMA Around ==
    ASSUME NEW n \in Nat \ {0}, NEW a \in 0 .. 2 * n - 1
    PROVE  a % n = IF a < n THEN a ELSE a - n
<1>1. PICK s \in Int : a = n * s + (a % n) /\ a % n \in 0 .. n - 1
  <2>1. a % n \in 0 .. n - 1 /\ a = n * (a \div n) + (a % n) /\ a \div n \in Int  OBVIOUS
  <2> QED  BY <2>1
<1>2. PICK x \in Int : x = n * s  OBVIOUS
<1>3. ~(s > 1)
  <2> SUFFICES ASSUME s > 1 PROVE FALSE  OBVIOUS
  <2>1. n * (s - 1) >= n
    <3>1. s - 1 \in Int /\ s - 1 > 0  OBVIOUS
    <3> QED  BY <3>1, Multiple
  <2>2. n * (s - 1) = x - n  BY <1>2
  <2> QED  BY <1>1, <1>2, <2>1, <2>2
<1>4. ~(s < 0)
  <2> SUFFICES ASSUME s < 0 PROVE FALSE  OBVIOUS
  <2>1. n * (0 - s) >= n
    <3>1. 0 - s \in Int /\ 0 - s > 0  OBVIOUS
    <3> QED  BY <3>1, Multiple
  <2>2. n * (0 - s) = 0 - x  BY <1>2
  <2> QED  BY <1>1, <1>2, <2>1, <2>2
<1>5. s = 0 \/ s = 1  BY <1>3, <1>4
<1>6. x = IF s = 0 THEN 0 ELSE n  BY <1>2, <1>5
<1> QED  BY <1>1, <1>2, <1>5, <1>6

(* The operations of the ring's indices, without remainders.                *)
LEMMA Indices ==
    /\ NPROC \in Nat \ {0} /\ Rings!SZ = NPROC + 1 /\ Rings!Cells = 0 .. NPROC
    /\ \A i \in Rings!Cells :
          /\ Rings!nxt(i) = IF i = NPROC THEN 0 ELSE i + 1
          /\ Rings!prv(i) = IF i = 0 THEN NPROC ELSE i - 1
    /\ \A f, i \in Rings!Cells : Rings!Dist(f, i) = IF f <= i THEN i - f ELSE i - f + NPROC + 1
    /\ \A f \in Rings!Cells, n \in 0 .. NPROC :
          (f + n) % Rings!SZ = IF f + n <= NPROC THEN f + n ELSE f + n - NPROC - 1
<1>1. NPROC \in Nat \ {0}  BY MlfqAssumption
<1>2. Rings!SZ = NPROC + 1 /\ Rings!Cells = 0 .. NPROC  BY DEF Rings!SZ, Rings!Cells
<1>3. ASSUME NEW a \in 0 .. 2 * NPROC + 1
      PROVE  a % Rings!SZ = IF a <= NPROC THEN a ELSE a - NPROC - 1
  <2>1. NPROC + 1 \in Nat \ {0} /\ a \in 0 .. 2 * (NPROC + 1) - 1  BY <1>1
  <2>2. a % (NPROC + 1) = IF a < NPROC + 1 THEN a ELSE a - (NPROC + 1)  BY <2>1, Around
  <2> QED  BY <1>1, <1>2, <2>2
<1>4. ASSUME NEW i \in Rings!Cells
      PROVE  /\ Rings!nxt(i) = IF i = NPROC THEN 0 ELSE i + 1
             /\ Rings!prv(i) = IF i = 0 THEN NPROC ELSE i - 1
  <2>1. i \in 0 .. NPROC  BY <1>2
  <2>2. PICK a \in 0 .. 2 * NPROC + 1 : a = i + 1  BY <1>1, <2>1
  <2>3. PICK b \in 0 .. 2 * NPROC + 1 : b = i + NPROC  BY <1>1, <2>1
  <2>4. Rings!nxt(i) = a % Rings!SZ  BY <2>2 DEF Rings!nxt
  <2>5. Rings!prv(i) = b % Rings!SZ
    <3>1. i + Rings!SZ - 1 = b  BY <1>1, <1>2, <2>1, <2>3
    <3> QED  BY <3>1 DEF Rings!prv
  <2>6. a % Rings!SZ = IF a <= NPROC THEN a ELSE a - NPROC - 1  BY <1>3
  <2>7. b % Rings!SZ = IF b <= NPROC THEN b ELSE b - NPROC - 1  BY <1>3
  <2> QED  BY <1>1, <2>1, <2>2, <2>3, <2>4, <2>5, <2>6, <2>7
<1>5. ASSUME NEW f \in Rings!Cells, NEW i \in Rings!Cells
      PROVE  Rings!Dist(f, i) = IF f <= i THEN i - f ELSE i - f + NPROC + 1
  <2>1. f \in 0 .. NPROC /\ i \in 0 .. NPROC  BY <1>2
  <2>2. PICK a \in 0 .. 2 * NPROC + 1 : a = i - f + NPROC + 1  BY <1>1, <2>1
  <2>3. Rings!Dist(f, i) = (i - f + Rings!SZ) % Rings!SZ  BY DEF Rings!Dist
  <2>4. i - f + Rings!SZ = a  BY <1>1, <1>2, <2>1, <2>2
  <2>5. Rings!Dist(f, i) = IF a <= NPROC THEN a ELSE a - NPROC - 1  BY <1>3, <2>3, <2>4
  <2> QED  BY <1>1, <2>1, <2>2, <2>5
<1>6. ASSUME NEW f \in Rings!Cells, NEW n \in 0 .. NPROC
      PROVE  (f + n) % Rings!SZ = IF f + n <= NPROC THEN f + n ELSE f + n - NPROC - 1
  <2>1. PICK a \in 0 .. 2 * NPROC + 1 : a = f + n  BY <1>1, <1>2
  <2>2. a % Rings!SZ = IF a <= NPROC THEN a ELSE a - NPROC - 1  BY <1>3
  <2>3. (f + n) % Rings!SZ = a % Rings!SZ  BY <2>1
  <2>4. (IF a <= NPROC THEN a ELSE a - NPROC - 1) =
            IF f + n <= NPROC THEN f + n ELSE f + n - NPROC - 1
    BY <1>1, <1>2, <2>1
  <2> QED  BY <2>2, <2>3, <2>4
<1> QED  BY <1>1, <1>2, <1>4, <1>5, <1>6

(* How far cell i is from cell f, the cell that is n on from f, and the ring*)
(* that holds t from cell f on.                                             *)
Off(f, i) == IF f <= i THEN i - f ELSE i - f + NPROC + 1
On(f, n)  == IF f + n <= NPROC THEN f + n ELSE f + n - NPROC - 1
RingOf(f, t) ==
    [queue |-> [i \in 0 .. NPROC |-> IF Off(f, i) < Len(t) THEN t[Off(f, i) + 1] ELSE NoProc],
     front |-> f, back |-> On(f, Len(t))]

LEMMA RingIs ==
    ASSUME NEW f \in 0 .. NPROC, NEW t \in Seq(Procs), Len(t) <= NPROC
    PROVE  Rings!RingAt(f, t) = RingOf(f, t)
<1>1. Len(t) \in 0 .. NPROC  BY Indices
<1>2. (f + Len(t)) % Rings!SZ = On(f, Len(t))  BY <1>1, Indices DEF On
<1>3. \A i \in 0 .. NPROC : Rings!Dist(f, i) = Off(f, i)  BY Indices DEF Off
<1>4. Rings!Cells = 0 .. NPROC  BY Indices
<1> QED  BY <1>2, <1>3, <1>4 DEF Rings!RingAt, RingOf

(* A ring holds what it was made for.                                       *)
LEMMA ContentsAre ==
    ASSUME NEW f \in 0 .. NPROC, NEW t \in Seq(Procs), Len(t) <= NPROC
    PROVE  Rings!ring_size(RingOf(f, t)) = Len(t) /\ Rings!Contents(RingOf(f, t)) = t
<1> DEFINE q == RingOf(f, t)
<1>1. NPROC \in Nat /\ Len(t) \in 0 .. NPROC /\ Rings!Cells = 0 .. NPROC  BY Indices
<1>2. /\ q.front = f /\ q.back = On(f, Len(t))
      /\ \A i \in 0 .. NPROC : q.queue[i] = IF Off(f, i) < Len(t) THEN t[Off(f, i) + 1] ELSE NoProc
  BY DEF RingOf
<1>3. \A n \in 0 .. NPROC : On(f, n) \in 0 .. NPROC /\ Off(f, On(f, n)) = n
  BY <1>1 DEF On, Off
<1>4. Rings!ring_size(q) = Len(t)
  <2>1. Rings!ring_size(q) = Rings!Dist(f, On(f, Len(t)))  BY <1>2 DEF Rings!ring_size
  <2>2. Rings!Dist(f, On(f, Len(t))) = Off(f, On(f, Len(t)))  BY <1>1, <1>3, Indices DEF Off
  <2> QED  BY <1>1, <1>3, <2>1, <2>2
<1> HIDE DEF q
<1>5. ASSUME NEW k \in 1 .. Len(t) PROVE q.queue[(q.front + k - 1) % Rings!SZ] = t[k]
  <2>1. PICK n \in 0 .. NPROC : n = k - 1 /\ n < Len(t)  BY <1>1
  <2>2. q.front + k - 1 = f + n  BY <1>1, <1>2, <2>1
  <2>3. (f + n) % Rings!SZ = On(f, n)  BY <1>1, Indices DEF On
  <2>4. q.queue[On(f, n)] = t[n + 1]  BY <1>2, <1>3, <2>1
  <2>5. n + 1 = k  BY <2>1
  <2> QED  BY <2>2, <2>3, <2>4, <2>5
<1>6. Rings!Contents(q) = [k \in 1 .. Len(t) |-> t[k]]
  BY <1>4, <1>5 DEF Rings!Contents
<1>7. t = [k \in 1 .. Len(t) |-> t[k]]  OBVIOUS
<1> QED  BY <1>4, <1>6, <1>7 DEF q

Matches(r, t) == \E g \in Rings!Cells : r = Rings!RingAt(g, t) /\ Rings!Contents(r) = t

LEMMA RingMade ==
    ASSUME NEW g \in 0 .. NPROC, NEW t \in Seq(Procs), Len(t) <= NPROC
    PROVE  Matches(RingOf(g, t), t)
BY RingIs, ContentsAre, Indices DEF Matches

LEMMA PopRecord ==
    ASSUME NEW c, NEW f, NEW b
    PROVE  Rings!ring_pop([queue |-> c, front |-> f, back |-> b]) =
               [queue |-> [c EXCEPT ![f] = NoProc], front |-> Rings!nxt(f), back |-> b]
<1> DEFINE q == [queue |-> c, front |-> f, back |-> b]
<1>1. q.queue = c /\ q.front = f /\ q.back = b  OBVIOUS
<1>2. Rings!ring_pop(q) = [q EXCEPT !.queue[q.front] = NoProc, !.front = Rings!nxt(@)]
  BY DEF Rings!ring_pop
<1>3. Rings!ring_pop(q) = [q EXCEPT !.queue = [c EXCEPT ![f] = NoProc], !.front = Rings!nxt(f)]
  BY <1>1, <1>2
<1> QED  BY <1>3

(* q_pop and q_front.                                                       *)
LEMMA RingPop ==
    ASSUME NEW f \in 0 .. NPROC, NEW s \in Seq(Procs), Len(s) <= NPROC, s # <<>>
    PROVE  /\ Rings!ring_pop(RingOf(f, s)) = RingOf(On(f, 1), Tail(s))
           /\ Rings!ring_front(RingOf(f, s)) = Head(s)
           /\ On(f, 1) \in 0 .. NPROC
<1> DEFINE q == RingOf(f, s)
<1> DEFINE t == Tail(s)
<1> DEFINE g == On(f, 1)
<1>1. NPROC \in Nat \ {0} /\ Len(s) \in 1 .. NPROC  BY Indices
<1>2. /\ t \in Seq(Procs) /\ Len(t) = Len(s) - 1
      /\ \A k \in 1 .. Len(s) - 1 : t[k] = s[k + 1]
  BY <1>1
<1>3. /\ g \in 0 .. NPROC /\ g = Rings!nxt(f) /\ On(g, Len(s) - 1) = On(f, Len(s))
      /\ \A i \in 0 .. NPROC : Off(f, i) \in 0 .. NPROC
                              /\ (Off(f, i) = 0 <=> i = f)
                              /\ Off(g, i) = IF i = f THEN NPROC ELSE Off(f, i) - 1
  <2>1. g = IF f = NPROC THEN 0 ELSE f + 1  BY <1>1 DEF On
  <2>2. g = Rings!nxt(f)  BY <2>1, Indices
  <2> HIDE DEF g
  <2>3. g \in 0 .. NPROC  BY <1>1, <2>1
  <2>4. On(g, Len(s) - 1) = On(f, Len(s))  BY <1>1, <2>1, <2>3 DEF On
  <2>5. \A i \in 0 .. NPROC : Off(f, i) \in 0 .. NPROC /\ (Off(f, i) = 0 <=> i = f)
    BY <1>1 DEF Off
  <2>6. \A i \in 0 .. NPROC : Off(g, i) = IF i = f THEN NPROC ELSE Off(f, i) - 1
    BY <1>1, <2>1, <2>3 DEF Off
  <2> QED  BY <2>2, <2>3, <2>4, <2>5, <2>6
<1>4. /\ q.front = f /\ q.back = On(f, Len(s))
      /\ q.queue = [i \in 0 .. NPROC |-> IF Off(f, i) < Len(s) THEN s[Off(f, i) + 1] ELSE NoProc]
      /\ q = [queue |-> q.queue, front |-> q.front, back |-> q.back]
  BY DEF RingOf
<1>5. RingOf(g, t) =
         [queue |-> [i \in 0 .. NPROC |-> IF Off(g, i) < Len(t) THEN t[Off(g, i) + 1] ELSE NoProc],
          front |-> g, back |-> On(g, Len(t))]
  BY DEF RingOf
<1> HIDE DEF q, t, g
<1>6. ASSUME NEW i \in 0 .. NPROC
      PROVE  [q.queue EXCEPT ![f] = NoProc][i] =
                 IF Off(g, i) < Len(t) THEN t[Off(g, i) + 1] ELSE NoProc
  <2>1. CASE i = f  BY <1>1, <1>2, <1>3, <1>4, <2>1
  <2>2. CASE i # f
    <3>1. [q.queue EXCEPT ![f] = NoProc][i] = q.queue[i]  BY <1>4, <2>2
    <3>2. PICK o \in 1 .. NPROC : o = Off(f, i) /\ Off(g, i) = o - 1  BY <1>3, <2>2
    <3>3. q.queue[i] = IF o < Len(s) THEN s[o + 1] ELSE NoProc  BY <1>4, <3>2
    <3>4. o - 1 < Len(t) => t[o - 1 + 1] = s[o + 1]  BY <1>1, <1>2, <3>2
    <3> QED  BY <1>1, <1>2, <3>1, <3>2, <3>3, <3>4
  <2> QED  BY <2>1, <2>2
<1>7. [q.queue EXCEPT ![f] = NoProc] =
         [i \in 0 .. NPROC |-> IF Off(g, i) < Len(t) THEN t[Off(g, i) + 1] ELSE NoProc]
  BY <1>4, <1>6
<1>8. Rings!ring_pop(q) = [queue |-> [q.queue EXCEPT ![f] = NoProc], front |-> g, back |-> q.back]
  <2>1. Rings!ring_pop([queue |-> q.queue, front |-> f, back |-> q.back]) =
            [queue |-> [q.queue EXCEPT ![f] = NoProc], front |-> Rings!nxt(f), back |-> q.back]
    BY PopRecord
  <2>2. q = [queue |-> q.queue, front |-> f, back |-> q.back]  BY <1>4
  <2> QED  BY <1>3, <2>1, <2>2
<1>9. Rings!ring_pop(q) = RingOf(g, t)
  BY <1>2, <1>3, <1>4, <1>5, <1>7, <1>8
<1>10. Rings!ring_front(q) = Head(s)
  <2>1. On(f, Len(s)) # f  BY <1>1 DEF On
  <2>2. q.queue[f] = s[0 + 1]  BY <1>1, <1>3, <1>4
  <2> QED  BY <1>1, <1>4, <2>1, <2>2 DEF Rings!ring_front, Rings!ring_empty
<1> QED  BY <1>3, <1>9, <1>10 DEF q, t, g

(* q_exist: the cells from front to back are visited.                       *)
LEMMA RingExist ==
    ASSUME NEW f \in 0 .. NPROC, NEW s \in Seq(Procs), Len(s) <= NPROC, NEW p
    PROVE  /\ Rings!ring_exist(RingOf(f, s), p) <=> Contains(s, p)
           /\ Rings!Visited(RingOf(f, s), f) = {j \in 0 .. NPROC : Off(f, j) < Len(s)}
<1> DEFINE q == RingOf(f, s)
<1>1. NPROC \in Nat \ {0} /\ Len(s) \in 0 .. NPROC /\ Rings!Cells = 0 .. NPROC  BY Indices
<1>2. /\ q.front = f /\ q.back = On(f, Len(s))
      /\ \A i \in 0 .. NPROC : q.queue[i] = IF Off(f, i) < Len(s) THEN s[Off(f, i) + 1] ELSE NoProc
  BY DEF RingOf
<1> HIDE DEF q
<1>3. /\ \A n \in 0 .. NPROC : On(f, n) \in 0 .. NPROC /\ Off(f, On(f, n)) = n
      /\ \A i \in 0 .. NPROC : Off(f, i) \in 0 .. NPROC /\ Rings!Dist(f, i) = Off(f, i)
  BY <1>1, Indices DEF On, Off
<1>4. Rings!Visited(q, f) = {j \in 0 .. NPROC : Off(f, j) < Len(s)}
  <2>1. Rings!Dist(f, q.back) = Len(s)  BY <1>1, <1>2, <1>3
  <2>2. Rings!Visited(q, f) = {j \in 0 .. NPROC : Rings!Dist(f, j) < Len(s)}
    BY <1>1, <2>1 DEF Rings!Visited
  <2> QED  BY <1>3, <2>2
<1>5. ASSUME NEW j \in 0 .. NPROC, Off(f, j) < Len(s) PROVE Contains(s, q.queue[j])
  <2>1. PICK o \in 0 .. NPROC : o = Off(f, j)  BY <1>3
  <2>2. q.queue[j] = s[o + 1] /\ o + 1 \in 1 .. Len(s)  BY <1>1, <1>2, <1>5, <2>1
  <2> QED  BY <2>2 DEF Contains
<1>6. ASSUME NEW k \in 1 .. Len(s)
      PROVE  \E j \in 0 .. NPROC : Off(f, j) < Len(s) /\ q.queue[j] = s[k]
  <2>1. PICK n \in 0 .. NPROC : n = k - 1 /\ n < Len(s) /\ n + 1 = k  BY <1>1
  <2>2. On(f, n) \in 0 .. NPROC /\ Off(f, On(f, n)) = n  BY <1>3
  <2> QED  BY <1>2, <2>1, <2>2
<1>7. Rings!ring_exist(q, p) <=> Contains(s, p)
  <2>1. Rings!ring_exist(q, p) <=> \E j \in 0 .. NPROC : Off(f, j) < Len(s) /\ q.queue[j] = p
    BY <1>2, <1>4 DEF Rings!ring_exist
  <2>2. ASSUME NEW j \in 0 .. NPROC, Off(f, j) < Len(s), q.queue[j] = p PROVE Contains(s, p)
    BY <1>5, <2>2
  <2>3. ASSUME Contains(s, p)
        PROVE  \E j \in 0 .. NPROC : Off(f, j) < Len(s) /\ q.queue[j] = p
    <3>1. PICK k \in 1 .. Len(s) : s[k] = p  BY <2>3 DEF Contains
    <3>2. PICK j \in 0 .. NPROC : Off(f, j) < Len(s) /\ q.queue[j] = s[k]  BY <1>6
    <3> QED  BY <3>1, <3>2
  <2> QED  BY <2>1, <2>2, <2>3
<1> QED  BY <1>4, <1>7 DEF q

IsRing(q) == q = [queue |-> q.queue, front |-> q.front, back |-> q.back]
LEMMA RingPut ==
    ASSUME NEW q, NEW c, NEW b, IsRing(q)
    PROVE  [q EXCEPT !.queue = c, !.back = b] = [queue |-> c, front |-> q.front, back |-> b]
<1>1. PICK d, f, e : q = [queue |-> d, front |-> f, back |-> e]  BY DEF IsRing
<1>2. q.front = f  BY <1>1
<1>3. PICK r : r = [q EXCEPT !.queue = c]  OBVIOUS
<1>4. r = [queue |-> c, front |-> f, back |-> e]  BY <1>1, <1>3
<1>5. [q EXCEPT !.queue = c, !.back = b] = [r EXCEPT !.back = b]  BY <1>3
<1>6. [r EXCEPT !.back = b] = [queue |-> c, front |-> f, back |-> b]  BY <1>4
<1> QED  BY <1>2, <1>5, <1>6

LEMMA CloseRecord ==
    ASSUME NEW q, NEW i, IsRing(q)
    PROVE  Rings!CloseGap(q, i) =
               [queue |-> [j \in 0 .. NPROC |-> IF j = q.back THEN NoProc
                                                ELSE IF j \in Rings!Visited(q, i)
                                                     THEN q.queue[Rings!nxt(j)]
                                                ELSE q.queue[j]],
                front |-> q.front, back |-> Rings!prv(q.back)]
<1>1. Rings!Cells = 0 .. NPROC  BY Indices
<1> DEFINE row == [j \in 0 .. NPROC |-> IF j = q.back THEN NoProc
                                        ELSE IF j \in Rings!Visited(q, i) THEN q.queue[Rings!nxt(j)]
                                        ELSE q.queue[j]]
<1>2. Rings!CloseGap(q, i) = [q EXCEPT !.queue = row, !.back = Rings!prv(q.back)]
  BY <1>1 DEF Rings!CloseGap
<1> HIDE DEF row
<1>3. [q EXCEPT !.queue = row, !.back = Rings!prv(q.back)] =
         [queue |-> row, front |-> q.front, back |-> Rings!prv(q.back)]
  BY RingPut
<1> QED  BY <1>2, <1>3 DEF row

LEMMA PushRecord ==
    ASSUME NEW r, NEW p, IsRing(r)
    PROVE  [r EXCEPT !.queue[r.back] = p, !.back = Rings!nxt(@)] =
               [queue |-> [r.queue EXCEPT ![r.back] = p], front |-> r.front,
                back |-> Rings!nxt(r.back)]
<1>1. PICK c, b : c = [r.queue EXCEPT ![r.back] = p] /\ b = Rings!nxt(r.back)  OBVIOUS
<1>2. [r EXCEPT !.queue[r.back] = p, !.back = Rings!nxt(@)] = [r EXCEPT !.queue = c, !.back = b]
  BY <1>1 DEF IsRing
<1>3. [r EXCEPT !.queue = c, !.back = b] = [queue |-> c, front |-> r.front, back |-> b]
  BY RingPut
<1> QED  BY <1>1, <1>2, <1>3

(* q_remove closes the gap where p was.                                     *)
LEMMA RingRemove ==
    ASSUME NEW f \in 0 .. NPROC, NEW s, Line(s), NEW p
    PROVE  Rings!ring_remove(RingOf(f, s), p) = RingOf(f, q_remove(s, p))
<1> DEFINE q == RingOf(f, s)
<1> DEFINE t == q_remove(s, p)
<1>1. NPROC \in Nat \ {0} /\ s \in Seq(Procs) /\ Len(s) \in 0 .. NPROC /\ DOMAIN s = 1 .. Len(s)
  BY LineFits, Indices DEF Line
<1>2. /\ q.front = f /\ q.back = On(f, Len(s))
      /\ q.queue = [i \in 0 .. NPROC |-> IF Off(f, i) < Len(s) THEN s[Off(f, i) + 1] ELSE NoProc]
      /\ q = [queue |-> q.queue, front |-> q.front, back |-> q.back]
  BY DEF RingOf
<1>3. /\ Rings!ring_exist(q, p) <=> Contains(s, p)
      /\ Rings!Visited(q, f) = {j \in 0 .. NPROC : Off(f, j) < Len(s)}
  BY <1>1, RingExist
<1>4. CASE ~Contains(s, p)
  <2>1. t = s  BY <1>4 DEF q_remove, RemoveFirst, Contains
  <2>2. Rings!ring_remove(q, p) = q  BY <1>3, <1>4 DEF Rings!ring_remove
  <2> QED  BY <2>1, <2>2
<1>5. CASE Contains(s, p)
  <2>1. PICK k \in 1 .. Len(s) : s[k] = p  BY <1>5 DEF Contains
  <2>2. \A m \in 1 .. Len(s) : s[m] = p => m = k  BY <1>1, <2>1 DEF Line, Once
  <2>3. /\ t \in Seq(Procs) /\ Len(t) = Len(s) - 1
        /\ \A m \in 1 .. Len(t) : t[m] = IF m < k THEN s[m] ELSE s[m + 1]
    BY <2>1, RemovedAt
  <2>4. PICK x : x = CHOOSE i \in Rings!Visited(q, q.front) : q.queue[i] = p  OBVIOUS
  <2>5. Rings!ring_remove(q, p) = Rings!CloseGap(q, x)
    BY <1>3, <1>5, <2>4 DEF Rings!ring_remove
  <2> DEFINE row == [j \in 0 .. NPROC |-> IF j = q.back THEN NoProc
                                          ELSE IF j \in Rings!Visited(q, x) THEN q.queue[Rings!nxt(j)]
                                          ELSE q.queue[j]]
  <2>6. RingOf(f, t) =
           [queue |-> [i \in 0 .. NPROC |-> IF Off(f, i) < Len(t) THEN t[Off(f, i) + 1] ELSE NoProc],
            front |-> f, back |-> On(f, Len(t))]
    BY DEF RingOf
  <2> HIDE DEF q, t
  <2>7. Rings!CloseGap(q, x) = [queue |-> row, front |-> f, back |-> Rings!prv(q.back)]
    <3>1. IsRing(q)  BY <1>2 DEF IsRing
    <3> QED  BY <1>2, <3>1, CloseRecord
  <2>8. \A j \in 0 .. NPROC : Off(f, j) \in 0 .. NPROC
    BY <1>1 DEF Off
  <2>9. x \in 0 .. NPROC /\ Off(f, x) = k - 1
    <3>1. On(f, k - 1) \in 0 .. NPROC /\ Off(f, On(f, k - 1)) = k - 1
      BY <1>1, <2>1 DEF On, Off
    <3>2. On(f, k - 1) \in Rings!Visited(q, f) /\ q.queue[On(f, k - 1)] = p
      BY <1>1, <1>2, <1>3, <2>1, <3>1
    <3>3. x \in Rings!Visited(q, f) /\ q.queue[x] = p  BY <1>2, <2>4, <3>2
    <3>4. x \in 0 .. NPROC /\ Off(f, x) < Len(s)  BY <1>3, <3>3
    <3>5. PICK o \in 0 .. NPROC : o = Off(f, x)  BY <2>8, <3>4
    <3>6. s[o + 1] = p /\ o + 1 \in 1 .. Len(s)  BY <1>1, <1>2, <3>3, <3>4, <3>5
    <3>7. o + 1 = k  BY <2>2, <3>6
    <3> QED  BY <1>1, <3>4, <3>5, <3>7
  <2>10. q.back \in 0 .. NPROC /\ Off(f, q.back) = Len(s) /\ Rings!Dist(x, q.back) = Len(s) - (k - 1)
    <3>1. q.back \in 0 .. NPROC /\ Off(f, q.back) = Len(s)  BY <1>1, <1>2 DEF On, Off
    <3>2. Rings!Dist(x, q.back) = Off(x, q.back)  BY <1>1, <2>9, <3>1, Indices DEF Off
    <3>3. Off(x, q.back) = Len(s) - (k - 1)  BY <1>1, <2>1, <2>9, <3>1 DEF Off
    <3> QED  BY <3>1, <3>2, <3>3
  <2>11. \A j \in 0 .. NPROC : j \in Rings!Visited(q, x) <=> k - 1 <= Off(f, j) /\ Off(f, j) < Len(s)
    <3> SUFFICES ASSUME NEW j \in 0 .. NPROC
                 PROVE  j \in Rings!Visited(q, x) <=> k - 1 <= Off(f, j) /\ Off(f, j) < Len(s)
      OBVIOUS
    <3>1. Rings!Dist(x, j) = Off(x, j)  BY <1>1, <2>9, Indices DEF Off
    <3>2. Off(x, j) = IF k - 1 <= Off(f, j) THEN Off(f, j) - (k - 1)
                      ELSE Off(f, j) - (k - 1) + NPROC + 1
      BY <1>1, <2>1, <2>9 DEF Off
    <3>3. j \in Rings!Visited(q, x) <=> Rings!Dist(x, j) < Len(s) - (k - 1)
      BY <2>10, Indices DEF Rings!Visited
    <3>4. PICK o \in 0 .. NPROC : o = Off(f, j)  BY <2>8
    <3> QED  BY <1>1, <2>1, <3>1, <3>2, <3>3, <3>4
  <2>12. \A j \in 0 .. NPROC : Off(f, j) < NPROC =>
             Rings!nxt(j) \in 0 .. NPROC /\ Off(f, Rings!nxt(j)) = Off(f, j) + 1
    <3> SUFFICES ASSUME NEW j \in 0 .. NPROC, Off(f, j) < NPROC
                 PROVE  Rings!nxt(j) \in 0 .. NPROC /\ Off(f, Rings!nxt(j)) = Off(f, j) + 1
      OBVIOUS
    <3>1. Rings!nxt(j) = IF j = NPROC THEN 0 ELSE j + 1  BY Indices
    <3>2. Rings!nxt(j) \in 0 .. NPROC  BY <1>1, <3>1
    <3>3. j = NPROC => Off(f, 0) = Off(f, j) + 1  BY <1>1 DEF Off
    <3>4. j # NPROC => Off(f, j + 1) = Off(f, j) + 1  BY <1>1 DEF Off
    <3> QED  BY <3>1, <3>2, <3>3, <3>4
  <2>13. ASSUME NEW j \in 0 .. NPROC
         PROVE  row[j] = IF Off(f, j) < Len(t) THEN t[Off(f, j) + 1] ELSE NoProc
    <3>1. PICK o \in 0 .. NPROC : o = Off(f, j)  BY <2>8
    <3>2. j = q.back <=> o = Len(s)  BY <1>1, <2>10, <3>1, SMTT(30) DEF Off
    <3>3. CASE o >= Len(s)
      <4>1. row[j] = NoProc
        <5>1. CASE o = Len(s)  BY <3>2, <5>1
        <5>2. CASE o # Len(s)
          <6>1. j # q.back /\ j \notin Rings!Visited(q, x)  BY <1>1, <2>11, <3>1, <3>2, <3>3, <5>2
          <6>2. q.queue[j] = NoProc  BY <1>1, <1>2, <3>1, <3>3
          <6> QED  BY <6>1, <6>2
        <5> QED  BY <5>1, <5>2
      <4> QED  BY <1>1, <2>3, <3>1, <3>3, <4>1
    <3>4. CASE o < Len(s) /\ k - 1 <= o
      <4>1. row[j] = q.queue[Rings!nxt(j)]  BY <1>1, <2>11, <3>1, <3>2, <3>4
      <4>2. Rings!nxt(j) \in 0 .. NPROC /\ Off(f, Rings!nxt(j)) = o + 1
        BY <1>1, <2>12, <3>1, <3>4
      <4>3. q.queue[Rings!nxt(j)] = IF o + 1 < Len(s) THEN s[o + 1 + 1] ELSE NoProc
        BY <1>2, <4>2
      <4>4. o + 1 < Len(s) => t[o + 1] = s[o + 1 + 1]  BY <1>1, <2>1, <2>3, <3>4
      <4> QED  BY <1>1, <2>3, <3>1, <4>1, <4>3, <4>4
    <3>5. CASE o < k - 1
      <4>1. row[j] = q.queue[j]  BY <1>1, <2>1, <2>11, <3>1, <3>2, <3>5
      <4>2. q.queue[j] = s[o + 1] /\ t[o + 1] = s[o + 1]  BY <1>1, <1>2, <2>1, <2>3, <3>1, <3>5, SMTT(30)
      <4> QED  BY <1>1, <2>1, <2>3, <3>1, <3>5, <4>1, <4>2
    <3> QED  BY <1>1, <2>1, <3>3, <3>4, <3>5
  <2>14. row = [i \in 0 .. NPROC |-> IF Off(f, i) < Len(t) THEN t[Off(f, i) + 1] ELSE NoProc]
    BY <2>13
  <2>15. Rings!prv(q.back) = On(f, Len(t))
    <3>1. Rings!prv(q.back) = IF q.back = 0 THEN NPROC ELSE q.back - 1  BY <2>10, Indices
    <3> QED  BY <1>1, <1>2, <2>1, <2>3, <3>1 DEF On
  <2> HIDE DEF row
  <2> QED  BY <2>5, <2>6, <2>7, <2>14, <2>15 DEF q, t
<1> QED  BY <1>4, <1>5

(* q_push writes p behind the others; the ring has room for it, because     *)
(* nobody is in it twice.                                                   *)
LEMMA RingPush ==
    ASSUME NEW f \in 0 .. NPROC, NEW s, Line(s), NEW p \in Procs
    PROVE  Rings!ring_push(RingOf(f, s), p) = RingOf(f, q_push(s, p))
<1> DEFINE t == q_remove(s, p)
<1> DEFINE u == q_push(s, p)
<1> DEFINE r == RingOf(f, t)
<1>1. NPROC \in Nat \ {0} /\ s \in Seq(Procs) /\ Len(s) <= NPROC  BY LineFits, Indices DEF Line
<1>2. Rings!ring_push(RingOf(f, s), p) = [r EXCEPT !.queue[r.back] = p, !.back = Rings!nxt(@)]
  <2>1. Rings!ring_remove(RingOf(f, s), p) = r  BY RingRemove
  <2>2. ~Rings!ring_exist(RingOf(f, s), p) => Rings!ring_remove(RingOf(f, s), p) = RingOf(f, s)
    BY DEF Rings!ring_remove
  <2> HIDE DEF r
  <2> QED  BY <2>1, <2>2 DEF Rings!ring_push
<1>3. Line(t) /\ Line(u)  BY Removed, Pushed
<1>4. t \in Seq(Procs) /\ Len(t) \in Nat /\ u = Append(t, p) /\ Len(u) <= NPROC
  <2>1. u = Append(t, p)  BY DEF q_push
  <2> HIDE DEF t, u
  <2>2. t \in Seq(Procs) /\ Len(t) \in Nat  BY <1>3 DEF Line
  <2> QED  BY <1>3, <2>1, <2>2, LineFits
<1> HIDE DEF t
<1>5. /\ Len(u) = Len(t) + 1 /\ Len(t) < NPROC /\ u[Len(t) + 1] = p
      /\ \A k \in 1 .. Len(t) : u[k] = t[k]
  BY <1>1, <1>4
<1>6. /\ r.front = f /\ r.back = On(f, Len(t))
      /\ r.queue = [i \in 0 .. NPROC |-> IF Off(f, i) < Len(t) THEN t[Off(f, i) + 1] ELSE NoProc]
      /\ r = [queue |-> r.queue, front |-> r.front, back |-> r.back]
  BY DEF RingOf
<1>7. RingOf(f, u) =
         [queue |-> [i \in 0 .. NPROC |-> IF Off(f, i) < Len(u) THEN u[Off(f, i) + 1] ELSE NoProc],
          front |-> f, back |-> On(f, Len(u))]
  BY DEF RingOf
<1> HIDE DEF r, u
<1>8. r.back \in 0 .. NPROC /\ Off(f, r.back) = Len(t) /\ Rings!nxt(r.back) = On(f, Len(u))
  <2>1. r.back \in 0 .. NPROC /\ Off(f, r.back) = Len(t)
    <3>1. PICK m \in 0 .. NPROC : m = Len(t)  BY <1>1, <1>4, <1>5
    <3>2. On(f, m) \in 0 .. NPROC /\ Off(f, On(f, m)) = m  BY <1>1 DEF On, Off
    <3> QED  BY <1>6, <3>1, <3>2
  <2>2. Rings!nxt(r.back) = IF r.back = NPROC THEN 0 ELSE r.back + 1  BY <2>1, Indices
  <2> QED  BY <1>1, <1>4, <1>5, <1>6, <2>1, <2>2 DEF On
<1>9. ASSUME NEW j \in 0 .. NPROC
      PROVE  [r.queue EXCEPT ![r.back] = p][j] =
                 IF Off(f, j) < Len(u) THEN u[Off(f, j) + 1] ELSE NoProc
  <2>1. Off(f, j) \in 0 .. NPROC /\ (Off(f, j) = Len(t) => j = r.back)
    BY <1>1, <1>4, <1>8, SMTT(30) DEF Off
  <2>2. PICK o \in 0 .. NPROC : o = Off(f, j)  BY <2>1
  <2>3. CASE j = r.back  BY <1>4, <1>5, <1>6, <1>8, <2>2, <2>3
  <2>4. CASE j # r.back
    <3>1. [r.queue EXCEPT ![r.back] = p][j] = IF o < Len(t) THEN t[o + 1] ELSE NoProc
      BY <1>6, <2>2, <2>4
    <3>2. o # Len(t)  BY <2>1, <2>2, <2>4
    <3> QED  BY <1>4, <1>5, <2>2, <3>1, <3>2
  <2> QED  BY <2>3, <2>4
<1>10. [r.queue EXCEPT ![r.back] = p] =
          [i \in 0 .. NPROC |-> IF Off(f, i) < Len(u) THEN u[Off(f, i) + 1] ELSE NoProc]
  BY <1>6, <1>9
<1>11. [r EXCEPT !.queue[r.back] = p, !.back = Rings!nxt(@)] =
          [queue |-> [r.queue EXCEPT ![r.back] = p], front |-> r.front, back |-> Rings!nxt(r.back)]
  <2>1. IsRing(r)  BY <1>6 DEF IsRing
  <2> QED  BY <2>1, PushRecord
<1> QED  BY <1>2, <1>6, <1>7, <1>8, <1>10, <1>11 DEF r, u

(* The rings of queue.c hold the sequences of Mlfq, for every NPROC.        *)
THEOREM RingsCorrect == Rings!RingMatches(Procs)
<1> SUFFICES ASSUME NEW n \in 0 .. NPROC, NEW s \in [1 .. n -> Procs], Rings!IsInjective(s),
                    NEW f \in Rings!Cells
             PROVE  LET q == Rings!RingAt(f, s) IN
                    /\ Matches(q, s) /\ Rings!Contents(q) = s
                    /\ Rings!ring_empty(q) <=> s = <<>>
                    /\ s # <<>> => Matches(Rings!ring_pop(q), Tail(s)) /\ Rings!ring_front(q) = Head(s)
                    /\ \A p \in Procs :
                          /\ Rings!ring_exist(q, p) <=> Rings!Contains(s, p)
                          /\ Matches(Rings!ring_remove(q, p), Rings!RemoveFirst(s, p))
                          /\ Matches(Rings!ring_push(q, p), Append(Rings!RemoveFirst(s, p), p))
  BY DEF Rings!RingMatches, Matches
<1> DEFINE q == RingOf(f, s)
<1>1. /\ NPROC \in Nat \ {0} /\ n \in Nat /\ f \in 0 .. NPROC
      /\ s \in Seq(Procs) /\ Len(s) = n /\ DOMAIN s = 1 .. n
  BY Indices
<1>2. Line(s)  BY <1>1 DEF Line, Once, Rings!IsInjective
<1>3. Rings!RingAt(f, s) = q  BY <1>1, RingIs
<1>4. Matches(q, s) /\ Rings!Contents(q) = s  BY <1>1, RingMade, ContentsAre
<1>5. Rings!ring_empty(q) <=> s = <<>>
  <2>1. q.front = f /\ q.back = On(f, n)  BY <1>1 DEF RingOf
  <2>2. f = On(f, n) <=> n = 0  BY <1>1 DEF On
  <2> QED  BY <1>1, <2>1, <2>2 DEF Rings!ring_empty
<1>6. s # <<>> => Matches(Rings!ring_pop(q), Tail(s)) /\ Rings!ring_front(q) = Head(s)
  <2> SUFFICES ASSUME s # <<>>
               PROVE  Matches(Rings!ring_pop(q), Tail(s)) /\ Rings!ring_front(q) = Head(s)
    OBVIOUS
  <2>1. Tail(s) \in Seq(Procs) /\ Len(Tail(s)) <= NPROC  BY <1>1
  <2>2. /\ Rings!ring_pop(q) = RingOf(On(f, 1), Tail(s)) /\ Rings!ring_front(q) = Head(s)
        /\ On(f, 1) \in 0 .. NPROC
    BY <1>1, RingPop
  <2> QED  BY <2>1, <2>2, RingMade
<1>7. ASSUME NEW p \in Procs
      PROVE  /\ Rings!ring_exist(q, p) <=> Rings!Contains(s, p)
             /\ Matches(Rings!ring_remove(q, p), Rings!RemoveFirst(s, p))
             /\ Matches(Rings!ring_push(q, p), Append(Rings!RemoveFirst(s, p), p))
  <2>1. Rings!RemoveFirst(s, p) = q_remove(s, p)
    BY DEF q_remove, RemoveFirst, Rings!RemoveFirst, RemoveAt, Rings!RemoveAt,
           SelectInSeq, Rings!SelectInSeq, Min, Rings!Min
  <2>2. Rings!Contains(s, p) <=> Contains(s, p)  BY DEF Contains, Rings!Contains
  <2>3. Line(q_remove(s, p)) /\ Line(q_push(s, p))  BY <1>2, Removed, Pushed
  <2>4. /\ q_remove(s, p) \in Seq(Procs) /\ Len(q_remove(s, p)) <= NPROC
        /\ q_push(s, p) \in Seq(Procs) /\ Len(q_push(s, p)) <= NPROC
    BY <2>3, LineFits DEF Line
  <2>5. Matches(Rings!ring_remove(q, p), q_remove(s, p))
    BY <1>1, <1>2, <2>4, RingRemove, RingMade
  <2>6. Matches(Rings!ring_push(q, p), q_push(s, p))
    BY <1>1, <1>2, <2>4, RingPush, RingMade
  <2>7. Rings!ring_exist(q, p) <=> Contains(s, p)  BY <1>1, RingExist
  <2> QED  BY <2>1, <2>2, <2>5, <2>6, <2>7 DEF q_push
<1> QED  BY <1>3, <1>4, <1>5, <1>6, <1>7
=============================================================================
