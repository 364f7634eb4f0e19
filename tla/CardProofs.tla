----------------------------- MODULE CardProofs -----------------------------
(***************************************************************************)
(* Proofs about ContactCard and ContentLines, for every set of cards and   *)
(* forms, texts of any length and any limit of a line.                     *)
(*                                                                         *)
(* Induction over data is by Induction and SequenceInduction, which take a *)
(* set where the library's theorems take a predicate.  A recursive         *)
(* function is first shown to exist (Iteration, RestExists) and then known *)
(* by its steps.                                                           *)
(*                                                                         *)
(* Every edit of a card is compared with the card before it in three ways: *)
(*   Sourced   a line was there, or is one the edit has written;           *)
(*   EditOf    lines of other names stay in order, and the satellites of a *)
(*             group go exactly when its property goes;                    *)
(*   Listed    the lines of a list are those the rows ask for, and one     *)
(*             that has the value and the type of its row is untouched.    *)
(* Apply is a chain of such edits of different properties, so what one of  *)
(* them has written is still there at the end (Progress).  A removal takes *)
(* the group of its line along: the indices SetAll removes by hold as long *)
(* as a group begins with its property (RemoveTruncates), or as long as a  *)
(* group has one property and only the last line goes (RemoveLast).        *)
(***************************************************************************)
EXTENDS ContactCard, NaturalsInduction, WellFoundedInduction, SequenceTheorems, TLAPS

-----------------------------------------------------------------------------
(* Induction, over a set instead of a predicate                            *)

(* Induction on the natural numbers.                                       *)
LEMMA Induction ==
    ASSUME NEW S, 0 \in S, \A n \in Nat : n \in S => n + 1 \in S
    PROVE  \A n \in Nat : n \in S
  <1> SUFFICES ASSUME \E n \in Nat : n \notin S PROVE FALSE
    OBVIOUS
  <1> DEFINE T == {n \in Nat : n \notin S}
             R == OpToRel(<, Nat)
  <1>1. IsWellFoundedOn(R, Nat)
    BY NatLessThanWellFounded
  <1>2. T \subseteq Nat /\ T # {}
    OBVIOUS
  <1>3. \E x \in T : \A y \in T : <<y, x>> \notin R
    <2> HIDE DEF T, R
    <2> QED
      BY <1>1, <1>2, WFMin
  <1>4. PICK x \in T : \A y \in T : <<y, x>> \notin R
    BY <1>3
  <1>5. \A y \in T : ~(y < x)
    <2>1. R = {ss \in Nat \X Nat : ss[1] < ss[2]}
      BY DEF OpToRel
    <2> HIDE DEF R
    <2> QED
      BY <1>4, <2>1
  <1>6. x # 0 /\ x \in Nat /\ x \notin S
    OBVIOUS
  <1>7. x - 1 \in Nat /\ x - 1 < x /\ (x - 1) + 1 = x
    BY <1>6
  <1>8. x - 1 \notin T
    <2> HIDE DEF T
    <2> QED
      BY <1>5, <1>7
  <1>9. x - 1 \in S
    BY <1>7, <1>8
  <1> QED
    BY <1>6, <1>7, <1>9

(* Induction on sequences, from the front: Append is the step.             *)
LEMMA SequenceInduction ==
    ASSUME NEW A, NEW S, <<>> \in S,
           \A s \in Seq(A), x \in A : s \in S => Append(s, x) \in S
    PROVE  \A s \in Seq(A) : s \in S
  <1> DEFINE T == {n \in Nat : \A s \in Seq(A) : Len(s) = n => s \in S}
  <1>1. 0 \in T
    <2>1. \A s \in Seq(A) : Len(s) = 0 => s = <<>>
      OBVIOUS
    <2> QED
      BY <2>1
  <1>2. ASSUME NEW n \in Nat, n \in T PROVE n + 1 \in T
    <2> SUFFICES ASSUME NEW s \in Seq(A), Len(s) = n + 1 PROVE s \in S
      OBVIOUS
    <2> DEFINE front == SubSeq(s, 1, n)
               last  == s[n + 1]
    <2>1. front \in Seq(A) /\ Len(front) = n /\ last \in A
      OBVIOUS
    <2>2. s = Append(front, last)
      OBVIOUS
    <2>3. front \in S
      <3> HIDE DEF front
      <3> QED
        BY <1>2, <2>1
    <2> HIDE DEF front, last
    <2> QED
      BY <2>1, <2>2, <2>3
  <1>3. \A n \in Nat : n \in T
    <2> HIDE DEF T
    <2> QED
      BY <1>1, <1>2, Induction
  <1> QED
    BY <1>3

(* A function that is defined from one number to the next exists.          *)
Steps(f, N, b, h) == f[0] = b /\ \A n \in 1..N : f[n] = h[n][f[n - 1]]

(* Any start and any steps over V have a run of values in V.               *)
LEMMA Iteration ==
    ASSUME NEW N \in Nat, NEW V, NEW b \in V, NEW h \in [1..N -> [V -> V]]
    PROVE  \E f \in [0..N -> V] : Steps(f, N, b, h)
  <1> DEFINE Good(m, f) == f[0] = b /\ \A n \in 1..m : f[n] = h[n][f[n - 1]]
             S == {m \in Nat : m <= N => \E f \in [0..m -> V] : Good(m, f)}
  <1>1. 0 \in S
    <2> DEFINE f == [n \in 0..0 |-> b]
    <2>1. f \in [0..0 -> V] /\ Good(0, f)
      OBVIOUS
    <2> HIDE DEF Good, f
    <2> QED
      BY <2>1
  <1>2. ASSUME NEW m \in Nat, m \in S PROVE m + 1 \in S
    <2> SUFFICES ASSUME m + 1 <= N
                 PROVE  \E f \in [0..(m + 1) -> V] : Good(m + 1, f)
      <3> HIDE DEF Good
      <3> QED
        OBVIOUS
    <2>1. PICK g \in [0..m -> V] : Good(m, g)
      <3> HIDE DEF Good
      <3> QED
        BY <1>2
    <2> DEFINE f == [n \in 0..(m + 1) |-> IF n <= m THEN g[n] ELSE h[m + 1][g[m]]]
    <2>2. g[m] \in V /\ m + 1 \in 1..N
      OBVIOUS
    <2>3. h[m + 1] \in [V -> V]
      BY <2>2
    <2>4. h[m + 1][g[m]] \in V
      BY <2>2, <2>3
    <2>5. f \in [0..(m + 1) -> V]
      BY <2>4
    <2>6. \A n \in 0..m : f[n] = g[n]
      OBVIOUS
    <2>7. f[m + 1] = h[m + 1][g[m]]
      OBVIOUS
    <2> HIDE DEF f
    <2>8. f[0] = b
      BY <2>1, <2>6
    <2>9. ASSUME NEW n \in 1..(m + 1) PROVE f[n] = h[n][f[n - 1]]
      <3>1. CASE n = m + 1
        <4>1. n - 1 = m /\ m \in 0..m
          BY <3>1
        <4> QED
          BY <3>1, <4>1, <2>6, <2>7
      <3>2. CASE n # m + 1
        <4>1. n \in 1..m /\ n \in 0..m /\ n - 1 \in 0..m
          BY <3>2
        <4>2. g[n] = h[n][g[n - 1]]
          BY <2>1, <4>1
        <4> QED
          BY <4>1, <4>2, <2>6
      <3> QED
        BY <3>1, <3>2
    <2> QED
      BY <2>5, <2>8, <2>9
  <1>3. \A m \in Nat : m \in S
    <2> HIDE DEF S
    <2> QED
      BY <1>1, <1>2, Induction
  <1>4. N \in S
    BY <1>3
  <1> QED
    BY <1>4 DEF Steps

(* Two functions that take the same steps are the same.                    *)
Follows(f, g, N) ==
    f[0] = g[0] /\ \A n \in 1..N : f[n - 1] = g[n - 1] => f[n] = g[n]

(* Two functions that take the same steps are the same up to N.            *)
LEMMA SameSteps ==
    ASSUME NEW N \in Nat, NEW f, NEW g, Follows(f, g, N)
    PROVE  \A n \in 0..N : f[n] = g[n]
  <1> USE DEF Follows
  <1> DEFINE S == {m \in Nat : m <= N => f[m] = g[m]}
  <1>1. 0 \in S
    OBVIOUS
  <1>2. ASSUME NEW m \in Nat, m \in S PROVE m + 1 \in S
    <2>1. m + 1 <= N => m + 1 \in 1..N /\ (m + 1) - 1 = m /\ m <= N
      OBVIOUS
    <2> QED
      BY <1>2, <2>1
  <1>3. \A m \in Nat : m \in S
    <2> HIDE DEF S
    <2> QED
      BY <1>1, <1>2, Induction
  <1> QED
    BY <1>3

-----------------------------------------------------------------------------
(* Where and Only                                                          *)

WhereRun(s, S, f) ==
    /\ f \in [0..Len(s) -> Seq(Nat)] /\ f[0] = <<>>
    /\ \A n \in 1..Len(s) :
         f[n] = IF s[n] \in S THEN Append(f[n - 1], n) ELSE f[n - 1]
    /\ Where(s, S) = f[Len(s)]

(* The run that Where computes exists: Where is defined on every sequence. *)
LEMMA WhereSteps ==
    ASSUME NEW A, NEW s \in Seq(A), NEW S
    PROVE  \E f : WhereRun(s, S, f)
  <1> DEFINE N == Len(s)
             V == Seq(Nat)
             b == <<>>
             step(v, n) == IF s[n] \in S THEN Append(v, n) ELSE v
             h == [n \in 1..N |-> [v \in V |-> step(v, n)]]
             body(f) == [n \in 0..N |-> IF n = 0 THEN b ELSE step(f[n - 1], n)]
             out == CHOOSE f : f = body(f)
  <1>1. N \in Nat /\ b \in V
    OBVIOUS
  <1>2. \A v \in V, n \in 1..N : step(v, n) \in V
    OBVIOUS
  <1>10. Where(s, S) = out[N]
    BY DEF Where
  <1> HIDE DEF N, V, b, step
  <1>3. h \in [1..N -> [V -> V]]
    BY <1>2
  <1>4. PICK f \in [0..N -> V] : Steps(f, N, b, h)
    <2> HIDE DEF h, out
    <2> QED
      BY <1>1, <1>3, Iteration
  <1>5. f[0] = b /\ \A n \in 1..N : f[n] = h[n][f[n - 1]]
    BY <1>4 DEF Steps
  <1>6. \A n \in 1..N : f[n - 1] \in V
    BY <1>1, <1>4
  <1>7. \A n \in 1..N : f[n] = step(f[n - 1], n)
    <2> HIDE DEF out
    <2> QED
      BY <1>5, <1>6
  <1>8. f = body(f)
    <2> HIDE DEF out, h
    <2>1. \A n \in 0..N : n # 0 => n \in 1..N
      BY <1>1
    <2>2. \A n \in 0..N : f[n] = IF n = 0 THEN b ELSE step(f[n - 1], n)
      BY <2>1, <1>5, <1>7
    <2> QED
      BY <2>2
  <1>9. out = body(out)
    <2> HIDE DEF body
    <2> QED
      BY <1>8
  <1> HIDE DEF out, h
  <1>11. \A n \in 0..N : out[n] = f[n]
    <2>1. out[0] = f[0]
      <3>1. 0 \in 0..N
        BY <1>1
      <3> QED
        BY <3>1, <1>9, <1>5
    <2>2. \A n \in 1..N : out[n - 1] = f[n - 1] => out[n] = f[n]
      <3>1. \A n \in 1..N : n \in 0..N /\ n # 0
        BY <1>1
      <3>2. \A n \in 1..N : out[n] = step(out[n - 1], n)
        BY <3>1, <1>9
      <3> QED
        BY <3>2, <1>7
    <2>3. Follows(out, f, N)
      BY <2>1, <2>2 DEF Follows
    <2> QED
      BY <1>1, <2>3, SameSteps
  <1>12. Where(s, S) = f[N]
    <2>1. N \in 0..N
      BY <1>1
    <2> QED
      BY <2>1, <1>10, <1>11
  <1>13. WhereRun(s, S, f)
    BY <1>4, <1>5, <1>7, <1>12, Zenon DEF WhereRun, N, V, b, step
  <1> QED
    BY <1>13

(* Nothing is found in the empty sequence.                                 *)
LEMMA WhereEmpty ==
    ASSUME NEW S
    PROVE  Where(<<>>, S) = <<>>
  <1> DEFINE s == <<>>
  <1>1. s \in Seq({}) /\ Len(s) = 0
    OBVIOUS
  <1>2. s = <<>>
    OBVIOUS
  <1> HIDE DEF s
  <1>3. PICK f : WhereRun(s, S, f)
    BY <1>1, WhereSteps
  <1> QED
    BY <1>1, <1>2, <1>3 DEF WhereRun

(* An appended element adds its index when it is in S.                     *)
LEMMA WhereAppend ==
    ASSUME NEW A, NEW s \in Seq(A), NEW x \in A, NEW S
    PROVE  /\ Where(s, S) \in Seq(Nat)
           /\ Where(Append(s, x), S) = IF x \in S THEN Append(Where(s, S), Len(s) + 1)
                                                  ELSE Where(s, S)
  <1> DEFINE t == Append(s, x)
             N == Len(s)
  <1>1. /\ t \in Seq(A) /\ Len(t) = N + 1 /\ N \in Nat /\ t[N + 1] = x
        /\ \A n \in 1..N : t[n] = s[n]
    OBVIOUS
  <1> HIDE DEF t
  <1>2. PICK f : WhereRun(s, S, f)
    BY WhereSteps
  <1>3. PICK g : WhereRun(t, S, g)
    BY <1>1, WhereSteps
  <1>f. /\ f \in [0..N -> Seq(Nat)] /\ f[0] = <<>>
        /\ \A n \in 1..N : f[n] = IF s[n] \in S THEN Append(f[n - 1], n) ELSE f[n - 1]
        /\ Where(s, S) = f[N]
    BY <1>2 DEF WhereRun
  <1>g. /\ g \in [0..Len(t) -> Seq(Nat)] /\ g[0] = <<>>
        /\ \A n \in 1..Len(t) : g[n] = IF t[n] \in S THEN Append(g[n - 1], n) ELSE g[n - 1]
        /\ Where(t, S) = g[Len(t)]
    BY <1>3 DEF WhereRun
  <1> HIDE DEF N
  <1>4. \A n \in 0..N : f[n] = g[n]
    <2>1. \A n \in 1..N : n \in 1..Len(t)
      BY <1>1
    <2>2. \A n \in 1..N : f[n - 1] = g[n - 1] => f[n] = g[n]
      BY <1>1, <1>f, <1>g, <2>1
    <2>3. f[0] = g[0]
      BY <1>f, <1>g
    <2>4. Follows(f, g, N)
      BY <2>2, <2>3 DEF Follows
    <2>5. N \in Nat
      BY <1>1
    <2> QED
      BY <2>4, <2>5, SameSteps, Zenon
  <1>5. N + 1 \in 1..Len(t) /\ (N + 1) - 1 = N /\ N \in 0..N
    BY <1>1
  <1>6. g[N + 1] = IF x \in S THEN Append(g[N], N + 1) ELSE g[N]
    BY <1>1, <1>g, <1>5
  <1>7. f[N] \in Seq(Nat)
    BY <1>f, <1>5
  <1> QED
    BY <1>1, <1>f, <1>g, <1>4, <1>5, <1>6, <1>7 DEF t, N

(* The indices are those of the elements in S, from the smallest on.       *)
WhereIs(s, S, w) ==
    /\ w \in Seq(1..Len(s))
    /\ \A k \in 1..Len(w) : s[w[k]] \in S /\ k <= w[k]
    /\ \A j, k \in 1..Len(w) : j < k => w[j] < w[k]
    /\ \A i \in 1..Len(s) : s[i] \in S => \E k \in 1..Len(w) : w[k] = i

(* Where returns the indices of the elements in S, all of them and in      *)
(* order.                                                                  *)
LEMMA WhereAll ==
    ASSUME NEW A, NEW S, NEW s \in Seq(A)
    PROVE  WhereIs(s, S, Where(s, S))
  <1> DEFINE T == {t \in Seq(A) : WhereIs(t, S, Where(t, S))}
  <1>1. <<>> \in T
    <2> DEFINE e == <<>>
    <2>1. e \in Seq(A) /\ e \in Seq(1..Len(e)) /\ Len(e) = 0
      OBVIOUS
    <2>2. Where(e, S) = e
      BY WhereEmpty
    <2> HIDE DEF e
    <2>3. \A k \in 1..Len(e) : FALSE
      BY <2>1
    <2>4. WhereIs(e, S, e)
      BY <2>1, <2>3 DEF WhereIs
    <2> QED
      BY <2>1, <2>2, <2>4 DEF e
  <1>2. ASSUME NEW t \in Seq(A), NEW x \in A, t \in T
        PROVE  Append(t, x) \in T
    <2> DEFINE u == Append(t, x)
               v == Where(t, S)
               w == Where(u, S)
               N == Len(t)
    <2>1. WhereIs(t, S, v)
      BY <1>2
    <2>2. w = IF x \in S THEN Append(v, N + 1) ELSE v
      BY WhereAppend
    <2>3. /\ u \in Seq(A) /\ Len(u) = N + 1 /\ N \in Nat /\ u[N + 1] = x
          /\ \A n \in 1..N : u[n] = t[n]
      OBVIOUS
    <2>4. v \in Seq(1..N) /\ v \in Seq(1..(N + 1)) /\ Len(v) \in Nat
      BY <2>1, <2>3 DEF WhereIs
    <2>5. \A k \in 1..Len(v) : v[k] \in 1..N
      BY <2>4
    <2> HIDE DEF u, v, w, N
    <2>6. CASE x \notin S
      <3>1. \A i \in 1..(N + 1) : u[i] \in S => i \in 1..N /\ t[i] \in S
        BY <2>3, <2>6
      <3>2. \A i \in 1..Len(u) : u[i] \in S => \E k \in 1..Len(v) : v[k] = i
        BY <3>1, <2>1, <2>3 DEF WhereIs, N
      <3>3. \A k \in 1..Len(v) : u[v[k]] \in S
        BY <2>1, <2>3, <2>5 DEF WhereIs
      <3>4. WhereIs(u, S, v)
        BY <3>2, <3>3, <2>1, <2>3, <2>4 DEF WhereIs
      <3> QED
        BY <2>2, <2>3, <2>6, <3>4 DEF u, w
    <2>7. CASE x \in S
      <3> DEFINE a == Append(v, N + 1)
      <3>1. /\ a \in Seq(1..(N + 1)) /\ Len(a) = Len(v) + 1 /\ a[Len(v) + 1] = N + 1
            /\ \A k \in 1..Len(v) : a[k] = v[k]
        BY <2>3, <2>4
      <3> HIDE DEF a
      <3>2. \A k \in 1..Len(a) : k \in 1..Len(v) \/ k = Len(v) + 1
        BY <3>1, <2>4
      <3>3. Len(v) <= N
        <4>1. Len(v) > 0 => Len(v) \in 1..Len(v)
          BY <2>4
        <4>2. \A k \in 1..Len(v) : k <= v[k]
          BY <2>1 DEF WhereIs
        <4>3. CASE Len(v) > 0
          <5>1. v[Len(v)] \in 1..N /\ Len(v) <= v[Len(v)]
            BY <4>1, <4>2, <4>3, <2>5
          <5> QED
            BY <5>1, <2>3, <2>4
        <4> QED
          BY <4>3, <2>3, <2>4
      <3>4. \A k \in 1..Len(a) : u[a[k]] \in S /\ k <= a[k]
        <4>1. ASSUME NEW k \in 1..Len(v) PROVE u[a[k]] \in S /\ k <= a[k]
          BY <2>1, <2>3, <2>5, <3>1 DEF WhereIs
        <4>2. u[a[Len(v) + 1]] \in S /\ Len(v) + 1 <= a[Len(v) + 1]
          BY <2>3, <2>4, <2>7, <3>1, <3>3
        <4> QED
          BY <3>2, <4>1, <4>2
      <3>5. \A j, k \in 1..Len(a) : j < k => a[j] < a[k]
        <4> SUFFICES ASSUME NEW j \in 1..Len(a), NEW k \in 1..Len(a), j < k
                     PROVE  a[j] < a[k]
          OBVIOUS
        <4>1. j \in 1..Len(v)
          BY <3>1, <2>4
        <4>2. CASE k \in 1..Len(v)
          BY <4>1, <4>2, <3>1, <2>1 DEF WhereIs
        <4>3. CASE k = Len(v) + 1
          BY <4>1, <4>3, <3>1, <2>3, <2>5, SMTT(30)
        <4> QED
          BY <3>2, <4>2, <4>3
      <3>6. \A i \in 1..Len(u) : u[i] \in S => \E k \in 1..Len(a) : a[k] = i
        <4> SUFFICES ASSUME NEW i \in 1..Len(u), u[i] \in S
                     PROVE  \E k \in 1..Len(a) : a[k] = i
          OBVIOUS
        <4>1. CASE i \in 1..N
          <5>1. PICK k \in 1..Len(v) : v[k] = i
            BY <4>1, <2>1, <2>3 DEF WhereIs, N
          <5>2. k \in 1..Len(a) /\ a[k] = i
            BY <5>1, <3>1, <2>4
          <5> QED
            BY <5>2
        <4>2. CASE i = N + 1
          <5>1. Len(v) + 1 \in 1..Len(a)
            BY <3>1, <2>4
          <5> QED
            BY <5>1, <4>2, <3>1
        <4> QED
          BY <4>1, <4>2, <2>3
      <3>7. WhereIs(u, S, a)
        BY <3>1, <3>4, <3>5, <3>6, <2>3 DEF WhereIs
      <3> QED
        BY <2>2, <2>3, <2>7, <3>7 DEF u, w, a
    <2> QED
      BY <2>6, <2>7
  <1>3. \A t \in Seq(A) : t \in T
    <2> HIDE DEF T
    <2> QED
      BY <1>1, <1>2, SequenceInduction
  <1> QED
    BY <1>3

(* Nothing is kept of the empty sequence.                                  *)
LEMMA OnlyEmpty ==
    ASSUME NEW S
    PROVE  Only(<<>>, S) = <<>>
  BY WhereEmpty DEF Only

(* What Only keeps are elements in S, as many as Where finds.              *)
LEMMA OnlyType ==
    ASSUME NEW A, NEW S, NEW s \in Seq(A)
    PROVE  /\ Only(s, S) \in Seq(A) /\ Only(s, S) \in Seq(A \cap S)
           /\ Len(Only(s, S)) = Len(Where(s, S))
  <1> DEFINE w == Where(s, S)
  <1>1. WhereIs(s, S, w)
    BY WhereAll
  <1>2. Only(s, S) = [k \in DOMAIN w |-> s[w[k]]]
    BY DEF Only
  <1> HIDE DEF w
  <1>3. w \in Seq(1..Len(s)) /\ DOMAIN w = 1..Len(w) /\ Len(w) \in Nat
    BY <1>1 DEF WhereIs
  <1>4. \A k \in 1..Len(w) : w[k] \in 1..Len(s) /\ s[w[k]] \in A /\ s[w[k]] \in S
    BY <1>1, <1>3 DEF WhereIs
  <1> QED
    BY <1>2, <1>3, <1>4 DEF w

(* The k-th element kept is the one at the k-th index.                     *)
LEMMA OnlyAt ==
    ASSUME NEW A, NEW S, NEW s \in Seq(A), NEW k \in 1..Len(Where(s, S))
    PROVE  /\ Where(s, S)[k] \in 1..Len(s) /\ s[Where(s, S)[k]] \in S
           /\ Only(s, S)[k] = s[Where(s, S)[k]]
  <1> DEFINE w == Where(s, S)
  <1>1. WhereIs(s, S, w)
    BY WhereAll
  <1>2. Only(s, S) = [j \in DOMAIN w |-> s[w[j]]]
    BY DEF Only
  <1>3. k \in 1..Len(w)
    OBVIOUS
  <1> HIDE DEF w
  <1>4. w \in Seq(1..Len(s)) /\ DOMAIN w = 1..Len(w) /\ s[w[k]] \in S
    BY <1>1, <1>3 DEF WhereIs
  <1> QED
    BY <1>2, <1>3, <1>4 DEF w

(* An appended element is kept when it is in S.                            *)
LEMMA OnlyAppend ==
    ASSUME NEW A, NEW s \in Seq(A), NEW x \in A, NEW S
    PROVE  Only(Append(s, x), S) = IF x \in S THEN Append(Only(s, S), x) ELSE Only(s, S)
  <1> DEFINE v == Where(s, S)
             t == Append(s, x)
             w == Where(t, S)
             N == Len(s)
  <1>1. w = IF x \in S THEN Append(v, N + 1) ELSE v
    BY WhereAppend
  <1>2. Only(s, S) = [k \in DOMAIN v |-> s[v[k]]] /\ Only(t, S) = [k \in DOMAIN w |-> t[w[k]]]
    BY DEF Only
  <1>3. WhereIs(s, S, v)
    BY WhereAll
  <1>4. /\ t \in Seq(A) /\ Len(t) = N + 1 /\ N \in Nat /\ t[N + 1] = x
        /\ \A n \in 1..N : t[n] = s[n]
    OBVIOUS
  <1> HIDE DEF v, w, t
  <1>5. v \in Seq(1..N) /\ DOMAIN v = 1..Len(v) /\ Len(v) \in Nat
    BY <1>3 DEF WhereIs
  <1>6. \A k \in 1..Len(v) : v[k] \in 1..N
    BY <1>5, ElementOfSeq
  <1> HIDE DEF N
  <1>7. Only(s, S) \in Seq(A) /\ Len(Only(s, S)) = Len(v)
    BY OnlyType DEF v
  <1>8. CASE x \notin S
    BY <1>1, <1>2, <1>4, <1>5, <1>6, <1>8 DEF t
  <1>9. CASE x \in S
    <2> DEFINE o == Only(s, S)
               p == Append(o, x)
               q == [k \in DOMAIN w |-> t[w[k]]]
    <2>1. w = Append(v, N + 1)
      BY <1>1, <1>9
    <2>2. /\ DOMAIN w = 1..(Len(v) + 1) /\ w[Len(v) + 1] = N + 1
          /\ \A k \in 1..Len(v) : w[k] = v[k]
      BY <2>1, <1>4, <1>5
    <2>3. /\ DOMAIN p = 1..(Len(v) + 1) /\ p[Len(v) + 1] = x
          /\ \A k \in 1..Len(v) : p[k] = o[k]
      BY <1>5, <1>7
    <2>4. \A k \in 1..Len(v) : q[k] = p[k]
      BY <2>2, <2>3, <1>2, <1>4, <1>5, <1>6
    <2>5. q[Len(v) + 1] = p[Len(v) + 1]
      BY <2>2, <2>3, <1>4, <1>5
    <2>6. p \in Seq(A) /\ Len(p) = Len(v) + 1
      BY <1>7
    <2>7. \A k \in 1..(Len(v) + 1) : k \in 1..Len(v) \/ k = Len(v) + 1
      BY <1>5
    <2>8. q \in Seq(A) /\ Len(q) = Len(v) + 1
      <3>1. q = Only(t, S)
        BY <1>2
      <3>2. Only(t, S) \in Seq(A) /\ Len(Only(t, S)) = Len(w)
        BY <1>4, OnlyType DEF w
      <3>3. Len(w) = Len(v) + 1
        BY <2>1, <1>4, <1>5
      <3> HIDE DEF q
      <3> QED
        BY <3>1, <3>2, <3>3
    <2> HIDE DEF q, p, o
    <2>9. q = p
      <3>1. \A k \in 1..Len(q) : q[k] = p[k]
        BY <2>4, <2>5, <2>7, <2>8
      <3> QED
        BY <3>1, <2>6, <2>8, SeqEqual
    <2> QED
      BY <2>9, <1>9, <1>2 DEF q, p, o, t
  <1> QED
    BY <1>8, <1>9

(* Only distributes over concatenation.                                    *)
LEMMA OnlyConcat ==
    ASSUME NEW A, NEW S, NEW s \in Seq(A), NEW t \in Seq(A)
    PROVE  Only(s \o t, S) = Only(s, S) \o Only(t, S)
  <1> DEFINE T == {u \in Seq(A) : Only(s \o u, S) = Only(s, S) \o Only(u, S)}
  <1>1. <<>> \in T
    <2> DEFINE e == <<>>
    <2>1. s \o e = s /\ e \in Seq(A)
      OBVIOUS
    <2>2. Only(s, S) \in Seq(A)
      BY OnlyType
    <2>3. Only(s, S) \o e = Only(s, S)
      BY <2>2
    <2>4. Only(e, S) = e
      BY OnlyEmpty
    <2> HIDE DEF e
    <2>5. e \in T
      BY <2>1, <2>3, <2>4
    <2> QED
      BY <2>5 DEF e
  <1>2. ASSUME NEW u \in Seq(A), NEW x \in A, u \in T
        PROVE  Append(u, x) \in T
    <2> DEFINE os == Only(s, S)
               ou == Only(u, S)
    <2>1. os \in Seq(A) /\ ou \in Seq(A)
      BY OnlyType
    <2>2. s \o Append(u, x) = Append(s \o u, x) /\ s \o u \in Seq(A)
      OBVIOUS
    <2>3. Only(s \o Append(u, x), S) =
            IF x \in S THEN Append(Only(s \o u, S), x) ELSE Only(s \o u, S)
      BY <2>2, OnlyAppend
    <2>4. Only(Append(u, x), S) = IF x \in S THEN Append(ou, x) ELSE ou
      BY OnlyAppend
    <2>5. Only(s \o u, S) = os \o ou
      BY <1>2
    <2>6. os \o Append(ou, x) = Append(os \o ou, x)
      BY <2>1
    <2>7. Append(u, x) \in Seq(A)
      OBVIOUS
    <2> HIDE DEF os, ou
    <2>8. Only(s \o Append(u, x), S) = os \o Only(Append(u, x), S)
      BY <2>3, <2>4, <2>5, <2>6
    <2> QED
      BY <2>7, <2>8 DEF os
  <1>3. \A u \in Seq(A) : u \in T
    <2> HIDE DEF T
    <2> QED
      BY <1>1, <1>2, SequenceInduction
  <1> QED
    BY <1>3

(* Only of a single element.                                               *)
LEMMA OnlyOne ==
    ASSUME NEW A, NEW S, NEW x \in A
    PROVE  Only(<<x>>, S) = IF x \in S THEN <<x>> ELSE <<>>
  <1> DEFINE e == <<>>
             y == <<x>>
  <1>1. y = Append(e, x) /\ e \in Seq(A)
    OBVIOUS
  <1>2. Only(e, S) = e
    BY OnlyEmpty
  <1> HIDE DEF e, y
  <1>3. Only(Append(e, x), S) = IF x \in S THEN Append(Only(e, S), x) ELSE Only(e, S)
    BY <1>1, OnlyAppend
  <1>4. Only(y, S) = IF x \in S THEN y ELSE e
    BY <1>1, <1>2, <1>3
  <1> QED
    BY <1>4 DEF e, y

(* A sequence over S is kept as it is.                                     *)
LEMMA OnlyAllOf ==
    ASSUME NEW A, NEW S, NEW s \in Seq(A), \A i \in 1..Len(s) : s[i] \in S
    PROVE  Only(s, S) = s
  <1> DEFINE T == {u \in Seq(A) : (\A i \in 1..Len(u) : u[i] \in S) => Only(u, S) = u}
  <1>1. <<>> \in T
    BY OnlyEmpty
  <1>2. ASSUME NEW u \in Seq(A), NEW x \in A, u \in T
        PROVE  Append(u, x) \in T
    <2> DEFINE v == Append(u, x)
    <2>1. /\ v \in Seq(A) /\ Len(v) = Len(u) + 1 /\ v[Len(u) + 1] = x
          /\ \A i \in 1..Len(u) : v[i] = u[i] /\ i \in 1..Len(v)
          /\ Len(u) + 1 \in 1..Len(v)
      OBVIOUS
    <2>2. Only(v, S) = IF x \in S THEN Append(Only(u, S), x) ELSE Only(u, S)
      BY OnlyAppend
    <2> HIDE DEF v
    <2> SUFFICES ASSUME \A i \in 1..Len(v) : v[i] \in S PROVE Only(v, S) = v
      BY <2>1 DEF v
    <2>3. x \in S /\ \A i \in 1..Len(u) : u[i] \in S
      BY <2>1
    <2>4. Only(u, S) = u
      BY <1>2, <2>3
    <2> QED
      BY <2>2, <2>3, <2>4 DEF v
  <1>3. \A u \in Seq(A) : u \in T
    <2> HIDE DEF T
    <2> QED
      BY <1>1, <1>2, SequenceInduction
  <1> QED
    BY <1>3

(* Of a sequence without elements in S nothing is kept.                    *)
LEMMA OnlyNoneOf ==
    ASSUME NEW A, NEW S, NEW s \in Seq(A), \A i \in 1..Len(s) : s[i] \notin S
    PROVE  Only(s, S) = <<>>
  <1>1. Where(s, S) \in Seq(1..Len(s)) /\ \A k \in 1..Len(Where(s, S)) : s[Where(s, S)[k]] \in S
    BY WhereAll DEF WhereIs
  <1>2. Len(Only(s, S)) = Len(Where(s, S)) /\ Only(s, S) \in Seq(A)
    BY OnlyType
  <1> DEFINE w == Where(s, S)
             o == Only(s, S)
  <1> HIDE DEF w, o
  <1>3. w \in Seq(1..Len(s)) /\ Len(o) = Len(w) /\ o \in Seq(A)
        /\ \A k \in 1..Len(w) : s[w[k]] \in S
    BY <1>1, <1>2 DEF w, o
  <1>4. \A k \in 1..Len(w) : w[k] \in 1..Len(s)
    BY <1>3
  <1>5. Len(w) = 0
    <2>1. Len(w) \in Nat /\ (Len(w) > 0 => 1 \in 1..Len(w))
      BY <1>3
    <2> QED
      BY <2>1, <1>3, <1>4
  <1>6. o = <<>>
    BY <1>3, <1>5
  <1> QED
    BY <1>6 DEF o

(* Two selections are the selection of both.                               *)
LEMMA OnlyOfOnly ==
    ASSUME NEW A, NEW S, NEW R, NEW s \in Seq(A)
    PROVE  Only(Only(s, S), R) = Only(s, S \cap R)
  <1> DEFINE T == {u \in Seq(A) : Only(Only(u, S), R) = Only(u, S \cap R)}
  <1>1. <<>> \in T
    BY OnlyEmpty
  <1>2. ASSUME NEW u \in Seq(A), NEW x \in A, u \in T
        PROVE  Append(u, x) \in T
    <2> DEFINE ou == Only(u, S)
    <2>1. ou \in Seq(A)
      BY OnlyType
    <2>2. Only(Append(u, x), S) = IF x \in S THEN Append(ou, x) ELSE ou
      BY OnlyAppend
    <2>3. Only(Append(u, x), S \cap R) =
            IF x \in S \cap R THEN Append(Only(u, S \cap R), x) ELSE Only(u, S \cap R)
      BY OnlyAppend
    <2>4. Only(ou, R) = Only(u, S \cap R)
      BY <1>2
    <2> HIDE DEF ou
    <2>5. Only(Append(ou, x), R) = IF x \in R THEN Append(Only(ou, R), x) ELSE Only(ou, R)
      BY <2>1, OnlyAppend
    <2>6. Only(Only(Append(u, x), S), R) = Only(Append(u, x), S \cap R)
      <3>1. CASE x \in S /\ x \in R
        BY <3>1, <2>2, <2>3, <2>4, <2>5
      <3>2. CASE x \in S /\ x \notin R
        BY <3>2, <2>2, <2>3, <2>4, <2>5
      <3>3. CASE x \notin S
        BY <3>3, <2>2, <2>3, <2>4
      <3> QED
        BY <3>1, <3>2, <3>3
    <2>7. Append(u, x) \in Seq(A)
      OBVIOUS
    <2> QED
      BY <2>6, <2>7
  <1>3. \A u \in Seq(A) : u \in T
    <2> HIDE DEF T
    <2> QED
      BY <1>1, <1>2, SequenceInduction
  <1> QED
    BY <1>3

(* Two sequences that have the elements in S and R at the same places, and *)
(* the same ones.                                                          *)
Parallel(s, t, S, R) ==
    Len(s) = Len(t) /\ \A i \in 1..Len(s) : s[i] \in S <=> t[i] \in R

Alike(s, t, S) == \A i \in 1..Len(s) : s[i] \in S => s[i] = t[i]

(* Sequences with their selected elements at the same places have the same *)
(* indices.                                                                *)
LEMMA WhereParallel ==
    ASSUME NEW A, NEW S, NEW R, NEW s \in Seq(A), NEW t \in Seq(A), Parallel(s, t, S, R)
    PROVE  Where(s, S) = Where(t, R)
  <1> DEFINE N == Len(s)
  <1>1. N = Len(t) /\ N \in Nat
    BY DEF Parallel
  <1>2. PICK f : WhereRun(s, S, f)
    BY WhereSteps
  <1>3. PICK g : WhereRun(t, R, g)
    BY WhereSteps
  <1>4. \A n \in 0..N : f[n] = g[n]
    <2>1. \A n \in 1..N : f[n - 1] = g[n - 1] => f[n] = g[n]
      BY <1>1, <1>2, <1>3, ZenonT(40) DEF Parallel, WhereRun
    <2>2. f[0] = g[0]
      BY <1>2, <1>3 DEF WhereRun
    <2> HIDE DEF N
    <2>3. Follows(f, g, N)
      BY <2>1, <2>2 DEF Follows
    <2>4. N \in Nat
      BY <1>1
    <2> QED
      BY <2>3, <2>4, SameSteps, Zenon
  <1> QED
    BY <1>1, <1>2, <1>3, <1>4 DEF WhereRun

(* If the selected elements are also alike, the selections are equal.      *)
LEMMA OnlySame ==
    ASSUME NEW A, NEW S, NEW R, NEW s \in Seq(A), NEW t \in Seq(A), Parallel(s, t, S, R),
           Alike(s, t, S)
    PROVE  Only(s, S) = Only(t, R)
  <1> DEFINE w == Where(s, S)
  <1>1. WhereIs(s, S, w)
    BY WhereAll
  <1>2. w = Where(t, R)
    BY WhereParallel
  <1> HIDE DEF w
  <1>3. w \in Seq(1..Len(s)) /\ DOMAIN w = 1..Len(w)
    BY <1>1 DEF WhereIs
  <1>4. \A k \in DOMAIN w : w[k] \in 1..Len(s) /\ s[w[k]] \in S
    BY <1>1, <1>3 DEF WhereIs
  <1>5. \A k \in DOMAIN w : s[w[k]] = t[w[k]]
    BY <1>4 DEF Alike
  <1>6. Only(s, S) = [k \in DOMAIN w |-> s[w[k]]] /\ Only(t, R) = [k \in DOMAIN w |-> t[w[k]]]
    BY <1>2 DEF Only, w
  <1> QED
    BY <1>5, <1>6

(* Two sets that agree on the elements of s select the same of it.         *)
LEMMA OnlyAgree ==
    ASSUME NEW A, NEW S, NEW R, NEW s \in Seq(A),
           \A i \in 1..Len(s) : s[i] \in S <=> s[i] \in R
    PROVE  Only(s, S) = Only(s, R)
  <1>1. Parallel(s, s, S, R) /\ Alike(s, s, S)
    BY DEF Parallel, Alike
  <1> QED
    BY <1>1, OnlySame

(* The parts of a sequence before and after an element, and what is left   *)
(* without it.                                                             *)
LEMMA Surgery ==
    ASSUME NEW A, NEW s \in Seq(A), NEW i \in 1..Len(s)
    PROVE  /\ SubSeq(s, 1, i - 1) \in Seq(A) /\ Len(SubSeq(s, 1, i - 1)) = i - 1
           /\ \A j \in 1..(i - 1) : SubSeq(s, 1, i - 1)[j] = s[j]
           /\ SubSeq(s, i + 1, Len(s)) \in Seq(A)
           /\ Len(SubSeq(s, i + 1, Len(s))) = Len(s) - i
           /\ \A j \in 1..(Len(s) - i) : SubSeq(s, i + 1, Len(s))[j] = s[i + j]
           /\ s = (SubSeq(s, 1, i - 1) \o <<s[i]>>) \o SubSeq(s, i + 1, Len(s))
           /\ RemoveAt(s, i) = SubSeq(s, 1, i - 1) \o SubSeq(s, i + 1, Len(s))
           /\ RemoveAt(s, i) \in Seq(A) /\ Len(RemoveAt(s, i)) = Len(s) - 1
           /\ \A j \in 1..(Len(s) - 1) :
                RemoveAt(s, i)[j] = IF j < i THEN s[j] ELSE s[j + 1]
  <1> DEFINE a == SubSeq(s, 1, i - 1)
             b == SubSeq(s, i + 1, Len(s))
             r == a \o b
             q == (a \o <<s[i]>>) \o b
  <1>1. Len(s) \in Nat /\ i \in Nat /\ i - 1 \in Int /\ i + 1 \in Int /\ s[i] \in A
    OBVIOUS
  <1>2. a \in Seq(A) /\ Len(a) = i - 1 /\ \A j \in 1..(i - 1) : a[j] = s[j]
    OBVIOUS
  <1>3. b \in Seq(A) /\ Len(b) = Len(s) - i /\ \A j \in 1..(Len(s) - i) : b[j] = s[i + j]
    OBVIOUS
  <1>4. RemoveAt(s, i) = r
    BY DEF RemoveAt
  <1> HIDE DEF a, b
  <1>5. /\ r \in Seq(A) /\ Len(r) = Len(s) - 1
        /\ \A j \in 1..(Len(s) - 1) : r[j] = IF j < i THEN s[j] ELSE s[j + 1]
    <2>0. r \in Seq(A) /\ Len(r) = Len(a) + Len(b)
      BY <1>2, <1>3, ConcatProperties
    <2>1. r \in Seq(A) /\ Len(r) = Len(s) - 1
      <3> HIDE DEF r
      <3> QED
        BY <1>1, <1>2, <1>3, <2>0
    <2>2. ASSUME NEW j \in 1..(Len(s) - 1)
          PROVE  r[j] = IF j < i THEN s[j] ELSE s[j + 1]
      <3>1. CASE j < i
        <4>1. j \in 1..(i - 1) /\ j <= Len(a)
          BY <3>1, <1>1, <1>2
        <4>2. r[j] = a[j]
          BY <4>1, <1>1, <1>2, <1>3
        <4> QED
          BY <3>1, <4>1, <4>2, <1>2
      <3>2. CASE ~(j < i)
        <4>1. j - (i - 1) \in 1..(Len(s) - i) /\ i + (j - (i - 1)) = j + 1
          BY <3>2, <1>1
        <4>2. r[j] = b[j - (i - 1)]
          BY <3>2, <4>1, <1>1, <1>2, <1>3
        <4> QED
          BY <3>2, <4>1, <4>2, <1>3
      <3> QED
        BY <3>1, <3>2
    <2> QED
      BY <2>1, <2>2
  <1>6. s = q
    <2>1. q \in Seq(A) /\ Len(q) = Len(s)
      BY <1>1, <1>2, <1>3
    <2>2. ASSUME NEW j \in 1..Len(s) PROVE s[j] = q[j]
      <3> DEFINE c == a \o <<s[i]>>
      <3>1. /\ c \in Seq(A) /\ Len(c) = i /\ c[i] = s[i]
            /\ \A k \in 1..(i - 1) : c[k] = a[k]
        BY <1>1, <1>2
      <3> HIDE DEF c
      <3>2. q = c \o b
        BY DEF c
      <3> HIDE DEF q
      <3>3. CASE j <= i
        <4>1. q[j] = c[j]
          BY <3>1, <3>2, <3>3, <1>1, <1>3
        <4>2. j = i \/ j \in 1..(i - 1)
          BY <3>3, <1>1
        <4> QED
          BY <4>1, <4>2, <3>1, <1>2
      <3>4. CASE j > i
        <4>1. j - i \in 1..(Len(s) - i) /\ i + (j - i) = j
          BY <3>4, <1>1
        <4>2. q[j] = b[j - i]
          <5>1. j \in 1..(Len(c) + Len(b)) /\ ~(j <= Len(c))
            BY <3>1, <3>4, <4>1, <1>1, <1>3
          <5>2. (c \o b)[j] = b[j - Len(c)]
            BY <5>1, <3>1, <1>3, ConcatProperties
          <5> QED
            BY <5>2, <3>1, <3>2
        <4> QED
          BY <4>1, <4>2, <1>3
      <3> QED
        BY <3>3, <3>4, <1>1
    <2> HIDE DEF q, r
    <2> QED
      BY <2>1, <2>2, SeqEqual
  <1> QED
    BY <1>2, <1>3, <1>4, <1>5, <1>6 DEF a, b

(* Removing an element that is not selected leaves the selection.          *)
LEMMA OnlyRemoveAt ==
    ASSUME NEW A, NEW S, NEW s \in Seq(A), NEW i \in 1..Len(s), s[i] \notin S
    PROVE  Only(RemoveAt(s, i), S) = Only(s, S)
  <1> DEFINE a == SubSeq(s, 1, i - 1)
             b == SubSeq(s, i + 1, Len(s))
             x == <<s[i]>>
             e == <<>>
  <1>1. /\ a \in Seq(A) /\ b \in Seq(A) /\ s = (a \o x) \o b
        /\ RemoveAt(s, i) = a \o b
    BY Surgery, ZenonT(40)
  <1>2. x \in Seq(A) /\ s[i] \in A
    OBVIOUS
  <1>3. Only(x, S) = e
    BY <1>2, OnlyOne
  <1>4. \A u \in Seq(A) : u \o e = u
    OBVIOUS
  <1> HIDE DEF a, b, x, e
  <1>5. a \o x \in Seq(A)
    BY <1>1, <1>2
  <1>6. Only(s, S) = Only(a \o x, S) \o Only(b, S)
    BY <1>1, <1>5, OnlyConcat
  <1>7. Only(a \o x, S) = Only(a, S) \o Only(x, S)
    BY <1>1, <1>2, OnlyConcat
  <1>8. Only(a, S) \in Seq(A)
    BY <1>1, OnlyType
  <1>9. Only(a \o b, S) = Only(a, S) \o Only(b, S)
    BY <1>1, OnlyConcat
  <1> QED
    BY <1>1, <1>3, <1>4, <1>6, <1>7, <1>8, <1>9

(* What holds of any two elements in order holds after some are left out.  *)
Pairwise(s, R) == \A i, j \in 1..Len(s) : i < j => <<s[i], s[j]>> \in R

(* An order between the elements is kept by a selection,                   *)
LEMMA PairwiseOnly ==
    ASSUME NEW A, NEW S, NEW R, NEW s \in Seq(A), Pairwise(s, R)
    PROVE  Pairwise(Only(s, S), R)
  <1> DEFINE w == Where(s, S)
             o == Only(s, S)
  <1>1. WhereIs(s, S, w)
    BY WhereAll
  <1>2. Len(o) = Len(w) /\ \A k \in 1..Len(w) : w[k] \in 1..Len(s) /\ o[k] = s[w[k]]
    <2>1. Len(Only(s, S)) = Len(Where(s, S))
      BY OnlyType
    <2> QED
      BY <2>1, OnlyAt
  <1> HIDE DEF o, w
  <1>3. \A j, k \in 1..Len(w) : j < k => w[j] < w[k]
    BY <1>1 DEF WhereIs
  <1>4. Pairwise(o, R)
    BY <1>2, <1>3 DEF Pairwise
  <1> QED
    BY <1>4 DEF o

(* and when an element is removed.                                         *)
LEMMA PairwiseRemoveAt ==
    ASSUME NEW A, NEW R, NEW s \in Seq(A), NEW n \in 1..Len(s), Pairwise(s, R)
    PROVE  Pairwise(RemoveAt(s, n), R)
  <1> DEFINE r == RemoveAt(s, n)
             at(j) == IF j < n THEN j ELSE j + 1
  <1>1. /\ Len(r) = Len(s) - 1
        /\ \A j \in 1..(Len(s) - 1) : r[j] = IF j < n THEN s[j] ELSE s[j + 1]
    BY Surgery
  <1> HIDE DEF r
  <1>2. Len(s) \in Nat
    OBVIOUS
  <1>3. \A j \in 1..Len(r) : r[j] = s[at(j)] /\ at(j) \in 1..Len(s)
    BY <1>1, <1>2
  <1>4. \A j, k \in 1..Len(r) : j < k => at(j) < at(k)
    BY <1>1, <1>2
  <1> HIDE DEF at
  <1>5. Pairwise(r, R)
    BY <1>3, <1>4 DEF Pairwise
  <1> QED
    BY <1>5 DEF r

(* Nothing is kept exactly when there is nothing to keep.                  *)
LEMMA OnlyFinds ==
    ASSUME NEW A, NEW S, NEW s \in Seq(A)
    PROVE  Only(s, S) = <<>> <=> \A i \in 1..Len(s) : s[i] \notin S
  <1>1. ASSUME NEW i \in 1..Len(s), s[i] \in S PROVE Only(s, S) # <<>>
    <2> DEFINE w == Where(s, S)
               o == Only(s, S)
    <2>1. WhereIs(s, S, w)
      BY WhereAll
    <2>2. Len(o) = Len(w)
      BY OnlyType
    <2> HIDE DEF w, o
    <2>3. PICK k \in 1..Len(w) : w[k] = i
      BY <2>1, <1>1 DEF WhereIs
    <2>4. Len(w) # 0
      BY <2>3
    <2>5. Len(<<>>) = 0
      OBVIOUS
    <2>6. o # <<>>
      BY <2>2, <2>4, <2>5
    <2> QED
      BY <2>6 DEF o
  <1> QED
    BY <1>1, OnlyNoneOf

-----------------------------------------------------------------------------
(* One edit                                                                *)

(* The fields of a line.                                                   *)
LEMMA LineFields ==
    ASSUME NEW l \in Line
    PROVE  /\ l.group \in Word /\ l.name \in Word /\ l.types \in Seq(Word)
           /\ l.others \in BOOLEAN /\ l.value \in Text /\ l.by \in {"client", "server"}
  BY DEF Line

(* The groups of a card, in order, as pairs of lines.                      *)
GroupOrder ==
    {p \in Line \X Line :
       (p[1].group # "" /\ p[1].group = p[2].group) => p[2].name \notin Edited}

(* WellGrouped is a relation between the lines and those after them.       *)
LEMMA WellGroupedPairs ==
    ASSUME NEW d \in Seq(Line)
    PROVE  WellGrouped(d) <=> Pairwise(d, GroupOrder)
  <1>1. DOMAIN d = 1..Len(d) /\ \A i \in 1..Len(d) : d[i] \in Line
    OBVIOUS
  <1>2. \A l, m \in Line :
          <<l, m>> \in GroupOrder <=>
            ((l.group # "" /\ l.group = m.group) => m.name \notin Edited)
    BY DEF GroupOrder
  <1>3. \A i, j \in 1..Len(d) :
          <<d[i], d[j]>> \in GroupOrder <=>
            ((d[i].group # "" /\ d[i].group = d[j].group) => d[j].name \notin Edited)
    BY <1>1, <1>2
  <1> QED
    BY <1>1, <1>3 DEF WellGrouped, Pairwise

(* One property of a group, in the same way.                               *)
KnownOrder ==
    {p \in Line \X Line :
       (p[1].group # "" /\ p[1].group = p[2].group)
       => ~(p[1].name \in Edited /\ p[2].name \in Edited)}

(* OneKnown is a relation between the lines and those after them.          *)
LEMMA OneKnownPairs ==
    ASSUME NEW d \in Seq(Line)
    PROVE  OneKnown(d) <=> Pairwise(d, KnownOrder)
  <1>1. DOMAIN d = 1..Len(d) /\ \A i \in 1..Len(d) : d[i] \in Line
    OBVIOUS
  <1>2. \A l, m \in Line :
          <<l, m>> \in KnownOrder <=>
            ((l.group # "" /\ l.group = m.group) => ~(l.name \in Edited /\ m.name \in Edited))
    BY DEF KnownOrder
  <1>3. \A i, j \in 1..Len(d) :
          <<d[i], d[j]>> \in KnownOrder <=>
            ((d[i].group # "" /\ d[i].group = d[j].group)
             => ~(d[i].name \in Edited /\ d[j].name \in Edited))
    BY <1>1, <1>2
  <1> QED
    BY <1>1, <1>3 DEF OneKnown, Pairwise

(* A group that begins with its property has no other.                     *)
LEMMA GroupedIsKnown ==
    ASSUME NEW d, WellGrouped(d)
    PROVE  OneKnown(d)
  BY DEF WellGrouped, OneKnown

(* An edit does not spoil the groups.                                      *)
KeepsGroups(d, e) ==
    (WellGrouped(d) => WellGrouped(e)) /\ (OneKnown(d) => OneKnown(e))

(* Removing a line leaves lines that were there, none of its group, in     *)
(* their order.                                                            *)
LEMMA RemoveLineType ==
    ASSUME NEW d \in Seq(Line), NEW i \in 1..Len(d), NEW R
    PROVE  /\ RemoveLine(d, i) \in Seq(Line)
           /\ Pairwise(d, R) => Pairwise(RemoveLine(d, i), R)
           /\ \A k \in 1..Len(RemoveLine(d, i)) :
                \E j \in 1..Len(d) :
                  /\ RemoveLine(d, i)[k] = d[j]
                  /\ d[i].group # "" => d[j].group # d[i].group
  <1> DEFINE K == {l \in Line : l.group # d[i].group}
             r == RemoveLine(d, i)
  <1>1. ~(i > Len(d)) /\ i <= Len(d)
    OBVIOUS
  <1>2. CASE d[i].group = ""
    <2>1. r = RemoveAt(d, i)
      BY <1>1, <1>2 DEF RemoveLine
    <2>2. /\ RemoveAt(d, i) \in Seq(Line) /\ Len(RemoveAt(d, i)) = Len(d) - 1
          /\ \A j \in 1..(Len(d) - 1) :
               RemoveAt(d, i)[j] = IF j < i THEN d[j] ELSE d[j + 1]
      BY Surgery
    <2>3. Pairwise(d, R) => Pairwise(RemoveAt(d, i), R)
      BY PairwiseRemoveAt
    <2> HIDE DEF r
    <2>4. ASSUME NEW k \in 1..Len(r)
          PROVE  \E j \in 1..Len(d) : r[k] = d[j]
      <3>1. k \in 1..(Len(d) - 1) /\ k \in 1..Len(d) /\ k + 1 \in 1..Len(d)
        BY <2>1, <2>2
      <3> QED
        BY <3>1, <2>1, <2>2
    <2> QED
      BY <1>2, <2>1, <2>2, <2>3, <2>4 DEF r
  <1>3. CASE d[i].group # ""
    <2>1. r = Only(d, K)
      BY <1>1, <1>3 DEF RemoveLine
    <2>2. Only(d, K) \in Seq(Line) /\ Len(Only(d, K)) = Len(Where(d, K))
      BY OnlyType
    <2>3. Pairwise(d, R) => Pairwise(Only(d, K), R)
      BY PairwiseOnly
    <2>4. ASSUME NEW k \in 1..Len(r)
          PROVE  \E j \in 1..Len(d) : r[k] = d[j] /\ d[j].group # d[i].group
      <3>1. k \in 1..Len(Where(d, K))
        BY <2>1, <2>2
      <3>2. /\ Where(d, K)[k] \in 1..Len(d) /\ d[Where(d, K)[k]] \in K
            /\ Only(d, K)[k] = d[Where(d, K)[k]]
        BY <3>1, OnlyAt
      <3> QED
        BY <3>2, <2>1
    <2> HIDE DEF r, K
    <2> QED
      BY <2>1, <2>2, <2>3, <2>4 DEF r
  <1> QED
    BY <1>2, <1>3

(* No line of T goes with line i.                                          *)
Apart(d, i, T) ==
    /\ d[i] \notin T
    /\ \A j \in 1..Len(d) : d[j] \in T => d[i].group = "" \/ d[j].group # d[i].group

(* What is neither the line nor of its group stays.                        *)
LEMMA RemoveLineKeeps ==
    ASSUME NEW d \in Seq(Line), NEW i \in 1..Len(d), NEW T, Apart(d, i, T)
    PROVE  Only(RemoveLine(d, i), T) = Only(d, T)
  <1> DEFINE K == {l \in Line : l.group # d[i].group}
             KT == K \cap T
             r == RemoveLine(d, i)
  <1>1. ~(i > Len(d)) /\ i <= Len(d)
    OBVIOUS
  <1>2. CASE d[i].group = ""
    <2>1. r = RemoveAt(d, i)
      BY <1>1, <1>2 DEF RemoveLine
    <2>2. d[i] \notin T
      BY DEF Apart
    <2>3. Only(RemoveAt(d, i), T) = Only(d, T)
      BY <2>2, OnlyRemoveAt
    <2> QED
      BY <2>1, <2>3
  <1>3. CASE d[i].group # ""
    <2>1. r = Only(d, K)
      BY <1>1, <1>3 DEF RemoveLine
    <2>2. \A j \in 1..Len(d) : d[j] \in Line
      OBVIOUS
    <2>3. \A j \in 1..Len(d) : d[j] \in T => d[j] \in K
      BY <1>3, <2>2, Zenon DEF Apart
    <2> HIDE DEF K
    <2>4. \A j \in 1..Len(d) : d[j] \in KT <=> d[j] \in T
      BY <2>3
    <2>5. Only(Only(d, K), T) = Only(d, KT)
      BY OnlyOfOnly
    <2> HIDE DEF KT
    <2>6. Only(d, KT) = Only(d, T)
      BY <2>4, OnlyAgree
    <2> QED
      BY <2>1, <2>5, <2>6
  <1> QED
    BY <1>2, <1>3

(* What becomes of a group and of the lines that are bound to it.          *)
GroupStep(d, e, g) ==
    \/ g \in Groups(d) /\ g \notin Groups(e) /\ Satellites(e, g) = <<>>
    \/ (g \in Groups(d) <=> g \in Groups(e)) /\ Satellites(e, g) = Satellites(d, g)

(* e is d after properties of these names were edited.                     *)
EditOf(d, e, names) ==
    /\ e \in Seq(Line) /\ KeepsGroups(d, e)
    /\ \A name \in Edited \ names : Only(e, Named(name)) = Only(d, Named(name))
    /\ Groups(e) \subseteq Groups(d)
    /\ \A G \in SUBSET Word : Groups(d) \subseteq G => Untouched(e, G) = Untouched(d, G)
    /\ \A g \in Word \ {""} : GroupStep(d, e, g)

(* Two edits one after the other are an edit of both sets of properties.   *)
LEMMA EditChain ==
    ASSUME NEW d, NEW e, NEW f, NEW M, NEW N, EditOf(d, e, M), EditOf(e, f, N)
    PROVE  EditOf(d, f, M \cup N)
  <1>1. \A name \in Edited \ (M \cup N) : Only(f, Named(name)) = Only(d, Named(name))
    BY DEF EditOf
  <1>2. \A G \in SUBSET Word : Groups(d) \subseteq G => Untouched(f, G) = Untouched(d, G)
    <2> SUFFICES ASSUME NEW G \in SUBSET Word, Groups(d) \subseteq G
                 PROVE  Untouched(f, G) = Untouched(d, G)
      OBVIOUS
    <2>1. Groups(e) \subseteq Groups(d)
      BY DEF EditOf
    <2>2. Groups(e) \subseteq G
      BY <2>1
    <2> QED
      BY <2>2, Zenon DEF EditOf
  <1>3. \A g \in Word \ {""} : GroupStep(d, f, g)
    <2> SUFFICES ASSUME NEW g \in Word \ {""} PROVE GroupStep(d, f, g)
      OBVIOUS
    <2>1. GroupStep(d, e, g) /\ GroupStep(e, f, g)
      BY DEF EditOf
    <2> QED
      BY <2>1 DEF GroupStep
  <1>4. f \in Seq(Line) /\ KeepsGroups(d, f) /\ Groups(f) \subseteq Groups(d)
    BY DEF EditOf, KeepsGroups
  <1> QED
    BY <1>1, <1>2, <1>3, <1>4 DEF EditOf

(* The groups of a card are those of the properties the form knows.        *)
LEMMA GroupsOf ==
    ASSUME NEW d \in Seq(Line), NEW g
    PROVE  g \in Groups(d) <=>
             g # "" /\ \E i \in 1..Len(d) : d[i].name \in Edited /\ d[i].group = g
  <1>1. DOMAIN d = 1..Len(d)
    OBVIOUS
  <1> QED
    BY <1>1 DEF Groups

(* Groups are words.                                                       *)
LEMMA GroupsAreWords ==
    ASSUME NEW d \in Seq(Line)
    PROVE  Groups(d) \in SUBSET Word
  <1>1. \A i \in 1..Len(d) : d[i].group \in Word
    BY LineFields
  <1> QED
    BY <1>1, GroupsOf

(* The lines of other properties stay, and so do the groups.               *)
OthersStay(d, e, name) ==
    /\ Groups(e) = Groups(d)
    /\ \A T \in SUBSET Line : T \cap Named(name) = {} => Only(e, T) = Only(d, T)

(* To leave the lines of all other names where they are is an edit.        *)
LEMMA EditInPlace ==
    ASSUME NEW d \in Seq(Line), NEW e \in Seq(Line), NEW name \in Edited,
           KeepsGroups(d, e), OthersStay(d, e, name)
    PROVE  EditOf(d, e, {name})
  <1>1. \A other \in Edited \ {name} : Only(e, Named(other)) = Only(d, Named(other))
    <2>1. \A other \in Edited \ {name} :
            Named(other) \in SUBSET Line /\ Named(other) \cap Named(name) = {}
      BY DEF Named
    <2> QED
      BY <2>1 DEF OthersStay
  <1>2. \A G : Untouched(e, G) = Untouched(d, G)
    <2> SUFFICES ASSUME NEW G PROVE Untouched(e, G) = Untouched(d, G)
      OBVIOUS
    <2> DEFINE T == {l \in Line : l.name \notin Edited /\ l.group \notin G}
    <2>1. T \in SUBSET Line /\ T \cap Named(name) = {}
      BY DEF Named
    <2> HIDE DEF T
    <2>2. Only(e, T) = Only(d, T)
      BY <2>1 DEF OthersStay
    <2> QED
      BY <2>2 DEF Untouched, T
  <1>3. \A g : Satellites(e, g) = Satellites(d, g)
    <2> SUFFICES ASSUME NEW g PROVE Satellites(e, g) = Satellites(d, g)
      OBVIOUS
    <2> DEFINE T == {l \in Line : l.name \notin Edited /\ l.group = g}
    <2>1. T \in SUBSET Line /\ T \cap Named(name) = {}
      BY DEF Named
    <2> HIDE DEF T
    <2>2. Only(e, T) = Only(d, T)
      BY <2>1 DEF OthersStay
    <2> QED
      BY <2>2 DEF Satellites, T
  <1>4. Groups(e) = Groups(d)
    BY DEF OthersStay
  <1>5. \A g \in Word \ {""} : GroupStep(d, e, g)
    BY <1>3, <1>4 DEF GroupStep
  <1> QED
    BY <1>1, <1>2, <1>4, <1>5 DEF EditOf

(* Lines of the property are rewritten; name and group stay.               *)
Rewrites(d, e, name) ==
    /\ Len(e) = Len(d)
    /\ \A i \in 1..Len(d) :
         e[i] = d[i] \/ (d[i].name = name /\ e[i].name = name /\ e[i].group = d[i].group)

(* To rewrite lines of one name in place is an edit.                       *)
LEMMA EditRewrites ==
    ASSUME NEW d \in Seq(Line), NEW e \in Seq(Line), NEW name \in Edited,
           Rewrites(d, e, name)
    PROVE  EditOf(d, e, {name})
  <1>1. Len(e) = Len(d) /\ DOMAIN d = 1..Len(d) /\ DOMAIN e = 1..Len(d)
    BY DEF Rewrites
  <1>2. \A i \in 1..Len(d) : e[i].name = d[i].name /\ e[i].group = d[i].group
    BY DEF Rewrites
  <1>3. KeepsGroups(d, e)
    <2>1. WellGrouped(d) => WellGrouped(e)
      BY <1>1, <1>2 DEF WellGrouped
    <2>2. OneKnown(d) => OneKnown(e)
      BY <1>1, <1>2 DEF OneKnown
    <2> QED
      BY <2>1, <2>2 DEF KeepsGroups
  <1>4. Groups(e) = Groups(d)
    <2>1. ASSUME NEW g PROVE g \in Groups(e) <=> g \in Groups(d)
      <3>1. (\E i \in 1..Len(e) : e[i].name \in Edited /\ e[i].group = g)
              <=> (\E i \in 1..Len(d) : d[i].name \in Edited /\ d[i].group = g)
        BY <1>1, <1>2
      <3> QED
        BY <3>1, GroupsOf
    <2> QED
      BY <2>1
  <1>5. ASSUME NEW T \in SUBSET Line, T \cap Named(name) = {}
        PROVE  Only(e, T) = Only(d, T)
    <2>1. \A i \in 1..Len(d) : d[i] \in Line /\ e[i] \in Line
      BY <1>1
    <2>2. \A i \in 1..Len(d) : e[i] = d[i] \/ (d[i] \notin T /\ e[i] \notin T)
      BY <1>5, <2>1 DEF Rewrites, Named
    <2>3. Parallel(e, d, T, T) /\ Alike(e, d, T)
      BY <1>1, <2>2 DEF Parallel, Alike
    <2> QED
      BY <2>3, OnlySame
  <1>6. OthersStay(d, e, name)
    BY <1>4, <1>5 DEF OthersStay
  <1> QED
    BY <1>3, <1>6, EditInPlace

-----------------------------------------------------------------------------
(* Removing the last lines of a property                                   *)

(* The indices of the elements in S are determined.                        *)
LEMMA WhereUnique ==
    ASSUME NEW s, NEW S, NEW u, NEW w, WhereIs(s, S, u), WhereIs(s, S, w)
    PROVE  u = w
  <1>u. /\ u \in Seq(1..Len(s)) /\ \A k \in 1..Len(u) : s[u[k]] \in S /\ u[k] \in 1..Len(s)
        /\ \A j, k \in 1..Len(u) : j < k => u[j] < u[k]
        /\ \A i \in 1..Len(s) : s[i] \in S => \E k \in 1..Len(u) : u[k] = i
    BY SMTT(30) DEF WhereIs
  <1>w. /\ w \in Seq(1..Len(s)) /\ \A k \in 1..Len(w) : s[w[k]] \in S /\ w[k] \in 1..Len(s)
        /\ \A j, k \in 1..Len(w) : j < k => w[j] < w[k]
        /\ \A i \in 1..Len(s) : s[i] \in S => \E k \in 1..Len(w) : w[k] = i
    BY DEF WhereIs
  <1>l. Len(u) \in Nat /\ Len(w) \in Nat
    BY <1>u, <1>w
  <1> DEFINE T == {n \in Nat : \A k \in 1..n :
                     /\ k <= Len(u) <=> k <= Len(w)
                     /\ k <= Len(u) => u[k] = w[k]}
  <1>1. 0 \in T
    OBVIOUS
  <1>2. ASSUME NEW n \in Nat, n \in T PROVE n + 1 \in T
    <2> DEFINE m == n + 1
    <2>0. m \in Nat /\ m > n /\ m >= 1
      OBVIOUS
    <2>1. \A k \in 1..n : (k <= Len(u) <=> k <= Len(w)) /\ (k <= Len(u) => u[k] = w[k])
      BY <1>2
    <2> HIDE DEF m, T
    <2>2. m <= Len(u) => m <= Len(w) /\ w[m] <= u[m]
      <3> SUFFICES ASSUME m <= Len(u) PROVE m <= Len(w) /\ w[m] <= u[m]
        OBVIOUS
      <3>1. m \in 1..Len(u)
        BY <2>0, <1>l
      <3>2. PICK q \in 1..Len(w) : w[q] = u[m]
        BY <3>1, <1>u, <1>w
      <3>3. ASSUME q < m PROVE FALSE
        <4>1. q \in 1..n /\ q \in 1..Len(u)
          BY <3>1, <3>3, <2>0, <1>l DEF m
        <4>2. u[q] = w[q]
          BY <4>1, <2>1
        <4>3. u[q] < u[m]
          BY <4>1, <3>1, <3>3, <1>u
        <4>4. u[q] \in Int /\ u[m] \in Int
          BY <4>1, <3>1, <1>u
        <4> QED
          BY <4>2, <4>3, <4>4, <3>2
      <3>4. q >= m /\ m \in 1..Len(w)
        BY <3>3, <2>0, <1>l
      <3>5. w[m] \in Int /\ w[q] \in Int
        BY <3>4, <1>w
      <3>6. q # m => w[m] < w[q]
        BY <3>4, <1>w
      <3> QED
        BY <3>2, <3>4, <3>5, <3>6
    <2>3. m <= Len(w) => m <= Len(u) /\ u[m] <= w[m]
      <3> SUFFICES ASSUME m <= Len(w) PROVE m <= Len(u) /\ u[m] <= w[m]
        OBVIOUS
      <3>1. m \in 1..Len(w)
        BY <2>0, <1>l
      <3>2. PICK q \in 1..Len(u) : u[q] = w[m]
        BY <3>1, <1>u, <1>w
      <3>3. ASSUME q < m PROVE FALSE
        <4>1. q \in 1..n /\ q \in 1..Len(w)
          BY <3>1, <3>3, <2>0, <1>l DEF m
        <4>2. u[q] = w[q]
          BY <4>1, <2>1
        <4>3. w[q] < w[m]
          BY <4>1, <3>1, <3>3, <1>w
        <4>4. w[q] \in Int /\ w[m] \in Int
          BY <4>1, <3>1, <1>w
        <4> QED
          BY <4>2, <4>3, <4>4, <3>2
      <3>4. q >= m /\ m \in 1..Len(u)
        BY <3>3, <2>0, <1>l
      <3>5. u[m] \in Int /\ u[q] \in Int
        BY <3>4, <1>u
      <3>6. q # m => u[m] < u[q]
        BY <3>4, <1>u
      <3> QED
        BY <3>2, <3>4, <3>5, <3>6
    <2>4. m <= Len(u) => u[m] = w[m]
      <3>1. m <= Len(u) => u[m] \in Int /\ w[m] \in Int
        BY <2>0, <2>2, <1>l, <1>u, <1>w, SMTT(30)
      <3> QED
        BY <3>1, <2>2, <2>3
    <2>5. \A k \in 1..m : k = m \/ k \in 1..n
      BY <2>0 DEF m
    <2>6. \A k \in 1..m : (k <= Len(u) <=> k <= Len(w)) /\ (k <= Len(u) => u[k] = w[k])
      BY <2>1, <2>2, <2>3, <2>4, <2>5
    <2> QED
      BY <2>0, <2>6 DEF T, m
  <1>3. \A n \in Nat : n \in T
    <2> HIDE DEF T
    <2> QED
      BY <1>1, <1>2, Induction
  <1>4. \A k \in Nat : k >= 1 => (k <= Len(u) <=> k <= Len(w)) /\ (k <= Len(u) => u[k] = w[k])
    BY <1>3
  <1>5. Len(u) = Len(w)
    <2>1. Len(u) >= 1 => Len(u) <= Len(w)
      BY <1>l, <1>4
    <2>2. Len(w) >= 1 => Len(w) <= Len(u)
      BY <1>l, <1>4
    <2> QED
      BY <1>l, <2>1, <2>2
  <1>6. \A k \in 1..Len(u) : u[k] = w[k]
    BY <1>l, <1>4
  <1> QED
    BY <1>5, <1>6, <1>u, <1>w, SeqEqual

(* The place up to which s has v elements in S.                            *)
Cutoff(s, S, v) == IF v = Len(Where(s, S)) THEN Len(s) ELSE Where(s, S)[v + 1] - 1

(* The first v of the found indices are those before the cutoff.           *)
LEMMA CutoffOrder ==
    ASSUME NEW A, NEW S, NEW s \in Seq(A), NEW v \in 0..Len(Where(s, S))
    PROVE  /\ Cutoff(s, S, v) \in 0..Len(s)
           /\ \A k \in 1..Len(Where(s, S)) : k <= v <=> Where(s, S)[k] <= Cutoff(s, S, v)
  <1> DEFINE w == Where(s, S)
             p == Cutoff(s, S, v)
  <1>1. WhereIs(s, S, w)
    BY WhereAll
  <1>2. p = IF v = Len(w) THEN Len(s) ELSE w[v + 1] - 1
    BY DEF Cutoff
  <1>n. v \in 0..Len(w)
    OBVIOUS
  <1>q. QED
    <2> HIDE DEF w, p
    <2>s. SUFFICES p \in 0..Len(s) /\ \A k \in 1..Len(w) : k <= v <=> w[k] <= p
      BY DEF w, p
    <2>3. /\ w \in Seq(1..Len(s)) /\ \A k \in 1..Len(w) : w[k] \in 1..Len(s)
          /\ \A j, k \in 1..Len(w) : j < k => w[j] < w[k]
      BY <1>1 DEF WhereIs
    <2>4. Len(w) \in Nat /\ v \in Nat /\ Len(s) \in Nat /\ v <= Len(w)
      BY <2>3, <1>n
    <2>5. CASE v = Len(w)
      <3>1. p = Len(s)
        BY <2>5, <1>2
      <3>2. \A k \in 1..Len(w) : k <= v /\ w[k] <= p
        BY <2>5, <3>1, <2>3, <2>4
      <3> QED
        BY <3>1, <3>2, <2>4
    <2>6. CASE v # Len(w)
      <3>1. v + 1 \in 1..Len(w) /\ p = w[v + 1] - 1
        BY <2>6, <2>4, <1>2
      <3>2. w[v + 1] \in 1..Len(s)
        BY <3>1, <2>3
      <3>3. ASSUME NEW k \in 1..Len(w) PROVE k <= v <=> w[k] <= p
        <4>1. w[k] \in 1..Len(s)
          BY <2>3
        <4>2. k < v + 1 => w[k] < w[v + 1]
          BY <3>1, <2>3
        <4>3. v + 1 < k => w[v + 1] < w[k]
          BY <3>1, <2>3
        <4> QED
          BY <4>1, <4>2, <4>3, <3>1, <3>2, <2>4
      <3> QED
        BY <3>1, <3>2, <3>3, <2>4
    <2> QED
      BY <2>5, <2>6

(* t is s up to its v-th element in S, and has none of them after it.      *)
Truncates(s, t, S, v) ==
    /\ Cutoff(s, S, v) <= Len(t)
    /\ \A j \in 1..Cutoff(s, S, v) : t[j] = s[j]
    /\ \A j \in (Cutoff(s, S, v) + 1)..Len(t) : t[j] \notin S

(* A sequence that is cut off there still has the first v of them.         *)
LEMMA WhereTruncate ==
    ASSUME NEW A, NEW S, NEW s \in Seq(A), NEW t \in Seq(A),
           NEW v \in 0..Len(Where(s, S)), Truncates(s, t, S, v)
    PROVE  /\ Len(Where(t, S)) = v
           /\ \A k \in 1..v : Where(t, S)[k] = Where(s, S)[k] /\ Only(t, S)[k] = Only(s, S)[k]
  <1> DEFINE w == Where(s, S)
             p == Cutoff(s, S, v)
             u == SubSeq(w, 1, v)
  <1>1. WhereIs(s, S, w)
    BY WhereAll
  <1>2. /\ p <= Len(t) /\ \A j \in 1..p : t[j] = s[j]
        /\ \A j \in (p + 1)..Len(t) : t[j] \notin S
    BY DEF Truncates
  <1>n. v \in 0..Len(w)
    OBVIOUS
  <1>6. p \in 0..Len(s) /\ \A k \in 1..Len(w) : k <= v <=> w[k] <= p
    BY CutoffOrder
  <1> HIDE DEF w, p
  <1>3. /\ w \in Seq(1..Len(s)) /\ \A k \in 1..Len(w) : s[w[k]] \in S /\ k <= w[k] /\ w[k] \in 1..Len(s)
        /\ \A j, k \in 1..Len(w) : j < k => w[j] < w[k]
        /\ \A i \in 1..Len(s) : s[i] \in S => \E k \in 1..Len(w) : w[k] = i
    BY <1>1 DEF WhereIs
  <1>4. Len(w) \in Nat /\ v \in Nat /\ Len(s) \in Nat /\ Len(t) \in Nat /\ v <= Len(w)
    BY <1>3, <1>n
  <1>5. u \in Seq(1..Len(s)) /\ Len(u) = v /\ \A k \in 1..v : u[k] = w[k]
    BY <1>3, <1>4
  <1> HIDE DEF u
  <1>7. WhereIs(t, S, u)
    <2>1. \A k \in 1..v : k \in 1..Len(w) /\ u[k] = w[k] /\ w[k] \in 1..p
      BY <1>3, <1>4, <1>5, <1>6
    <2>2. \A k \in 1..v : u[k] \in 1..Len(t) /\ t[u[k]] \in S /\ k <= u[k]
      <3>1. \A j \in 1..p : j \in 1..Len(t)
        BY <1>2, <1>4, <1>6
      <3> QED
        BY <2>1, <3>1, <1>2, <1>3
    <2>3. u \in Seq(1..Len(t))
      BY <2>2, <1>4, <1>5, ElementOfSeq, SeqDef
    <2>4. \A j, k \in 1..v : j < k => u[j] < u[k]
      BY <2>1, <1>3
    <2>5. ASSUME NEW i \in 1..Len(t), t[i] \in S PROVE \E k \in 1..v : u[k] = i
      <3>1. i \in 1..p
        BY <2>5, <1>2, <1>4, <1>6
      <3>2. i \in 1..Len(s) /\ s[i] \in S
        BY <3>1, <2>5, <1>2, <1>4, <1>6
      <3>3. PICK k \in 1..Len(w) : w[k] = i
        BY <3>2, <1>3
      <3>4. k \in 1..v
        BY <3>1, <3>3, <1>4, <1>6
      <3> QED
        BY <3>3, <3>4, <2>1
    <2> QED
      BY <2>2, <2>3, <2>4, <2>5, <1>5 DEF WhereIs
  <1>8. WhereIs(t, S, Where(t, S))
    BY WhereAll
  <1>9. Where(t, S) = u
    BY <1>7, <1>8, WhereUnique
  <1>10. ASSUME NEW k \in 1..v
         PROVE  Where(t, S)[k] = Where(s, S)[k] /\ Only(t, S)[k] = Only(s, S)[k]
    <2>1. k \in 1..Len(Where(t, S)) /\ k \in 1..Len(Where(s, S)) /\ u[k] = w[k]
      BY <1>4, <1>5, <1>9 DEF w
    <2>2. Only(t, S)[k] = t[u[k]] /\ Only(s, S)[k] = s[w[k]]
      BY <2>1, <1>9, OnlyAt DEF w
    <2>3. w[k] \in 1..p
      BY <2>1, <1>3, <1>4, <1>6 DEF w
    <2> QED
      BY <2>1, <2>2, <2>3, <1>2, <1>9 DEF w
  <1> QED
    BY <1>5, <1>9, <1>10

(* Removing a line the form knows leaves the lines before it where they    *)
(* were: its group begins with it.                                         *)
LEMMA RemoveLinePrefix ==
    ASSUME NEW d \in Seq(Line), WellGrouped(d), NEW i \in 1..Len(d), d[i].name \in Edited
    PROVE  /\ RemoveLine(d, i) \in Seq(Line) /\ i - 1 <= Len(RemoveLine(d, i))
           /\ \A j \in 1..(i - 1) : RemoveLine(d, i)[j] = d[j]
           /\ \A j \in i..Len(RemoveLine(d, i)) :
                \E l \in (i + 1)..Len(d) : RemoveLine(d, i)[j] = d[l]
  <1> DEFINE a == SubSeq(d, 1, i - 1)
             b == SubSeq(d, i + 1, Len(d))
             x == <<d[i]>>
             K == {l \in Line : l.group # d[i].group}
             r == RemoveLine(d, i)
  <1>1. /\ a \in Seq(Line) /\ Len(a) = i - 1 /\ \A j \in 1..(i - 1) : a[j] = d[j]
        /\ b \in Seq(Line) /\ Len(b) = Len(d) - i /\ \A j \in 1..(Len(d) - i) : b[j] = d[i + j]
        /\ d = (a \o x) \o b /\ RemoveAt(d, i) = a \o b
    <2>1. /\ a \in Seq(Line) /\ Len(a) = i - 1 /\ \A j \in 1..(i - 1) : a[j] = d[j]
          /\ b \in Seq(Line) /\ Len(b) = Len(d) - i
          /\ \A j \in 1..(Len(d) - i) : b[j] = d[i + j]
      OBVIOUS
    <2>2. d = (a \o x) \o b
      BY Surgery
    <2>3. RemoveAt(d, i) = a \o b
      BY Surgery
    <2> HIDE DEF a, b, x
    <2> QED
      BY <2>1, <2>2, <2>3
  <1>2. /\ i \in Nat /\ Len(d) \in Nat /\ i <= Len(d) /\ ~(i > Len(d)) /\ d[i] \in Line
        /\ \A j \in 1..Len(d) : d[j] \in Line
    OBVIOUS
  <1>3. x \in Seq(Line)
    BY <1>2
  <1>d. DOMAIN d = 1..Len(d)
    OBVIOUS
  <1> HIDE DEF a, b
  <1>4. \E c \in Seq(Line) :
          r = a \o c /\ \A j \in 1..Len(c) : \E l \in 1..Len(b) : c[j] = b[l]
    <2>1. CASE d[i].group = ""
      <3>1. r = a \o b
        BY <1>1, <1>2, <2>1 DEF RemoveLine
      <3> QED
        BY <3>1, <1>1
    <2>2. CASE d[i].group # ""
      <3>1. r = Only(d, K)
        BY <1>2, <2>2 DEF RemoveLine
      <3>2. d[i] \notin K
        OBVIOUS
      <3>3. \A j \in 1..Len(a) : a[j] \in K
        <4> SUFFICES ASSUME NEW j \in 1..Len(a) PROVE a[j] \in K
          OBVIOUS
        <4>1. j \in 1..Len(d) /\ j < i /\ a[j] = d[j] /\ d[j] \in Line
          BY <1>1, <1>2
        <4>2. d[j].group # d[i].group
          BY <4>1, <1>d, <2>2 DEF WellGrouped
        <4> QED
          BY <4>1, <4>2
      <3> HIDE DEF K
      <3>4. Only(a, K) = a
        BY <3>3, <1>1, OnlyAllOf
      <3>5. Only(x, K) = <<>>
        BY <3>2, <1>2, OnlyOne
      <3> DEFINE c == Only(b, K)
      <3>6. c \in Seq(Line) /\ Len(c) = Len(Where(b, K))
        BY <1>1, OnlyType
      <3>7. ASSUME NEW j \in 1..Len(c) PROVE \E l \in 1..Len(b) : c[j] = b[l]
        <4>1. j \in 1..Len(Where(b, K))
          BY <3>6
        <4>2. Where(b, K)[j] \in 1..Len(b) /\ c[j] = b[Where(b, K)[j]]
          BY <4>1, <1>1, OnlyAt, SMTT(30)
        <4> QED
          BY <4>2
      <3>8. a \o x \in Seq(Line)
        BY <1>1, <1>3, ConcatProperties
      <3>9. Only(d, K) = Only(a \o x, K) \o c
        <4> HIDE DEF x
        <4> QED
          BY <3>8, <1>1, OnlyConcat
      <3>10. Only(a \o x, K) = Only(a, K) \o Only(x, K)
        BY <1>1, <1>3, OnlyConcat
      <3>11. a \o <<>> = a
        BY <1>1
      <3>12. r = a \o c
        <4> HIDE DEF c, r, x
        <4> QED
          BY <3>1, <3>4, <3>5, <3>9, <3>10, <3>11
      <3> HIDE DEF c, r
      <3> QED
        BY <3>6, <3>7, <3>12
    <2> QED
      BY <2>1, <2>2
  <1>5. PICK c \in Seq(Line) :
          r = a \o c /\ \A j \in 1..Len(c) : \E l \in 1..Len(b) : c[j] = b[l]
    BY <1>4
  <1>6. /\ a \o c \in Seq(Line) /\ Len(a \o c) = Len(a) + Len(c)
        /\ \A j \in 1..(Len(a) + Len(c)) :
             (a \o c)[j] = IF j <= Len(a) THEN a[j] ELSE c[j - Len(a)]
    BY <1>1, <1>5, ConcatProperties
  <1> HIDE DEF r
  <1>7. r \in Seq(Line) /\ Len(r) = (i - 1) + Len(c) /\ Len(c) \in Nat
    BY <1>1, <1>5, <1>6
  <1>8. ASSUME NEW j \in 1..(i - 1) PROVE r[j] = d[j]
    BY <1>1, <1>2, <1>5, <1>6, <1>7
  <1>9. ASSUME NEW j \in i..Len(r) PROVE \E l \in (i + 1)..Len(d) : r[j] = d[l]
    <2>1. j - (i - 1) \in 1..Len(c) /\ j \in 1..(Len(a) + Len(c)) /\ ~(j <= Len(a)) /\ Len(a) = i - 1
      BY <1>1, <1>2, <1>7
    <2>2. r[j] = c[j - (i - 1)]
      BY <2>1, <1>5, <1>6
    <2>3. PICK l \in 1..Len(b) : c[j - (i - 1)] = b[l]
      BY <2>1, <1>5
    <2>4. l \in 1..(Len(d) - i) /\ i + l \in (i + 1)..Len(d)
      BY <1>1, <1>2
    <2> QED
      BY <2>2, <2>3, <2>4, <1>1
  <1> QED
    BY <1>2, <1>7, <1>8, <1>9 DEF r

(* To remove a line the form knows is an edit.                             *)
LEMMA EditRemove ==
    ASSUME NEW d \in Seq(Line), OneKnown(d), NEW name \in Edited, NEW i \in 1..Len(d),
           d[i].name = name
    PROVE  EditOf(d, RemoveLine(d, i), {name})
  <1> DEFINE e == RemoveLine(d, i)
  <1>1. /\ e \in Seq(Line)
        /\ Pairwise(d, GroupOrder) => Pairwise(e, GroupOrder)
        /\ Pairwise(d, KnownOrder) => Pairwise(e, KnownOrder)
        /\ \A k \in 1..Len(e) :
             \E j \in 1..Len(d) : e[k] = d[j] /\ (d[i].group # "" => d[j].group # d[i].group)
    BY RemoveLineType
  <1>2. \A T : Apart(d, i, T) => Only(e, T) = Only(d, T)
    BY RemoveLineKeeps
  <1> HIDE DEF e
  <1>3. KeepsGroups(d, e)
    BY <1>1, WellGroupedPairs, OneKnownPairs DEF KeepsGroups
  <1>4. /\ DOMAIN d = 1..Len(d) /\ Len(d) \in Nat /\ d[i] \in Line
        /\ \A j \in 1..Len(d) : d[j] \in Line
    OBVIOUS
  <1>5. ASSUME NEW j \in 1..Len(d), j # i, d[j].name \in Edited
        PROVE  d[i].group = "" \/ d[j].group # d[i].group
    <2>1. j < i \/ i < j
      BY <1>4, <1>5
    <2> QED
      BY <2>1, <1>4, <1>5 DEF OneKnown
  <1>6. ASSUME NEW other \in Edited \ {name}
        PROVE  Only(e, Named(other)) = Only(d, Named(other))
    <2>1. d[i] \notin Named(other)
      BY DEF Named
    <2>2. \A j \in 1..Len(d) : d[j] \in Named(other) => d[j].name \in Edited /\ j # i
      BY <2>1 DEF Named
    <2>3. Apart(d, i, Named(other))
      BY <2>1, <2>2, <1>5 DEF Apart
    <2> QED
      BY <2>3, <1>2
  <1>7. Groups(e) \subseteq Groups(d)
    <2> SUFFICES ASSUME NEW g \in Groups(e) PROVE g \in Groups(d)
      OBVIOUS
    <2>1. g # "" /\ \E k \in 1..Len(e) : e[k].name \in Edited /\ e[k].group = g
      BY <1>1, GroupsOf
    <2>2. \E j \in 1..Len(d) : d[j].name \in Edited /\ d[j].group = g
      BY <2>1, <1>1
    <2> QED
      BY <2>1, <2>2, GroupsOf
  <1>8. d[i].group # "" => d[i].group \in Groups(d)
    BY GroupsOf
  <1>9. ASSUME NEW G \in SUBSET Word, Groups(d) \subseteq G
        PROVE  Untouched(e, G) = Untouched(d, G)
    <2> DEFINE T == {l \in Line : l.name \notin Edited /\ l.group \notin G}
    <2>1. Apart(d, i, T)
      BY <1>8, <1>9 DEF Apart
    <2>2. Only(e, T) = Only(d, T)
      <3> HIDE DEF T
      <3> QED
        BY <2>1, <1>2
    <2> QED
      BY <2>2 DEF Untouched
  <1>10. ASSUME NEW g \in Word \ {""} PROVE GroupStep(d, e, g)
    <2> DEFINE T == {l \in Line : l.name \notin Edited /\ l.group = g}
               U == {l \in Line : l.name \in Edited /\ l.group = g}
    <2>1. CASE g # d[i].group
      <3>1. Apart(d, i, T) /\ Apart(d, i, U)
        BY <2>1 DEF Apart
      <3>2. Only(e, T) = Only(d, T) /\ Only(e, U) = Only(d, U)
        <4> HIDE DEF T, U
        <4> QED
          BY <3>1, <1>2
      <3>3. g \in Groups(d) <=> Only(d, U) # <<>>
        <4>1. \A j \in 1..Len(d) : d[j] \in U <=> (d[j].name \in Edited /\ d[j].group = g)
          BY <1>4
        <4> HIDE DEF U
        <4>2. Only(d, U) # <<>> <=> \E j \in 1..Len(d) : d[j] \in U
          BY OnlyFinds
        <4> QED
          BY <4>1, <4>2, GroupsOf
      <3>4. g \in Groups(e) <=> Only(e, U) # <<>>
        <4>0. \A j \in 1..Len(e) : e[j] \in Line
          BY <1>1, ElementOfSeq
        <4>1. \A j \in 1..Len(e) : e[j] \in U <=> (e[j].name \in Edited /\ e[j].group = g)
          BY <4>0
        <4> HIDE DEF U
        <4>2. Only(e, U) # <<>> <=> \E j \in 1..Len(e) : e[j] \in U
          BY <1>1, OnlyFinds
        <4> QED
          BY <1>1, <4>1, <4>2, GroupsOf
      <3>5. Satellites(e, g) = Satellites(d, g)
        BY <3>2 DEF Satellites
      <3> QED
        BY <3>2, <3>3, <3>4, <3>5 DEF GroupStep
    <2>2. CASE g = d[i].group
      <3>1. g \in Groups(d)
        BY <2>2, <1>8
      <3>2. \A k \in 1..Len(e) : e[k].group # g
        BY <2>2, <1>1
      <3>3. g \notin Groups(e)
        BY <3>2, <1>1, GroupsOf, ZenonT(40)
      <3>4. \A k \in 1..Len(e) : e[k] \notin T
        BY <3>2
      <3>5. Only(e, T) = <<>>
        <4> HIDE DEF T
        <4> QED
          BY <3>4, <1>1, OnlyNoneOf
      <3>6. Satellites(e, g) = <<>>
        BY <3>5 DEF Satellites
      <3> QED
        BY <3>1, <3>3, <3>6 DEF GroupStep
    <2> QED
      BY <2>1, <2>2
  <1>11. EditOf(d, e, {name})
    BY <1>1, <1>3, <1>6, <1>7, <1>9, <1>10 DEF EditOf
  <1> QED
    BY <1>11 DEF e

(* Lines of one property, without group.                                   *)
Fresh(name) == {l \in Line : l.name = name /\ l.group = ""}

(* To append new lines is an edit.                                         *)
LEMMA EditAppend ==
    ASSUME NEW d \in Seq(Line), NEW name \in Edited, NEW new \in Seq(Fresh(name))
    PROVE  EditOf(d, d \o new, {name})
  <1> DEFINE e == d \o new
  <1>1. new \in Seq(Line) /\ \A k \in 1..Len(new) : new[k] \in Fresh(name)
    <2>1. Fresh(name) \subseteq Line
      BY DEF Fresh
    <2> QED
      BY <2>1
  <1>2. /\ e \in Seq(Line) /\ Len(e) = Len(d) + Len(new)
        /\ \A j \in 1..(Len(d) + Len(new)) :
             e[j] = IF j <= Len(d) THEN d[j] ELSE new[j - Len(d)]
    BY <1>1, ConcatProperties
  <1>3. Len(d) \in Nat /\ Len(new) \in Nat /\ DOMAIN d = 1..Len(d)
    BY <1>1
  <1>t. ASSUME NEW T \in SUBSET Line, T \cap Named(name) = {}
        PROVE  Only(e, T) = Only(d, T)
    <2>1. \A k \in 1..Len(new) : new[k] \notin T
      BY <1>1, <1>t DEF Named, Fresh
    <2>2. Only(new, T) = <<>>
      BY <1>1, <2>1, OnlyNoneOf
    <2>3. Only(e, T) = Only(d, T) \o Only(new, T)
      BY <1>1, OnlyConcat
    <2>4. Only(d, T) \in Seq(Line)
      BY OnlyType
    <2>5. Only(d, T) \o <<>> = Only(d, T)
      BY <2>4
    <2> QED
      BY <2>2, <2>3, <2>5
  <1> HIDE DEF e
  <1>d. DOMAIN e = 1..Len(e)
    BY <1>2
  <1>4. \A j \in 1..Len(e) : (j \in 1..Len(d) /\ e[j] = d[j]) \/ e[j].group = ""
    <2> SUFFICES ASSUME NEW j \in 1..Len(e), ~(j \in 1..Len(d) /\ e[j] = d[j])
                 PROVE  e[j].group = ""
      OBVIOUS
    <2>1. j \in 1..(Len(d) + Len(new)) /\ (j <= Len(d) => j \in 1..Len(d))
      BY <1>2, <1>3
    <2>2. j - Len(d) \in 1..Len(new) /\ e[j] = new[j - Len(d)]
      BY <2>1, <1>2, <1>3
    <2>3. new[j - Len(d)] \in Fresh(name)
      BY <2>2, <1>1
    <2> QED
      BY <2>2, <2>3 DEF Fresh
  <1>5. \A j \in 1..Len(d) : j \in 1..Len(e) /\ e[j] = d[j]
    BY <1>2, <1>3
  <1>6. Groups(e) = Groups(d)
    <2>1. ASSUME NEW g PROVE g \in Groups(e) <=> g \in Groups(d)
      <3>1. g # "" =>
              ((\E i \in 1..Len(e) : e[i].name \in Edited /\ e[i].group = g)
                <=> (\E i \in 1..Len(d) : d[i].name \in Edited /\ d[i].group = g))
        BY <1>4, <1>5
      <3> QED
        BY <3>1, <1>2, GroupsOf
    <2> QED
      BY <2>1
  <1>7. KeepsGroups(d, e)
    <2>1. \A i, j \in 1..Len(e) : (e[i].group # "" /\ e[i].group = e[j].group) =>
            i \in 1..Len(d) /\ j \in 1..Len(d) /\ e[i] = d[i] /\ e[j] = d[j]
      BY <1>4
    <2>2. WellGrouped(d) => WellGrouped(e)
      BY <2>1, <1>d, <1>3 DEF WellGrouped
    <2>3. OneKnown(d) => OneKnown(e)
      BY <2>1, <1>d, <1>3 DEF OneKnown
    <2> QED
      BY <2>2, <2>3 DEF KeepsGroups
  <1>8. EditOf(d, e, {name})
    BY <1>2, <1>6, <1>7, <1>t, EditInPlace DEF OthersStay
  <1> QED
    BY <1>8 DEF e

(* Removing the last of the first v lines of a name leaves the first v -   *)
(* 1, so the smaller indices still hold.                                   *)
LEMMA RemoveTruncates ==
    ASSUME NEW c \in Seq(Line), NEW d \in Seq(Line), WellGrouped(d), NEW name \in Edited,
           NEW v \in 1..Len(Where(c, Named(name))), Truncates(c, d, Named(name), v)
    PROVE  /\ Where(c, Named(name))[v] \in 1..Len(d)
           /\ d[Where(c, Named(name))[v]] \in Named(name)
           /\ Truncates(c, RemoveLine(d, Where(c, Named(name))[v]), Named(name), v - 1)
  <1> DEFINE S == Named(name)
             w == Where(c, S)
             i == w[v]
             p == Cutoff(c, S, v)
             q == Cutoff(c, S, v - 1)
             e == RemoveLine(d, i)
  <1>1. WhereIs(c, S, w)
    BY WhereAll
  <1>2. v \in 0..Len(w) /\ v - 1 \in 0..Len(w) /\ v \in 1..Len(w) /\ v - 1 # Len(w)
    OBVIOUS
  <1>3. p \in 0..Len(c) /\ \A k \in 1..Len(w) : k <= v <=> w[k] <= p
    BY <1>2, CutoffOrder
  <1>4. p <= Len(d) /\ (\A j \in 1..p : d[j] = c[j]) /\ \A j \in (p + 1)..Len(d) : d[j] \notin S
    BY DEF Truncates
  <1>5. q = i - 1
    <2>1. (v - 1) + 1 = v
      BY <1>2
    <2> QED
      BY <1>2, <2>1 DEF Cutoff
  <1>6. Len(c) \in Nat /\ Len(d) \in Nat
    OBVIOUS
  <1> HIDE DEF w, p, q, S
  <1>7. /\ \A k \in 1..Len(w) : c[w[k]] \in S /\ w[k] \in 1..Len(c)
        /\ \A j, k \in 1..Len(w) : j < k => w[j] < w[k]
        /\ \A j \in 1..Len(c) : c[j] \in S => \E k \in 1..Len(w) : w[k] = j
    BY <1>1 DEF WhereIs
  <1>8. i \in 1..Len(c) /\ c[i] \in S
    BY <1>2, <1>7
  <1>9. i \in 1..p /\ i \in 1..Len(d)
    BY <1>2, <1>3, <1>4, <1>6, <1>8
  <1>10. d[i] \in S
    BY <1>4, <1>8, <1>9
  <1>11. d[i].name \in Edited
    BY <1>10 DEF S, Named
  <1>12. /\ e \in Seq(Line) /\ i - 1 <= Len(e) /\ \A j \in 1..(i - 1) : e[j] = d[j]
         /\ \A j \in i..Len(e) : \E l \in (i + 1)..Len(d) : e[j] = d[l]
    <2> HIDE DEF i
    <2> QED
      BY <1>9, <1>11, RemoveLinePrefix
  <1>13. ASSUME NEW l \in (i + 1)..Len(d) PROVE d[l] \notin S
    <2>1. CASE l > p
      BY <2>1, <1>3, <1>4, <1>6, <1>8
    <2>2. CASE l <= p
      <3>1. l \in 1..p /\ l \in 1..Len(c) /\ l > i
        BY <2>2, <1>3, <1>6, <1>8
      <3>2. d[l] = c[l]
        BY <3>1, <1>4
      <3>3. ASSUME c[l] \in S PROVE FALSE
        <4>1. PICK k \in 1..Len(w) : w[k] = l
          BY <3>1, <3>3, <1>7
        <4>2. k <= v
          BY <3>1, <4>1, <1>3
        <4>3. k < v => w[k] < w[v]
          BY <1>2, <1>7
        <4> QED
          BY <3>1, <4>1, <4>2, <4>3, <1>2, <1>8
      <3> QED
        BY <3>2, <3>3
    <2> QED
      BY <2>1, <2>2, <1>3, <1>8
  <1> HIDE DEF e
  <1>14. \A j \in 1..q : e[j] = c[j]
    BY <1>3, <1>4, <1>5, <1>8, <1>9, <1>12
  <1>15. \A j \in (q + 1)..Len(e) : e[j] \notin S
    <2>1. q + 1 = i
      BY <1>5, <1>8
    <2> QED
      BY <2>1, <1>12, <1>13
  <1>16. q <= Len(e)
    BY <1>5, <1>12
  <1>17. Truncates(c, e, S, v - 1)
    BY <1>14, <1>15, <1>16 DEF Truncates, q
  <1> QED
    BY <1>9, <1>10, <1>17 DEF e, S, w

(* The line is the last of its name.                                       *)
IsLast(d, i, S) == d[i] \in S /\ \A j \in (i + 1)..Len(d) : d[j] \notin S

(* If a group has one property, removing the last line of a name leaves    *)
(* the other lines of that name, wherever the rest of the group is.        *)
LEMMA RemoveLast ==
    ASSUME NEW d \in Seq(Line), OneKnown(d), NEW name \in Edited, NEW i \in 1..Len(d),
           IsLast(d, i, Named(name))
    PROVE  Only(d, Named(name)) = Append(Only(RemoveLine(d, i), Named(name)), d[i])
  <1> DEFINE S == Named(name)
             a == SubSeq(d, 1, i - 1)
             b == SubSeq(d, i + 1, Len(d))
             x == <<d[i]>>
             K == {l \in Line : l.group # d[i].group}
             KS == K \cap S
             r == RemoveLine(d, i)
             none == <<>>
  <1>1. /\ a \in Seq(Line) /\ Len(a) = i - 1 /\ \A j \in 1..(i - 1) : a[j] = d[j]
        /\ b \in Seq(Line) /\ Len(b) = Len(d) - i /\ \A j \in 1..(Len(d) - i) : b[j] = d[i + j]
    OBVIOUS
  <1>2. d = (a \o x) \o b /\ RemoveAt(d, i) = a \o b
    BY Surgery, ZenonT(40)
  <1>3. /\ i \in Nat /\ Len(d) \in Nat /\ i <= Len(d) /\ ~(i > Len(d)) /\ d[i] \in Line
        /\ DOMAIN d = 1..Len(d) /\ x \in Seq(Line) /\ \A j \in 1..Len(d) : d[j] \in Line
    OBVIOUS
  <1>4. d[i] \in S /\ \A j \in (i + 1)..Len(d) : d[j] \notin S
    BY DEF IsLast
  <1>5. \A u \in Seq(Line) : u \o none = u /\ u \o x = Append(u, d[i])
    BY <1>3
  <1> HIDE DEF a, b
  <1>6. \A j \in 1..Len(b) : b[j] \notin S
    <2>1. \A j \in 1..(Len(d) - i) : i + j \in (i + 1)..Len(d)
      BY <1>3
    <2> QED
      BY <2>1, <1>1, <1>4
  <1>7. Only(b, S) = none /\ Only(x, S) = x
    <2>1. Only(b, S) = none
      <3> HIDE DEF S
      <3> QED
        BY <1>1, <1>6, OnlyNoneOf
    <2>2. Only(x, S) = x
      <3> HIDE DEF S
      <3> QED
        BY <1>3, <1>4, OnlyOne
    <2> QED
      BY <2>1, <2>2
  <1>8. ASSUME NEW T
        PROVE  /\ Only(a, T) \in Seq(Line)
               /\ Only(a \o b, T) = Only(a, T) \o Only(b, T)
               /\ Only(d, T) = (Only(a, T) \o Only(x, T)) \o Only(b, T)
    <2> HIDE DEF x
    <2>1. a \o x \in Seq(Line)
      BY <1>1, <1>3, ConcatProperties
    <2>2. Only(d, T) = Only(a \o x, T) \o Only(b, T)
      BY <1>1, <1>2, <2>1, OnlyConcat
    <2>3. Only(a \o x, T) = Only(a, T) \o Only(x, T)
      BY <1>1, <1>3, OnlyConcat
    <2>4. Only(a \o b, T) = Only(a, T) \o Only(b, T)
      BY <1>1, OnlyConcat
    <2>5. Only(a, T) \in Seq(Line)
      BY <1>1, OnlyType
    <2> QED
      BY <2>2, <2>3, <2>4, <2>5
  <1>9. Only(d, S) = Append(Only(a, S), d[i])
    <2>1. Only(d, S) = (Only(a, S) \o x) \o none /\ Only(a, S) \in Seq(Line)
      BY <1>7, <1>8
    <2>2. Only(a, S) \o x \in Seq(Line)
      BY <2>1, <1>3, ConcatProperties
    <2> HIDE DEF S, x, none
    <2> QED
      BY <2>1, <2>2, <1>5
  <1>10. Only(r, S) = Only(a, S)
    <2>1. CASE d[i].group = ""
      <3>1. r = a \o b
        BY <1>2, <1>3, <2>1 DEF RemoveLine
      <3> HIDE DEF S, none, r
      <3> QED
        BY <3>1, <1>5, <1>7, <1>8
    <2>2. CASE d[i].group # ""
      <3>1. r = Only(d, K)
        BY <1>3, <2>2 DEF RemoveLine
      <3>2. d[i] \notin KS
        OBVIOUS
      <3>3. \A j \in 1..Len(a) : a[j] \in KS <=> a[j] \in S
        <4> SUFFICES ASSUME NEW j \in 1..Len(a), a[j] \in S PROVE a[j] \in K
          OBVIOUS
        <4>1. j \in 1..Len(d) /\ j < i /\ a[j] = d[j] /\ d[j] \in Line
          BY <1>1, <1>3
        <4>2. d[j].name \in Edited /\ d[i].name \in Edited
          BY <4>1, <1>4 DEF Named
        <4>3. d[j].group # d[i].group
          BY <4>1, <4>2, <1>3, <2>2 DEF OneKnown
        <4> QED
          BY <4>1, <4>3
      <3>4. \A j \in 1..Len(b) : b[j] \notin KS
        BY <1>6
      <3>5. Only(Only(d, K), S) = Only(d, KS)
        BY OnlyOfOnly
      <3> HIDE DEF K, KS, S
      <3>6. Only(a, KS) = Only(a, S)
        BY <3>3, <1>1, OnlyAgree
      <3>7. Only(b, KS) = none
        BY <3>4, <1>1, OnlyNoneOf
      <3>8. Only(x, KS) = none
        BY <3>2, <1>3, OnlyOne
      <3>9. Only(d, KS) = (Only(a, S) \o none) \o none /\ Only(a, S) \in Seq(Line)
        BY <3>6, <3>7, <3>8, <1>8
      <3> HIDE DEF none, r
      <3> QED
        BY <3>1, <3>5, <3>9, <1>5
    <2> QED
      BY <2>1, <2>2
  <1> QED
    BY <1>9, <1>10

-----------------------------------------------------------------------------
(* Set                                                                     *)

(* Find returns the first of the lines of a name, or 0.                    *)
LEMMA FindLine ==
    ASSUME NEW d \in Seq(Line), NEW name
    PROVE  /\ Find(d, name) = 0 => Where(d, Named(name)) = <<>>
           /\ Find(d, name) # 0 =>
                /\ Len(Where(d, Named(name))) >= 1 /\ Find(d, name) = Where(d, Named(name))[1]
                /\ Find(d, name) \in 1..Len(d) /\ d[Find(d, name)] \in Named(name)
                /\ d[Find(d, name)].name = name /\ Find(d, name) > 0
  <1> DEFINE w == Where(d, Named(name))
  <1>1. WhereIs(d, Named(name), w)
    BY WhereAll
  <1>2. Find(d, name) = IF w = <<>> THEN 0 ELSE w[1]
    BY DEF Find, FindAll
  <1> HIDE DEF w
  <1>3. /\ w \in Seq(1..Len(d))
        /\ \A k \in 1..Len(w) : w[k] \in 1..Len(d) /\ d[w[k]] \in Named(name)
    BY <1>1 DEF WhereIs
  <1>4. w # <<>> => 1 \in 1..Len(w) /\ Len(w) >= 1
    BY <1>3
  <1>5. w # <<>> => w[1] \in 1..Len(d) /\ d[w[1]] \in Named(name) /\ w[1] # 0 /\ w[1] > 0
    BY <1>3, <1>4
  <1>6. w # <<>> => d[w[1]].name = name
    BY <1>5 DEF Named
  <1> QED
    BY <1>2, <1>4, <1>5, <1>6 DEF w

(* Every line of e is one of d, or one of this name that the server wrote, *)
(* with one of these values.                                               *)
Sourced(d, e, name, values) ==
    /\ e \in Seq(Line)
    /\ \A k \in 1..Len(e) : \/ \E j \in 1..Len(d) : e[k] = d[j]
                            \/ e[k].name = name /\ e[k].by = "server" /\ e[k].value \in values

(* A new line is a line of its name, without group, written by the server. *)
LEMMA NewLineType ==
    ASSUME NEW name \in Word, NEW types \in Seq(Word), NEW value \in Text
    PROVE  /\ NewLine(name, types, value) \in Fresh(name) /\ NewLine(name, types, value) \in Line
           /\ NewLine(name, types, value) \in Named(name)
           /\ NewLine(name, types, value).name = name
           /\ NewLine(name, types, value).value = value
           /\ NewLine(name, types, value).types = types
           /\ NewLine(name, types, value).by = "server"
  BY AlphabetAssumption DEF NewLine, Fresh, Line, Named

(* The properties the form knows are words.                                *)
LEMMA EditedNames ==
    Edited \subseteq Word
  BY CardAssumption

(* A line with a new value keeps its name and its group.                   *)
LEMMA RevaluedLine ==
    ASSUME NEW l \in Line, NEW value \in Text
    PROVE  /\ Revalued(l, value) \in Line /\ Revalued(l, value).name = l.name
           /\ Revalued(l, value).group = l.group /\ Revalued(l, value).value = value
           /\ Revalued(l, value).by = "server"
  <1> DEFINE k == [l EXCEPT !.value = value]
             m == [k EXCEPT !.by = "server"]
  <1>1. k \in Line /\ k.name = l.name /\ k.group = l.group /\ k.value = value
    BY DEF Line
  <1> HIDE DEF k
  <1>2. m \in Line /\ m.name = k.name /\ m.group = k.group /\ m.value = k.value /\ m.by = "server"
    BY <1>1 DEF Line
  <1>3. Revalued(l, value) = m
    BY DEF Revalued, k
  <1> HIDE DEF m
  <1> QED
    BY <1>1, <1>2, <1>3

(* A number that is at least one and at most one.                          *)
LEMMA JustOne ==
    ASSUME NEW n \in Nat, n <= 1, n >= 1
    PROVE  n = 1 /\ 1 \in 1..n
  OBVIOUS

(* A Set that removes no line, or one of a group with one property.        *)
Settable(d, name, value) == value # <<>> \/ FindAll(d, name) = <<>> \/ OneKnown(d)

(* Set edits the lines of its name, and afterwards the one line there is   *)
(* has the value.                                                          *)
LEMMA SetEdits ==
    ASSUME NEW d \in Seq(Line), NEW name \in Edited, NEW value \in Text
    PROVE  /\ Sourced(d, Set(d, name, value), name, {value})
           /\ Settable(d, name, value) => EditOf(d, Set(d, name, value), {name})
           /\ (Settable(d, name, value) /\ Len(FindAll(d, name)) <= 1) =>
                IF value = <<>> THEN Only(Set(d, name, value), Named(name)) = <<>>
                ELSE /\ Len(Only(Set(d, name, value), Named(name))) = 1
                     /\ Only(Set(d, name, value), Named(name))[1].value = value
  <1> DEFINE i == Find(d, name)
             S == Named(name)
             e == Set(d, name, value)
             w == Where(d, S)
  <1>1. name \in Word
    BY EditedNames
  <1>2. /\ i = 0 => w = <<>>
        /\ i # 0 => /\ Len(w) >= 1 /\ i = w[1] /\ i \in 1..Len(d) /\ d[i] \in S
                    /\ d[i].name = name /\ i > 0
    BY FindLine
  <1>3. e = IF value = <<>>
            THEN IF i = 0 THEN d ELSE RemoveLine(d, i)
            ELSE IF i = 0 THEN Append(d, NewLine(name, <<>>, value))
                 ELSE [d EXCEPT ![i] = Revalued(d[i], value)]
    BY Zenon DEF Set
  <1>4. Len(FindAll(d, name)) = Len(w) /\ Len(w) = Len(Only(d, S))
    BY OnlyType DEF FindAll
  <1> HIDE DEF e, i, w, S
  <1>s. SUFFICES /\ Sourced(d, e, name, {value})
                 /\ Settable(d, name, value) => EditOf(d, e, {name})
                 /\ (Settable(d, name, value) /\ Len(w) <= 1) =>
                      IF value = <<>> THEN Only(e, S) = <<>>
                      ELSE Len(Only(e, S)) = 1 /\ Only(e, S)[1].value = value
    BY <1>4 DEF e, S
  <1>0. Len(w) \in Nat /\ w \in Seq(1..Len(d))
    <2>1. WhereIs(d, S, w)
      BY WhereAll DEF w
    <2> QED
      BY <2>1 DEF WhereIs
  <1>9. Len(<<>>) = 0
    OBVIOUS
  <1>5. CASE i # 0 /\ value = <<>>
    <2>1. e = RemoveLine(d, i) /\ i \in 1..Len(d) /\ d[i].name = name /\ i = w[1]
      BY <1>2, <1>3, <1>5
    <2>2. Sourced(d, e, name, {value})
      <3>1. /\ RemoveLine(d, i) \in Seq(Line)
            /\ \A k \in 1..Len(RemoveLine(d, i)) :
                 \E j \in 1..Len(d) :
                   /\ RemoveLine(d, i)[k] = d[j]
                   /\ d[i].group # "" => d[j].group # d[i].group
        BY <2>1, RemoveLineType, Zenon
      <3> QED
        BY <2>1, <3>1 DEF Sourced
    <2>k. Settable(d, name, value) => OneKnown(d)
      <3>1. w # <<>>
        BY <1>2, <1>5, <1>9
      <3> QED
        BY <3>1, <1>5 DEF Settable, FindAll, w, S
    <2>3. Settable(d, name, value) => EditOf(d, e, {name})
      BY <2>1, <2>k, EditRemove
    <2>4. ASSUME Settable(d, name, value), Len(w) <= 1 PROVE Only(e, S) = <<>>
      <3>0. Len(w) >= 1
        BY <1>2, <1>5
      <3>1. Len(w) = 1 /\ 1 \in 1..Len(w)
        BY <2>4, <1>0, <3>0, JustOne, Zenon
      <3>2. IsLast(d, i, S)
        <4>1. WhereIs(d, S, w)
          BY WhereAll DEF w
        <4>2. \A j \in 1..Len(d) : d[j] \in S => j = i
          BY <4>1, <3>1, <2>1 DEF WhereIs
        <4>3. \A j \in (i + 1)..Len(d) : j \in 1..Len(d) /\ j # i
          BY <2>1
        <4>4. d[i] \in S
          BY <1>2, <1>5
        <4> QED
          BY <4>2, <4>3, <4>4 DEF IsLast
      <3>3. Only(d, S) = Append(Only(e, S), d[i])
        BY <2>1, <2>4, <2>k, <3>2, RemoveLast DEF S
      <3>4. e \in Seq(Line)
        BY <2>2 DEF Sourced
      <3>6. Only(e, S) \in Seq(Line)
        BY <3>4, OnlyType
      <3> DEFINE o == Only(e, S)
      <3>7. Len(o) + 1 = 1 /\ o \in Seq(Line)
        <4>1. d[i] \in Line
          BY <2>1
        <4>2. Len(Append(Only(e, S), d[i])) = 1
          BY <3>1, <3>3, <1>4
        <4> QED
          BY <4>1, <4>2, <3>6
      <3> HIDE DEF o
      <3>8. o = <<>>
        BY <3>7
      <3> QED
        BY <3>8 DEF o
    <2> QED
      BY <2>2, <2>3, <2>4, <1>5
  <1>6. CASE i # 0 /\ value # <<>>
    <2> DEFINE m == Revalued(d[i], value)
    <2>1. /\ e = [d EXCEPT ![i] = m] /\ i \in 1..Len(d) /\ d[i].name = name /\ i = w[1]
          /\ d[i] \in S /\ Len(w) >= 1
      BY <1>2, <1>3, <1>6
    <2>2. d[i] \in Line
      BY <2>1
    <2>3. /\ m \in Line /\ m.name = name /\ m.group = d[i].group /\ m.value = value
          /\ m.by = "server"
      BY <2>1, <2>2, RevaluedLine
    <2> HIDE DEF m
    <2>4. /\ e \in Seq(Line) /\ Len(e) = Len(d) /\ e[i] = m
          /\ \A j \in 1..Len(d) : j # i => e[j] = d[j]
      BY <2>1, <2>3
    <2>5. Sourced(d, e, name, {value})
      BY <2>3, <2>4 DEF Sourced
    <2>6. Rewrites(d, e, name)
      BY <2>1, <2>3, <2>4 DEF Rewrites
    <2>7. Settable(d, name, value) => EditOf(d, e, {name})
      BY <2>4, <2>6, EditRewrites
    <2>8. ASSUME Len(w) <= 1 PROVE Len(Only(e, S)) = 1 /\ Only(e, S)[1].value = value
      <3>1. m \in S
        BY <2>3 DEF S, Named
      <3>2. Parallel(d, e, S, S)
        BY <2>1, <2>4, <3>1 DEF Parallel
      <3>3. Where(e, S) = w
        BY <2>4, <3>2, WhereParallel DEF w
      <3>4. Len(w) = 1 /\ 1 \in 1..Len(Where(e, S))
        <4>1. Len(w) >= 1
          BY <2>1
        <4>2. Len(w) = 1 /\ 1 \in 1..Len(w)
          BY <2>8, <1>0, <4>1, JustOne, Zenon
        <4> QED
          BY <4>2, <3>3, <1>0
      <3>5. Only(e, S)[1] = e[w[1]]
        BY <2>4, <3>3, <3>4, OnlyAt, SMTT(30)
      <3>6. Len(Only(e, S)) = Len(w)
        BY <2>4, <3>3, OnlyType
      <3> QED
        BY <2>1, <2>3, <2>4, <3>4, <3>5, <3>6
    <2> QED
      BY <2>5, <2>7, <2>8, <1>6
  <1>7. CASE i = 0 /\ value = <<>>
    <2>1. e = d /\ w = <<>>
      BY <1>2, <1>3, <1>7
    <2>2. Sourced(d, e, name, {value})
      BY <2>1 DEF Sourced
    <2>3. Rewrites(d, e, name)
      BY <2>1 DEF Rewrites
    <2>4. Settable(d, name, value) => EditOf(d, e, {name})
      BY <2>1, <2>3, EditRewrites
    <2>5. Only(e, S) \in Seq(Line) /\ Len(Only(e, S)) = 0
      BY <2>1, <1>0, <1>9, <1>4, OnlyType
    <2> QED
      BY <2>2, <2>4, <2>5, <1>7
  <1>8. CASE i = 0 /\ value # <<>>
    <2> DEFINE n == NewLine(name, <<>>, value)
    <2>1. e = Append(d, n) /\ w = <<>>
      BY <1>2, <1>3, <1>8
    <2>2. n \in Fresh(name) /\ n \in Line /\ n \in S /\ n.name = name /\ n.value = value /\ n.by = "server"
      <3> DEFINE t == <<>>
      <3>1. t \in Seq(Word)
        OBVIOUS
      <3>2. n = NewLine(name, t, value)
        OBVIOUS
      <3> HIDE DEF t, n
      <3> QED
        BY <1>1, <3>1, <3>2, NewLineType DEF S
    <2> HIDE DEF n
    <2>3. /\ e \in Seq(Line) /\ Len(e) = Len(d) + 1 /\ e[Len(d) + 1] = n
          /\ \A j \in 1..Len(d) : e[j] = d[j]
      BY <2>1, <2>2
    <2>4. Sourced(d, e, name, {value})
      BY <2>2, <2>3 DEF Sourced
    <2>5. e = d \o <<n>> /\ <<n>> \in Seq(Fresh(name))
      BY <2>1, <2>2
    <2>6. Settable(d, name, value) => EditOf(d, e, {name})
      BY <2>5, EditAppend
    <2>7. Only(d, S) \in Seq(Line) /\ Len(Only(d, S)) = 0
      BY <2>1, <1>0, <1>9, <1>4, OnlyType
    <2>8. Only(e, S) = Append(Only(d, S), n)
      BY <2>1, <2>2, OnlyAppend
    <2>9. Len(Only(e, S)) = 1 /\ Only(e, S)[1] = n
      BY <2>2, <2>7, <2>8
    <2> QED
      BY <2>2, <2>4, <2>6, <2>9, <1>8
  <1> QED
    BY <1>5, <1>6, <1>7, <1>8

-----------------------------------------------------------------------------
(* Recursive functions                                                     *)

(* v is what N steps lead to.                                              *)
StepsTo(v, N, V, b, h) == \E f \in [0..N -> V] : Steps(f, N, b, h) /\ v = f[N]

(* The steps of k are those of h, and one more.                            *)
Extends(h, k, N) == \A n \in 1..N : k[n] = h[n]

(* The last of N + 1 steps is taken from the result of N.                  *)
LEMMA StepsExtend ==
    ASSUME NEW N \in Nat, NEW V, NEW b, NEW h, NEW k, Extends(h, k, N),
           NEW v, NEW w, StepsTo(v, N, V, b, h), StepsTo(w, N + 1, V, b, k)
    PROVE  v \in V /\ w \in V /\ w = k[N + 1][v]
  <1>1. PICK f \in [0..N -> V] : Steps(f, N, b, h) /\ v = f[N]
    BY DEF StepsTo
  <1>2. PICK g \in [0..(N + 1) -> V] : Steps(g, N + 1, b, k) /\ w = g[N + 1]
    BY DEF StepsTo
  <1>3. f[0] = b /\ \A n \in 1..N : f[n] = h[n][f[n - 1]]
    BY <1>1 DEF Steps
  <1>4. g[0] = b /\ \A n \in 1..(N + 1) : g[n] = k[n][g[n - 1]]
    BY <1>2 DEF Steps
  <1>5. \A n \in 1..N : n \in 1..(N + 1) /\ k[n] = h[n]
    BY DEF Extends
  <1>6. Follows(g, f, N)
    BY <1>3, <1>4, <1>5 DEF Follows
  <1>7. g[N] = f[N]
    BY <1>6, SameSteps
  <1>8. N + 1 \in 1..(N + 1) /\ (N + 1) - 1 = N /\ N \in 0..N /\ N + 1 \in 0..(N + 1)
    OBVIOUS
  <1>9. w = k[N + 1][g[N]]
    BY <1>2, <1>4, <1>8
  <1>10. v \in V /\ w \in V
    BY <1>1, <1>2, <1>8
  <1> QED
    BY <1>1, <1>7, <1>9, <1>10

(* v is what the elements of s lead to, one after the other.               *)
Folded(v, s, V, b, F) == StepsTo(v, Len(s), V, b, [n \in 1..Len(s) |-> F[s[n]]])

(* A fold over a longer sequence is one step more.                         *)
LEMMA FoldedAppend ==
    ASSUME NEW A, NEW V, NEW b, NEW F, NEW s \in Seq(A), NEW x \in A, NEW v, NEW w,
           Folded(v, s, V, b, F), Folded(w, Append(s, x), V, b, F)
    PROVE  v \in V /\ w \in V /\ w = F[x][v]
  <1> DEFINE t == Append(s, x)
             N == Len(s)
             h == [n \in 1..N |-> F[s[n]]]
             k == [n \in 1..Len(t) |-> F[t[n]]]
  <1>1. Len(t) = N + 1 /\ N \in Nat /\ t[N + 1] = x /\ \A n \in 1..N : t[n] = s[n]
    OBVIOUS
  <1>2. StepsTo(v, N, V, b, h) /\ StepsTo(w, Len(t), V, b, k)
    BY DEF Folded
  <1> HIDE DEF t, N
  <1>3. \A n \in 1..N : n \in 1..Len(t)
    BY <1>1
  <1>4. Extends(h, k, N)
    BY <1>1, <1>3 DEF Extends
  <1>5. k[N + 1] = F[x]
    <2>1. N + 1 \in 1..Len(t)
      BY <1>1
    <2> QED
      BY <2>1, <1>1
  <1> HIDE DEF h, k
  <1>6. StepsTo(w, N + 1, V, b, k)
    BY <1>1, <1>2
  <1>7. v \in V /\ w \in V /\ w = k[N + 1][v]
    BY <1>1, <1>2, <1>4, <1>6, StepsExtend
  <1> QED
    BY <1>5, <1>7

(* A fold over nothing is the start.                                       *)
LEMMA FoldedEmpty ==
    ASSUME NEW V, NEW b, NEW F, NEW v, NEW s, Len(s) = 0, Folded(v, s, V, b, F)
    PROVE  v = b
  BY DEF Folded, StepsTo, Steps

-----------------------------------------------------------------------------
(* Escape                                                                  *)

(* An escaped byte is a text.                                              *)
LEMMA EscapedType ==
    ASSUME NEW c \in Byte
    PROVE  Escaped(c) \in Text
  <1>1. "\\" \in Byte /\ "n" \in Byte
    BY AlphabetAssumption
  <1>2. CASE c = "LF"
    <2>1. Escaped(c) = <<"\\", "n">>
      BY <1>2 DEF Escaped
    <2> QED
      BY <1>1, <2>1 DEF Text
  <1>3. CASE c = "CR"
    <2>1. Escaped(c) = <<>>
      BY <1>3 DEF Escaped
    <2> QED
      BY <2>1 DEF Text
  <1>4. CASE c \in {"\\", ",", ";"}
    <2>1. Escaped(c) = <<"\\", c>>
      BY <1>4 DEF Escaped
    <2> QED
      BY <1>1, <2>1 DEF Text
  <1>5. CASE c \notin {"LF", "CR", "\\", ",", ";"}
    <2>1. Escaped(c) = <<c>>
      BY <1>5 DEF Escaped
    <2> QED
      BY <2>1 DEF Text
  <1> QED
    BY <1>2, <1>3, <1>4, <1>5

EscapeByte == [c \in Byte |-> [v \in Text |-> v \o Escaped(c)]]

(* The steps of Escape.                                                    *)
LEMMA EscapeByteType ==
    EscapeByte \in [Byte -> [Text -> Text]]
  <1>1. \A c \in Byte : Escaped(c) \in Text
    BY EscapedType
  <1>2. \A c \in Byte, v \in Text : v \o Escaped(c) \in Text
    BY <1>1 DEF Text
  <1> QED
    BY <1>2 DEF EscapeByte

(* Escape is a fold over the bytes,                                        *)
LEMMA EscapeSteps ==
    ASSUME NEW t \in Text
    PROVE  Folded(Escape(t), t, Text, <<>>, EscapeByte)
  <1> DEFINE N == Len(t)
             b == <<>>
             step(v, n) == v \o Escaped(t[n])
             h == [n \in 1..Len(t) |-> EscapeByte[t[n]]]
             body(f) == [n \in 0..N |-> IF n = 0 THEN b ELSE step(f[n - 1], n)]
             out == CHOOSE f : f = body(f)
  <1>1. N \in Nat /\ b \in Text
    BY DEF Text
  <1>e. Escape(t) = out[N]
    BY DEF Escape
  <1>t. \A n \in 1..N : t[n] \in Byte
    BY DEF Text
  <1>i. h \in [1..N -> [Text -> Text]]
    BY <1>t, EscapeByteType
  <1>h. \A n \in 1..N, v \in Text : h[n][v] = step(v, n)
    BY <1>t DEF EscapeByte
  <1> HIDE DEF N, b, step, h
  <1>4. PICK f \in [0..N -> Text] : Steps(f, N, b, h)
    <2> HIDE DEF out
    <2> QED
      BY <1>1, <1>i, Iteration
  <1>5. f[0] = b /\ \A n \in 1..N : f[n] = h[n][f[n - 1]]
    BY <1>4 DEF Steps
  <1>6. \A n \in 1..N : f[n - 1] \in Text
    BY <1>1, <1>4
  <1>7. \A n \in 1..N : f[n] = step(f[n - 1], n)
    <2> HIDE DEF out
    <2> QED
      BY <1>h, <1>5, <1>6
  <1>8. f = body(f)
    <2> HIDE DEF out
    <2>1. \A n \in 0..N : n # 0 => n \in 1..N
      BY <1>1
    <2>2. \A n \in 0..N : f[n] = IF n = 0 THEN b ELSE step(f[n - 1], n)
      BY <2>1, <1>5, <1>7
    <2> QED
      BY <2>2
  <1>9. out = body(out)
    <2> HIDE DEF body
    <2> QED
      BY <1>8
  <1> HIDE DEF out
  <1>10. out[0] = b /\ \A n \in 1..N : out[n] = step(out[n - 1], n)
    <2>1. 0 \in 0..N /\ \A n \in 1..N : n \in 0..N /\ n # 0
      BY <1>1
    <2> QED
      BY <2>1, <1>9
  <1>11. Follows(out, f, N)
    BY <1>5, <1>7, <1>10 DEF Follows
  <1>12. out[N] = f[N]
    BY <1>1, <1>11, SameSteps
  <1>13. StepsTo(Escape(t), N, Text, b, h)
    BY <1>4, <1>12, <1>e DEF StepsTo
  <1> QED
    BY <1>13 DEF N, b, h, Folded

(* of nothing it is nothing,                                               *)
LEMMA EscapeEmpty ==
    Escape(<<>>) = <<>>
  <1> DEFINE t == <<>>
  <1>1. t \in Text /\ Len(t) = 0
    BY DEF Text
  <1>2. t = <<>>
    OBVIOUS
  <1> HIDE DEF t
  <1>3. Folded(Escape(t), t, Text, <<>>, EscapeByte)
    BY <1>1, EscapeSteps
  <1>4. Escape(t) = <<>>
    BY <1>1, <1>3, FoldedEmpty
  <1> QED
    BY <1>2, <1>4

(* and of one byte more, the escaped byte more.                            *)
LEMMA EscapeAppend ==
    ASSUME NEW t \in Text, NEW c \in Byte
    PROVE  /\ Escape(t) \in Text
           /\ Escape(Append(t, c)) = Escape(t) \o Escaped(c)
  <1> DEFINE u == Append(t, c)
             e == <<>>
  <1>1. u \in Text /\ t \in Seq(Byte)
    BY DEF Text
  <1>2. Folded(Escape(t), t, Text, e, EscapeByte) /\ Folded(Escape(u), u, Text, e, EscapeByte)
    <2> HIDE DEF u
    <2> QED
      BY <1>1, EscapeSteps
  <1> HIDE DEF e
  <1>3. Escape(t) \in Text /\ Escape(u) = EscapeByte[c][Escape(t)]
    BY <1>1, <1>2, FoldedAppend
  <1> QED
    BY <1>3 DEF EscapeByte

(* An escaped text is a text.                                              *)
LEMMA EscapeType ==
    ASSUME NEW t \in Text
    PROVE  Escape(t) \in Text
  <1>1. PICK c : c \in Byte
    BY AlphabetAssumption
  <1> QED
    BY <1>1, EscapeAppend

-----------------------------------------------------------------------------
(* Scan                                                                    *)

ScanState == [parts : Seq(Text), part : Text, escaped : BOOLEAN]

Scanning(P, p, b) == [parts |-> P, part |-> p, escaped |-> b]

ScanStart == Scanning(<<>>, <<>>, FALSE)

ScanStep(separators) ==
    [c \in Byte |-> [s \in ScanState |-> ScanByte(s, c, separators)]]

(* The states of a scan,                                                   *)
LEMMA ScanningType ==
    ASSUME NEW P \in Seq(Text), NEW p \in Text, NEW b \in BOOLEAN
    PROVE  /\ Scanning(P, p, b) \in ScanState
           /\ Scanning(P, p, b).parts = P /\ Scanning(P, p, b).part = p
           /\ Scanning(P, p, b).escaped = b
  BY DEF Scanning, ScanState

(* and their fields.                                                       *)
LEMMA ScanStateFields ==
    ASSUME NEW s \in ScanState
    PROVE  /\ s.parts \in Seq(Text) /\ s.part \in Text /\ s.escaped \in BOOLEAN
           /\ s = Scanning(s.parts, s.part, s.escaped)
  BY DEF ScanState, Scanning

Meant(c) == IF c \in {"n", "N"} THEN "LF" ELSE c

(* One byte of a scan, case by case.                                       *)
LEMMA ScanByteIs ==
    ASSUME NEW s \in ScanState, NEW c \in Byte, NEW S
    PROVE  /\ s.escaped =>
                ScanByte(s, c, S) = Scanning(s.parts, Append(s.part, Meant(c)), FALSE)
           /\ (~s.escaped /\ c = "\\") => ScanByte(s, c, S) = Scanning(s.parts, s.part, TRUE)
           /\ (~s.escaped /\ c # "\\" /\ c \in S) =>
                ScanByte(s, c, S) = Scanning(Append(s.parts, s.part), <<>>, FALSE)
           /\ (~s.escaped /\ c # "\\" /\ c \notin S) =>
                ScanByte(s, c, S) = Scanning(s.parts, Append(s.part, c), FALSE)
  BY DEF ScanByte, Scanning, Meant

(* It leads to a state of a scan.                                          *)
LEMMA ScanByteType ==
    ASSUME NEW s \in ScanState, NEW c \in Byte, NEW S
    PROVE  ScanByte(s, c, S) \in ScanState
  <1>1. s.parts \in Seq(Text) /\ s.part \in Text /\ s.escaped \in BOOLEAN
    BY ScanStateFields
  <1>2. Meant(c) \in Byte
    BY AlphabetAssumption DEF Meant
  <1>3. Append(s.part, Meant(c)) \in Text /\ Append(s.part, c) \in Text
    BY <1>1, <1>2 DEF Text
  <1>4. Append(s.parts, s.part) \in Seq(Text)
    BY <1>1
  <1>5. <<>> \in Text
    BY DEF Text
  <1>7. CASE s.escaped
    <2>1. ScanByte(s, c, S) = Scanning(s.parts, Append(s.part, Meant(c)), FALSE)
      BY <1>7, ScanByteIs
    <2>2. Scanning(s.parts, Append(s.part, Meant(c)), FALSE) \in ScanState
      BY <1>1, <1>3, ScanningType
    <2> QED
      BY <2>1, <2>2
  <1>8. CASE ~s.escaped /\ c = "\\"
    <2>1. ScanByte(s, c, S) = Scanning(s.parts, s.part, TRUE)
      BY <1>8, ScanByteIs
    <2>2. Scanning(s.parts, s.part, TRUE) \in ScanState
      BY <1>1, ScanningType
    <2> QED
      BY <2>1, <2>2
  <1>9. CASE ~s.escaped /\ c # "\\" /\ c \in S
    <2>1. ScanByte(s, c, S) = Scanning(Append(s.parts, s.part), <<>>, FALSE)
      BY <1>9, ScanByteIs
    <2>2. Scanning(Append(s.parts, s.part), <<>>, FALSE) \in ScanState
      BY <1>4, <1>5, ScanningType
    <2> QED
      BY <2>1, <2>2
  <1>10. CASE ~s.escaped /\ c # "\\" /\ c \notin S
    <2>1. ScanByte(s, c, S) = Scanning(s.parts, Append(s.part, c), FALSE)
      BY <1>10, ScanByteIs
    <2>2. Scanning(s.parts, Append(s.part, c), FALSE) \in ScanState
      BY <1>1, <1>3, ScanningType
    <2> QED
      BY <2>1, <2>2
  <1> QED
    BY <1>7, <1>8, <1>9, <1>10, Zenon

(* A scan is a fold over the bytes,                                        *)
LEMMA ScanSteps ==
    ASSUME NEW t \in Text, NEW S
    PROVE  Folded(Scanned(t, S), t, ScanState, ScanStart, ScanStep(S))
  <1> DEFINE N == Len(t)
             b == ScanStart
             V == ScanState
             F == ScanStep(S)
             step(v, n) == ScanByte(v, t[n], S)
             h == [n \in 1..Len(t) |-> F[t[n]]]
             body(f) == [n \in 0..N |-> IF n = 0 THEN b ELSE step(f[n - 1], n)]
             out == CHOOSE f : f = body(f)
  <1>1. N \in Nat /\ b \in V
    BY DEF Text, ScanStart, ScanState, Scanning
  <1>2. F \in [Byte -> [V -> V]]
    BY ScanByteType DEF ScanStep
  <1>e. Scanned(t, S) = out[N]
    BY DEF Scanned, ScanStart, Scanning
  <1>t. \A n \in 1..N : t[n] \in Byte
    BY DEF Text
  <1>h. \A n \in 1..N, v \in V : h[n][v] = step(v, n)
    BY <1>t DEF ScanStep
  <1> HIDE DEF F, V
  <1>i. h \in [1..N -> [V -> V]]
    BY <1>t, <1>2
  <1> HIDE DEF N, b, step, h
  <1>4. PICK f \in [0..N -> V] : Steps(f, N, b, h)
    <2> HIDE DEF out
    <2> QED
      BY <1>1, <1>i, Iteration
  <1>5. f[0] = b /\ \A n \in 1..N : f[n] = h[n][f[n - 1]]
    BY <1>4 DEF Steps
  <1>6. \A n \in 1..N : f[n - 1] \in V
    BY <1>1, <1>4
  <1>7. \A n \in 1..N : f[n] = step(f[n - 1], n)
    <2> HIDE DEF out
    <2> QED
      BY <1>h, <1>5, <1>6
  <1>8. f = body(f)
    <2> HIDE DEF out
    <2>1. \A n \in 0..N : n # 0 => n \in 1..N
      BY <1>1
    <2>2. \A n \in 0..N : f[n] = IF n = 0 THEN b ELSE step(f[n - 1], n)
      BY <2>1, <1>5, <1>7
    <2> QED
      BY <2>2
  <1>9. out = body(out)
    <2> HIDE DEF body
    <2> QED
      BY <1>8
  <1> HIDE DEF out
  <1>10. out[0] = b /\ \A n \in 1..N : out[n] = step(out[n - 1], n)
    <2>1. 0 \in 0..N /\ \A n \in 1..N : n \in 0..N /\ n # 0
      BY <1>1
    <2> QED
      BY <2>1, <1>9
  <1>11. Follows(out, f, N)
    BY <1>5, <1>7, <1>10 DEF Follows
  <1>12. out[N] = f[N]
    BY <1>1, <1>11, SameSteps
  <1>13. StepsTo(Scanned(t, S), N, V, b, h)
    BY <1>4, <1>12, <1>e DEF StepsTo
  <1> QED
    BY <1>13 DEF N, b, h, V, F, Folded

(* which begins with nothing,                                              *)
LEMMA ScannedEmpty ==
    ASSUME NEW S
    PROVE  Scanned(<<>>, S) = ScanStart
  <1> DEFINE t == <<>>
  <1>1. t \in Text /\ Len(t) = 0
    BY DEF Text
  <1>2. t = <<>>
    OBVIOUS
  <1> HIDE DEF t
  <1>3. Folded(Scanned(t, S), t, ScanState, ScanStart, ScanStep(S))
    BY <1>1, ScanSteps
  <1>4. Scanned(t, S) = ScanStart
    BY <1>1, <1>3, FoldedEmpty
  <1> QED
    BY <1>2, <1>4

(* and takes one more byte from the state it is in.                        *)
LEMMA ScannedAppend ==
    ASSUME NEW t \in Text, NEW c \in Byte, NEW S
    PROVE  /\ Scanned(t, S) \in ScanState
           /\ Scanned(Append(t, c), S) = ScanByte(Scanned(t, S), c, S)
  <1> DEFINE u == Append(t, c)
             V == ScanState
             b == ScanStart
             F == ScanStep(S)
  <1>1. u \in Text /\ t \in Seq(Byte)
    BY DEF Text
  <1>2. Folded(Scanned(t, S), t, V, b, F) /\ Folded(Scanned(u, S), u, V, b, F)
    <2> HIDE DEF u
    <2> QED
      BY <1>1, ScanSteps
  <1>3. \A s \in V : F[c][s] = ScanByte(s, c, S)
    BY DEF ScanStep
  <1> HIDE DEF V, b, F
  <1>4. Scanned(t, S) \in V /\ Scanned(u, S) = F[c][Scanned(t, S)]
    BY <1>1, <1>2, FoldedAppend
  <1> QED
    BY <1>3, <1>4 DEF V

(* A scan returns at least one part.                                       *)
LEMMA ScanType ==
    ASSUME NEW t \in Text, NEW S
    PROVE  /\ Scanned(t, S) \in ScanState
           /\ Scan(t, S) \in Seq(Text) /\ Len(Scan(t, S)) >= 1
           /\ Len(Scan(t, S)) = Len(Scanned(t, S).parts) + 1
  <1> DEFINE end == Scanned(t, S)
             last == IF end.escaped THEN Append(end.part, "\\") ELSE end.part
  <1>1. "\\" \in Byte
    BY AlphabetAssumption
  <1>2. end \in ScanState
    BY <1>1, ScannedAppend
  <1>3. Scan(t, S) = Append(end.parts, last)
    BY DEF Scan
  <1> HIDE DEF end
  <1>4. end.parts \in Seq(Text) /\ end.part \in Text
    BY <1>2 DEF ScanState
  <1>5. last \in Text
    BY <1>1, <1>4 DEF Text
  <1> HIDE DEF last
  <1>6. /\ Append(end.parts, last) \in Seq(Text)
        /\ Len(Append(end.parts, last)) = Len(end.parts) + 1 /\ Len(end.parts) \in Nat
    BY <1>4, <1>5
  <1>7. Len(end.parts) + 1 >= 1
    BY <1>6
  <1> QED
    BY <1>2, <1>3, <1>6, <1>7 DEF end

-----------------------------------------------------------------------------
(* What is escaped is read back                                            *)

(* Texts are closed under concatenation.                                   *)
LEMMA Texts ==
    /\ <<>> \in Text
    /\ \A t \in Text : t \in Seq(Byte) /\ t \o <<>> = t /\ <<>> \o t = t
    /\ \A t \in Text, c \in Byte :
         Append(t, c) \in Text /\ t \o <<c>> = Append(t, c) /\ <<c>> \in Text
    /\ \A t, u \in Text : t \o u \in Text
  BY DEF Text

(* Two bytes are appended one after the other.                             *)
LEMMA TextPair ==
    ASSUME NEW t \in Text, NEW c \in Byte, NEW x \in Byte
    PROVE  t \o <<c, x>> = Append(Append(t, c), x)
  BY DEF Text

(* Concatenation is associative.                                           *)
LEMMA TextAssociative ==
    ASSUME NEW t \in Text, NEW u \in Text, NEW v \in Text
    PROVE  (t \o u) \o v = t \o (u \o v)
  BY DEF Text

Kept(c) == IF c = "CR" THEN <<>> ELSE <<c>>

(* Plain, byte by byte.                                                    *)
LEMMA PlainAppend ==
    ASSUME NEW t \in Text, NEW c \in Byte
    PROVE  Plain(t) \in Text /\ Plain(Append(t, c)) = Plain(t) \o Kept(c)
  <1> DEFINE S == Byte \ {"CR"}
  <1>1. t \in Seq(Byte) /\ (c \in S <=> c # "CR")
    BY DEF Text
  <1> HIDE DEF S
  <1>2. Only(t, S) \in Seq(Byte)
    BY <1>1, OnlyType
  <1>3. Only(Append(t, c), S) = IF c \in S THEN Append(Only(t, S), c) ELSE Only(t, S)
    BY <1>1, OnlyAppend
  <1>4. Plain(t) = Only(t, S) /\ Plain(Append(t, c)) = Only(Append(t, c), S)
    BY DEF Plain, S
  <1> DEFINE p == Plain(t)
             q == Plain(Append(t, c))
  <1>5. p \in Seq(Byte) /\ q = IF c # "CR" THEN Append(p, c) ELSE p
    BY <1>1, <1>2, <1>3, <1>4
  <1> HIDE DEF p, q
  <1>6. q = p \o Kept(c)
    <2>1. CASE c = "CR"
      BY <1>5, <2>1 DEF Kept
    <2>2. CASE c # "CR"
      BY <1>5, <2>2 DEF Kept
    <2> QED
      BY <2>1, <2>2
  <1> QED
    BY <1>5, <1>6 DEF p, q, Text

(* Plain of nothing.                                                       *)
LEMMA PlainEmpty ==
    Plain(<<>>) = <<>>
  BY OnlyEmpty DEF Plain

(* Whatever t was, the scan of e is where it was, and has read p.          *)
Reads(t, e, p, S) ==
    e = Scanning(Scanned(t, S).parts, Scanned(t, S).part \o p, FALSE)

Idle(t, S) == Scanned(t, S).escaped = FALSE

(* Outside an escape, the scan of an escaped byte adds that byte to the    *)
(* part and ends outside an escape: no separator is seen and none is lost. *)
LEMMA ScanEscaped ==
    ASSUME NEW t \in Text, NEW c \in Byte, NEW S, S \subseteq {",", ";"},
           Idle(t, S)
    PROVE  Reads(t, Scanned(t \o Escaped(c), S), Kept(c), S)
  <1> DEFINE st == Scanned(t, S)
             P == st.parts
             p == st.part
             k == "\\"
             u == Append(t, k)
  <1>1. k \in Byte /\ "n" \in Byte /\ "LF" \in Byte
    BY AlphabetAssumption
  <1>2. st \in ScanState
    BY <1>1, ScannedAppend
  <1>3. P \in Seq(Text) /\ p \in Text /\ st.escaped = FALSE
    BY <1>2, ScanStateFields DEF Idle
  <1>4. u \in Text
    BY <1>1, Texts
  <1>5. Scanned(u, S) = ScanByte(st, k, S)
    BY <1>1, ScannedAppend
  <1>6. ScanByte(st, k, S) = Scanning(P, p, TRUE)
    BY <1>1, <1>2, <1>3, ScanByteIs
  <1>7. Scanning(P, p, TRUE) \in ScanState /\ Scanning(P, p, TRUE).parts = P
        /\ Scanning(P, p, TRUE).part = p /\ Scanning(P, p, TRUE).escaped = TRUE
    BY <1>3, ScanningType
  <1>8. ASSUME NEW x \in Byte
        PROVE  Scanned(t \o <<k, x>>, S) = Scanning(P, Append(p, Meant(x)), FALSE)
    <2>1. t \o <<k, x>> = Append(u, x)
      BY <1>1, TextPair
    <2>2. Scanned(Append(u, x), S) = ScanByte(Scanned(u, S), x, S)
      BY <1>4, ScannedAppend
    <2> HIDE DEF u, st, P, p, k
    <2>3. ScanByte(Scanning(P, p, TRUE), x, S) = Scanning(P, Append(p, Meant(x)), FALSE)
      <3> DEFINE s == Scanning(P, p, TRUE)
      <3>1. s \in ScanState /\ s.parts = P /\ s.part = p /\ s.escaped
        BY <1>7
      <3> HIDE DEF s
      <3>2. ScanByte(s, x, S) = Scanning(s.parts, Append(s.part, Meant(x)), FALSE)
        BY <3>1, ScanByteIs
      <3> QED
        BY <3>1, <3>2 DEF s
    <2> QED
      BY <2>1, <2>2, <2>3, <1>5, <1>6
  <1>9. p \o <<c>> = Append(p, c) /\ p \o <<>> = p /\ p \o <<"LF">> = Append(p, "LF")
    BY <1>1, <1>3, Texts
  <1>10. SUFFICES Scanned(t \o Escaped(c), S) = Scanning(P, p \o Kept(c), FALSE)
    BY DEF Reads
  <1>11. CASE c = "LF"
    <2>1. Escaped(c) = <<k, "n">>
      BY <1>11 DEF Escaped
    <2>2. Meant("n") = "LF" /\ Kept(c) = <<"LF">>
      BY <1>11 DEF Meant, Kept
    <2> HIDE DEF st, P, p, k, u
    <2>3. Scanned(t \o <<k, "n">>, S) = Scanning(P, Append(p, Meant("n")), FALSE)
      BY <1>1, <1>8
    <2> QED
      BY <2>1, <2>2, <2>3, <1>9
  <1>12. CASE c = "CR"
    <2>1. Escaped(c) = <<>> /\ Kept(c) = <<>>
      BY <1>12 DEF Escaped, Kept
    <2>2. t \o <<>> = t
      BY Texts
    <2>3. st = Scanning(P, p, FALSE)
      BY <1>2, <1>3, ScanStateFields
    <2> QED
      BY <2>1, <2>2, <2>3, <1>9
  <1>13. CASE c \in {"\\", ",", ";"}
    <2>1. Escaped(c) = <<k, c>>
      BY <1>13 DEF Escaped
    <2>2. Meant(c) = c /\ Kept(c) = <<c>>
      BY <1>13 DEF Meant, Kept
    <2>3. Scanned(t \o <<k, c>>, S) = Scanning(P, Append(p, Meant(c)), FALSE)
      BY <1>8
    <2> HIDE DEF st, P, p, k, u
    <2> QED
      BY <2>1, <2>2, <2>3, <1>9
  <1>14. CASE c \notin {"LF", "CR", "\\", ",", ";"}
    <2>1. Escaped(c) = <<c>>
      BY <1>14 DEF Escaped
    <2>2. Kept(c) = <<c>> /\ c # "\\" /\ c \notin S
      BY <1>14 DEF Kept
    <2>3. t \o <<c>> = Append(t, c)
      BY Texts
    <2>4. Scanned(Append(t, c), S) = ScanByte(st, c, S)
      BY ScannedAppend
    <2>5. ScanByte(st, c, S) = Scanning(P, Append(p, c), FALSE)
      BY <2>2, <1>2, <1>3, ScanByteIs
    <2> HIDE DEF st, P, p, k, u
    <2> QED
      BY <2>1, <2>2, <2>3, <2>4, <2>5, <1>9
  <1> QED
    BY <1>11, <1>12, <1>13, <1>14

(* So does the scan of an escaped text.                                    *)
LEMMA ScanEscape ==
    ASSUME NEW a \in Text, NEW S, S \subseteq {",", ";"}, Idle(a, S),
           NEW t \in Text
    PROVE  Reads(a, Scanned(a \o Escape(t), S), Plain(t), S)
  <1> DEFINE T == {u \in Text : Reads(a, Scanned(a \o Escape(u), S), Plain(u), S)}
             st == Scanned(a, S)
             P == st.parts
             p == st.part
  <1>1. st \in ScanState
    BY ScanType
  <1>2. P \in Seq(Text) /\ p \in Text /\ st.escaped = FALSE /\ st = Scanning(P, p, FALSE)
    <2>1. st = Scanning(P, p, st.escaped)
      BY <1>1, ScanStateFields
    <2> QED
      BY <1>1, <2>1, ScanStateFields DEF Idle
  <1>3. \A u \in Text :
          u \in T <=> Scanned(a \o Escape(u), S) = Scanning(P, p \o Plain(u), FALSE)
    BY DEF Reads
  <1> HIDE DEF T, st, P, p
  <1>4. <<>> \in T
    <2>1. a \o <<>> = a /\ p \o <<>> = p /\ <<>> \in Text
      BY <1>2, Texts
    <2>2. Scanned(a, S) = Scanning(P, p, FALSE)
      BY <1>2 DEF st
    <2>3. Scanned(a \o Escape(<<>>), S) = Scanning(P, p \o Plain(<<>>), FALSE)
      BY <2>1, <2>2, EscapeEmpty, PlainEmpty
    <2> QED
      BY <2>1, <2>3, <1>3
  <1>5. ASSUME NEW u \in Text, NEW c \in Byte, u \in T PROVE Append(u, c) \in T
    <2> DEFINE e == Escape(u)
               b == a \o e
               q == Plain(u)
               x == Escaped(c)
               y == Kept(c)
    <2>1. e \in Text /\ Escape(Append(u, c)) = e \o x
      BY EscapeAppend
    <2>2. q \in Text /\ Plain(Append(u, c)) = q \o y
      BY PlainAppend
    <2>3. x \in Text /\ y \in Text /\ Append(u, c) \in Text
      BY EscapedType, Texts DEF Kept
    <2>4. Scanned(b, S) = Scanning(P, p \o q, FALSE)
      BY <1>3, <1>5
    <2>5. b \in Text
      BY <2>1, Texts
    <2>6. p \o q \in Text
      BY <1>2, <2>2, Texts
    <2>7. /\ Scanned(b, S).parts = P /\ Scanned(b, S).part = p \o q
          /\ Idle(b, S)
      <3> DEFINE r == p \o q
                 s == Scanning(P, r, FALSE)
      <3> HIDE DEF b, q, r
      <3>1. s.parts = P /\ s.part = r /\ s.escaped = FALSE
        BY DEF Scanning
      <3>2. Scanned(b, S) = s
        BY <2>4 DEF r
      <3> HIDE DEF s
      <3> QED
        BY <3>1, <3>2 DEF r, Idle
    <2>8. Reads(b, Scanned(b \o x, S), y, S)
      <3> HIDE DEF b
      <3> QED
        BY <2>5, <2>7, ScanEscaped
    <2>9. a \o (e \o x) = b \o x
      <3> HIDE DEF e, x
      <3> QED
        BY <2>1, <2>3, TextAssociative, ZenonT(60)
    <2>10. (p \o q) \o y = p \o (q \o y)
      <3> HIDE DEF q, y
      <3>1. p \in Text /\ q \in Text /\ y \in Text
        BY <1>2, <2>2, <2>3
      <3> QED
        BY <3>1, TextAssociative, ZenonT(60)
    <2> HIDE DEF e, b, q, x, y
    <2>11. Scanned(b \o x, S) = Scanning(P, (p \o q) \o y, FALSE)
      BY <2>7, <2>8 DEF Reads
    <2>12. Scanned(a \o Escape(Append(u, c)), S) = Scanning(P, p \o Plain(Append(u, c)), FALSE)
      BY <2>1, <2>2, <2>9, <2>10, <2>11
    <2> QED
      BY <2>3, <2>12, <1>3
  <1>6. \A u \in Seq(Byte) : u \in T
    BY <1>4, <1>5, SequenceInduction DEF Text
  <1> QED
    BY <1>6 DEF T, Text

(* Unescape undoes Escape, but for the CR.                                 *)
LEMMA UnescapeEscape ==
    ASSUME NEW t \in Text
    PROVE  Unescape(Escape(t)) = Plain(t)
  <1> DEFINE a == <<>>
             S == {}
             e == Escape(t)
             p == Plain(t)
  <1>1. a \in Text /\ e \in Text /\ S \subseteq {",", ";"}
    BY EscapeType DEF Text
  <1>p. p \in Text
    BY OnlyType DEF Plain, Text
  <1>2. Scanned(a, S) = Scanning(<<>>, <<>>, FALSE)
    BY ScannedEmpty DEF ScanStart
  <1>3. /\ Scanned(a, S).parts = <<>> /\ Scanned(a, S).part = <<>>
        /\ Idle(a, S)
    BY <1>2 DEF Scanning, Idle
  <1>4. Reads(a, Scanned(a \o e, S), p, S)
    <2> HIDE DEF a, S
    <2> QED
      BY <1>1, <1>3, ScanEscape
  <1>5. a \o e = e /\ <<>> \o p = p
    <2> HIDE DEF e, p
    <2> QED
      BY <1>1, <1>p, Texts
  <1>6. Scanned(e, S) = Scanning(<<>>, p, FALSE)
    <2> HIDE DEF a, S, e, p
    <2> QED
      BY <1>3, <1>4, <1>5 DEF Reads
  <1> HIDE DEF e, p
  <1>7. Scan(e, S) = Append(<<>>, p)
    <2>1. /\ Scanned(e, S).parts = <<>> /\ Scanned(e, S).part = p
          /\ Scanned(e, S).escaped = FALSE
      <3> HIDE DEF S
      <3> QED
        BY <1>6 DEF Scanning
    <2> HIDE DEF S
    <2> QED
      BY <2>1 DEF Scan
  <1>8. Scan(e, S)[1] = p
    BY <1>7
  <1> QED
    BY <1>8 DEF Unescape, e, p

-----------------------------------------------------------------------------
(* The parts of N and ORG                                                  *)

JoinPart == [p \in Text |-> [v \in Text |-> (v \o <<";">>) \o Escape(p)]]

(* The steps of Joined.                                                    *)
LEMMA JoinPartType ==
    JoinPart \in [Text -> [Text -> Text]]
  <1>1. \A p \in Text : Escape(p) \in Text
    BY EscapeType
  <1>2. <<";">> \in Text
    BY AlphabetAssumption, Texts
  <1>3. \A p, v \in Text : (v \o <<";">>) \o Escape(p) \in Text
    BY <1>1, <1>2, Texts
  <1> QED
    BY <1>3 DEF JoinPart

(* Joined is a fold over the parts,                                        *)
LEMMA JoinedSteps ==
    ASSUME NEW first \in Text, NEW t \in Seq(Text)
    PROVE  Folded(Joined(first, t), t, Text, Escape(first), JoinPart)
  <1> DEFINE N == Len(t)
             b == Escape(first)
             step(v, n) == (v \o <<";">>) \o Escape(t[n])
             h == [n \in 1..Len(t) |-> JoinPart[t[n]]]
             body(f) == [n \in 0..N |-> IF n = 0 THEN b ELSE step(f[n - 1], n)]
             out == CHOOSE f : f = body(f)
  <1>1. N \in Nat /\ b \in Text
    BY EscapeType
  <1>e. Joined(first, t) = out[N]
    BY DEF Joined
  <1>t. \A n \in 1..N : t[n] \in Text
    OBVIOUS
  <1>i. h \in [1..N -> [Text -> Text]]
    BY <1>t, JoinPartType
  <1>h. \A n \in 1..N, v \in Text : h[n][v] = step(v, n)
    BY <1>t DEF JoinPart
  <1> HIDE DEF N, b, step, h
  <1>4. PICK f \in [0..N -> Text] : Steps(f, N, b, h)
    <2> HIDE DEF out
    <2> QED
      BY <1>1, <1>i, Iteration
  <1>5. f[0] = b /\ \A n \in 1..N : f[n] = h[n][f[n - 1]]
    BY <1>4 DEF Steps
  <1>6. \A n \in 1..N : f[n - 1] \in Text
    BY <1>1, <1>4
  <1>7. \A n \in 1..N : f[n] = step(f[n - 1], n)
    <2> HIDE DEF out
    <2> QED
      BY <1>h, <1>5, <1>6
  <1>8. f = body(f)
    <2> HIDE DEF out
    <2>1. \A n \in 0..N : n # 0 => n \in 1..N
      BY <1>1
    <2>2. \A n \in 0..N : f[n] = IF n = 0 THEN b ELSE step(f[n - 1], n)
      BY <2>1, <1>5, <1>7
    <2> QED
      BY <2>2
  <1>9. out = body(out)
    <2> HIDE DEF body
    <2> QED
      BY <1>8
  <1> HIDE DEF out
  <1>10. out[0] = b /\ \A n \in 1..N : out[n] = step(out[n - 1], n)
    <2>1. 0 \in 0..N /\ \A n \in 1..N : n \in 0..N /\ n # 0
      BY <1>1
    <2> QED
      BY <2>1, <1>9
  <1>11. Follows(out, f, N)
    BY <1>5, <1>7, <1>10 DEF Follows
  <1>12. out[N] = f[N]
    BY <1>1, <1>11, SameSteps
  <1>13. StepsTo(Joined(first, t), N, Text, b, h)
    BY <1>4, <1>12, <1>e DEF StepsTo
  <1> QED
    BY <1>13 DEF N, b, h, Folded

(* of no further part it is the first,                                     *)
LEMMA JoinedEmpty ==
    ASSUME NEW first \in Text
    PROVE  Joined(first, <<>>) = Escape(first)
  <1> DEFINE t == <<>>
  <1>1. t \in Seq(Text) /\ Len(t) = 0
    OBVIOUS
  <1>2. t = <<>>
    OBVIOUS
  <1> HIDE DEF t
  <1>3. Folded(Joined(first, t), t, Text, Escape(first), JoinPart)
    BY <1>1, JoinedSteps
  <1>4. Joined(first, t) = Escape(first)
    BY <1>1, <1>3, FoldedEmpty
  <1> QED
    BY <1>2, <1>4

(* and one part more is a separator and the escaped part.                  *)
LEMMA JoinedAppend ==
    ASSUME NEW first \in Text, NEW t \in Seq(Text), NEW p \in Text
    PROVE  /\ Joined(first, t) \in Text
           /\ Joined(first, Append(t, p)) = (Joined(first, t) \o <<";">>) \o Escape(p)
  <1> DEFINE u == Append(t, p)
             b == Escape(first)
  <1>1. u \in Seq(Text)
    OBVIOUS
  <1>2. Folded(Joined(first, t), t, Text, b, JoinPart) /\ Folded(Joined(first, u), u, Text, b, JoinPart)
    <2> HIDE DEF u
    <2> QED
      BY <1>1, JoinedSteps
  <1>3. \A v \in Text : JoinPart[p][v] = (v \o <<";">>) \o Escape(p)
    BY DEF JoinPart
  <1> HIDE DEF b
  <1>4. Joined(first, t) \in Text /\ Joined(first, u) = JoinPart[p][Joined(first, t)]
    BY <1>2, FoldedAppend
  <1> QED
    BY <1>3, <1>4

(* Joined parts are a text.                                                *)
LEMMA JoinedType ==
    ASSUME NEW first \in Text, NEW t \in Seq(Text)
    PROVE  Joined(first, t) \in Text
  BY JoinedAppend

(* The parts of a scan that is between two bytes.                          *)
PartsOf(s) == Append(s.parts, s.part)

Plains(first, rest) ==
    [k \in 1..(Len(rest) + 1) |-> IF k = 1 THEN Plain(first) ELSE Plain(rest[k - 1])]

(* Plain text is a text.                                                   *)
LEMMA PlainType ==
    ASSUME NEW t \in Text
    PROVE  Plain(t) \in Text
  BY OnlyType DEF Plain, Text

(* The plain parts, part by part.                                          *)
LEMMA PlainsAppend ==
    ASSUME NEW first \in Text, NEW t \in Seq(Text), NEW p \in Text
    PROVE  /\ Plains(first, t) \in Seq(Text)
           /\ Plains(first, Append(t, p)) = Append(Plains(first, t), Plain(p))
  <1> DEFINE a == Plains(first, t)
             u == Append(t, p)
             b == Plains(first, u)
             q == Plain(p)
             c == Append(a, q)
             N == Len(t)
  <1>1. N \in Nat /\ Len(u) = N + 1 /\ u[N + 1] = p /\ \A k \in 1..N : u[k] = t[k] /\ t[k] \in Text
    OBVIOUS
  <1>2. Plain(first) \in Text /\ q \in Text /\ \A k \in 1..N : Plain(t[k]) \in Text
    BY <1>1, PlainType
  <1> HIDE DEF u, q
  <1>3. /\ a = [k \in 1..(N + 1) |-> IF k = 1 THEN Plain(first) ELSE Plain(t[k - 1])]
        /\ b = [k \in 1..(N + 2) |-> IF k = 1 THEN Plain(first) ELSE Plain(u[k - 1])]
    BY <1>1 DEF Plains
  <1> HIDE DEF a, b, N
  <1>4. a \in Seq(Text) /\ Len(a) = N + 1
    <2>1. \A k \in 1..(N + 1) : a[k] \in Text
      <3>1. \A k \in 1..(N + 1) : k # 1 => k - 1 \in 1..N
        BY <1>1
      <3> QED
        BY <3>1, <1>2, <1>3
    <2>2. a \in [1..(N + 1) -> Text]
      BY <2>1, <1>3
    <2> QED
      BY <2>2, <1>1
  <1>5. c \in Seq(Text) /\ Len(c) = N + 2 /\ c[N + 2] = q /\ \A k \in 1..(N + 1) : c[k] = a[k]
    BY <1>1, <1>2, <1>4
  <1> HIDE DEF c
  <1>6. b \in Seq(Text) /\ Len(b) = N + 2
    <2>1. \A k \in 1..(N + 2) : b[k] \in Text
      <3>1. \A k \in 1..(N + 2) : k # 1 => (k - 1 \in 1..N \/ k - 1 = N + 1)
        BY <1>1
      <3>2. \A k \in 1..(N + 2) : k # 1 => Plain(u[k - 1]) \in Text
        BY <3>1, <1>1, <1>2 DEF q
      <3> QED
        BY <3>2, <1>2, <1>3
    <2>2. b \in [1..(N + 2) -> Text]
      BY <2>1, <1>3
    <2> QED
      BY <2>2, <1>1
  <1>7. ASSUME NEW k \in 1..(N + 2) PROVE b[k] = c[k]
    <2>1. CASE k = N + 2
      <3>1. k # 1 /\ k - 1 = N + 1
        BY <2>1, <1>1
      <3>2. b[k] = Plain(u[k - 1])
        BY <3>1, <1>3
      <3> QED
        BY <2>1, <3>1, <3>2, <1>1, <1>5 DEF q
    <2>2. CASE k # N + 2
      <3>1. k \in 1..(N + 1)
        BY <2>2, <1>1
      <3>2. CASE k = 1
        BY <3>1, <3>2, <1>3, <1>5
      <3>3. CASE k # 1
        <4>1. k - 1 \in 1..N
          BY <3>1, <3>3, <1>1
        <4>2. b[k] = Plain(u[k - 1]) /\ a[k] = Plain(t[k - 1])
          BY <3>1, <3>3, <1>3
        <4> QED
          BY <4>1, <4>2, <3>1, <1>1, <1>5
      <3> QED
        BY <3>2, <3>3
    <2> QED
      BY <2>1, <2>2
  <1>8. b = c
    BY <1>5, <1>6, <1>7, SeqEqual
  <1> QED
    BY <1>4, <1>8 DEF a, b, c, u, q

(* The scan of joined parts has seen exactly these parts.                  *)
LEMMA ScanJoined ==
    ASSUME NEW first \in Text, NEW rest \in Seq(Text)
    PROVE  /\ Idle(Joined(first, rest), {";"})
           /\ PartsOf(Scanned(Joined(first, rest), {";"})) = Plains(first, rest)
  <1> DEFINE S == {";"}
             T == {t \in Seq(Text) : /\ Idle(Joined(first, t), S)
                                     /\ PartsOf(Scanned(Joined(first, t), S)) = Plains(first, t)}
  <1>s. S \subseteq {",", ";"} /\ ";" \in S /\ ";" # "\\"
    OBVIOUS
  <1>0. ";" \in Byte
    BY AlphabetAssumption
  <1> HIDE DEF S
  <1>1. <<>> \in T
    <2> DEFINE e == <<>>
               x == Escape(first)
               q == Plain(first)
    <2>1. e \in Text /\ x \in Text /\ q \in Text
      BY EscapeType, PlainType, Texts
    <2>2. Scanned(e, S) = Scanning(<<>>, <<>>, FALSE)
      BY ScannedEmpty DEF ScanStart
    <2>3. Scanned(e, S).parts = <<>> /\ Scanned(e, S).part = <<>> /\ Idle(e, S)
      BY <2>2 DEF Scanning, Idle
    <2>4. Reads(e, Scanned(e \o x, S), q, S)
      <3> HIDE DEF e
      <3> QED
        BY <1>s, <2>1, <2>3, ScanEscape
    <2>5. e \o x = x /\ <<>> \o q = q
      <3> HIDE DEF x, q
      <3> QED
        BY <2>1, Texts
    <2>6. Scanned(x, S) = Scanning(<<>>, q, FALSE)
      <3> HIDE DEF e, x, q
      <3> QED
        BY <2>3, <2>4, <2>5 DEF Reads
    <2>7. Scanned(x, S).parts = <<>> /\ Scanned(x, S).part = q /\ Idle(x, S)
      <3> HIDE DEF x, q
      <3> QED
        BY <2>6 DEF Scanning, Idle
    <2>8. PartsOf(Scanned(x, S)) = Append(<<>>, q)
      <3> HIDE DEF x, q
      <3> QED
        BY <2>7 DEF PartsOf
    <2>9. Plains(first, <<>>) = <<q>> /\ Append(<<>>, q) = <<q>>
      <3>1. Plains(first, <<>>) = [k \in 1..1 |-> q]
        BY DEF Plains
      <3> HIDE DEF q
      <3> QED
        BY <3>1
    <2>10. Joined(first, <<>>) = x
      BY JoinedEmpty
    <2>11. <<>> \in Seq(Text)
      OBVIOUS
    <2> HIDE DEF x, q
    <2> QED
      BY <2>7, <2>8, <2>9, <2>10, <2>11
  <1>2. ASSUME NEW t \in Seq(Text), NEW p \in Text, t \in T PROVE Append(t, p) \in T
    <2> DEFINE j == Joined(first, t)
               st == Scanned(j, S)
               k == Append(j, ";")
               x == Escape(p)
               q == Plain(p)
               A == Append(st.parts, st.part)
    <2>1. j \in Text /\ x \in Text /\ q \in Text /\ Joined(first, Append(t, p)) = (j \o <<";">>) \o x
      BY JoinedAppend, EscapeType, PlainType
    <2>2. j \o <<";">> = k /\ k \in Text
      <3> HIDE DEF j
      <3> QED
        BY <1>0, <2>1, Texts
    <2>3. Idle(j, S) /\ A = Plains(first, t)
      BY <1>2 DEF PartsOf
    <2> HIDE DEF j, x, q
    <2>4. st \in ScanState /\ st.escaped = FALSE /\ st.parts \in Seq(Text) /\ st.part \in Text
      BY <2>1, <2>3, ScanType, ScanStateFields DEF Idle
    <2>5. Scanned(k, S) = Scanning(A, <<>>, FALSE)
      <3>1. Scanned(k, S) = ScanByte(st, ";", S)
        BY <1>0, <2>1, ScannedAppend
      <3> HIDE DEF st
      <3>2. ScanByte(st, ";", S) = Scanning(A, <<>>, FALSE)
        BY <1>0, <1>s, <2>4, ScanByteIs
      <3> QED
        BY <3>1, <3>2
    <2> HIDE DEF k, A
    <2>6. Scanned(k, S).parts = A /\ Scanned(k, S).part = <<>> /\ Idle(k, S)
      BY <2>5 DEF Scanning, Idle
    <2>7. Reads(k, Scanned(k \o x, S), q, S)
      BY <1>s, <2>2, <2>6, ScanEscape DEF x, q
    <2>8. <<>> \o q = q
      BY <2>1, Texts
    <2>9. Scanned(k \o x, S) = Scanning(A, q, FALSE)
      BY <2>6, <2>7, <2>8 DEF Reads
    <2>10. /\ Scanned(k \o x, S).parts = A /\ Scanned(k \o x, S).part = q
           /\ Idle(k \o x, S)
      BY <2>9 DEF Scanning, Idle
    <2>11. PartsOf(Scanned(k \o x, S)) = Append(A, q)
      BY <2>10 DEF PartsOf
    <2>12. Plains(first, Append(t, p)) = Append(Plains(first, t), q)
      BY PlainsAppend DEF q
    <2>13. Append(t, p) \in Seq(Text)
      OBVIOUS
    <2>14. Joined(first, Append(t, p)) = k \o x
      BY <2>1, <2>2
    <2>15. PartsOf(Scanned(Joined(first, Append(t, p)), S)) = Plains(first, Append(t, p))
      BY <2>3, <2>11, <2>12, <2>14
    <2>16. Idle(Joined(first, Append(t, p)), S)
      BY <2>10, <2>14
    <2> QED
      BY <2>13, <2>15, <2>16
  <1>3. \A t \in Seq(Text) : t \in T
    <2> HIDE DEF T
    <2> QED
      BY <1>1, <1>2, SequenceInduction
  <1> QED
    BY <1>3 DEF S

(* SplitStructured splits where Joined has joined.                         *)
LEMMA SplitJoined ==
    ASSUME NEW first \in Text, NEW rest \in Seq(Text)
    PROVE  SplitStructured(Joined(first, rest)) = Plains(first, rest)
  <1> DEFINE j == Joined(first, rest)
             S == {";"}
  <1>1. Idle(j, S) /\ PartsOf(Scanned(j, S)) = Plains(first, rest)
    BY ScanJoined
  <1> HIDE DEF j, S
  <1>2. Scan(j, S) = PartsOf(Scanned(j, S))
    BY <1>1 DEF Scan, PartsOf, Idle
  <1> QED
    BY <1>1, <1>2 DEF SplitStructured, j, S

-----------------------------------------------------------------------------
(* SetAll                                                                  *)

(* The bytes that Escape keeps.                                            *)
Smooth == Byte \ {"CR"}

(* Texts without CR are texts.                                             *)
LEMMA SmoothTexts ==
    Seq(Smooth) \subseteq Text
  <1>1. Smooth \subseteq Byte
    BY DEF Smooth
  <1> SUFFICES ASSUME NEW t \in Seq(Smooth) PROVE t \in Seq(Byte)
    BY DEF Text
  <1> QED
    BY <1>1, SeqMonotonic, Zenon

(* Escape leaves no CR.                                                    *)
LEMMA EscapeSmooth ==
    ASSUME NEW t \in Text
    PROVE  Escape(t) \in Seq(Smooth)
  <1> DEFINE P == {s \in Text : Escape(s) \in Seq(Smooth)}
             e == <<>>
  <1>1. e \in P
    <2>1. e \in Text
      BY Texts
    <2>2. Escape(e) = e /\ e \in Seq(Smooth)
      BY EscapeEmpty
    <2> QED
      BY <2>1, <2>2
  <1>2. ASSUME NEW s \in Seq(Byte), NEW c \in Byte, s \in P PROVE Append(s, c) \in P
    <2>1. s \in Text /\ Escape(s) \in Seq(Smooth)
      BY <1>2
    <2>2. Append(s, c) \in Text /\ Escape(Append(s, c)) = Escape(s) \o Escaped(c)
      BY <2>1, Texts, EscapeAppend
    <2>3. Escaped(c) \in Seq(Smooth)
      <3>1. "\\" \in Smooth /\ "n" \in Smooth /\ (c # "CR" => c \in Smooth)
        BY AlphabetAssumption DEF Smooth
      <3>2. CASE c = "LF"
        BY <3>1, <3>2 DEF Escaped
      <3>3. CASE c = "CR"
        BY <3>3 DEF Escaped
      <3>4. CASE c \in {"\\", ",", ";"}
        <4>1. Escaped(c) = <<"\\", c>> /\ c # "CR"
          BY <3>4 DEF Escaped
        <4> QED
          BY <3>1, <4>1
      <3>5. CASE c \notin {"LF", "CR", "\\", ",", ";"}
        <4>1. Escaped(c) = <<c>> /\ c # "CR"
          BY <3>5 DEF Escaped
        <4> QED
          BY <3>1, <4>1
      <3> QED
        BY <3>2, <3>3, <3>4, <3>5
    <2> DEFINE x == Escape(s)
               y == Escaped(c)
    <2> HIDE DEF x, y
    <2>4. x \o y \in Seq(Smooth)
      BY <2>1, <2>3 DEF x, y
    <2> QED
      BY <2>2, <2>4 DEF x, y
  <1>3. \A s \in Seq(Byte) : s \in P
    <2> HIDE DEF P
    <2> QED
      BY <1>1, <1>2, SequenceInduction DEF e
  <1> QED
    BY <1>3 DEF Text

(* What Rewritten does to a line: its name and group stay, and a line with *)
(* the value and type of the row is left alone.                            *)
LEMMA RewrittenLine ==
    ASSUME NEW l \in Line, NEW row \in Row
    PROVE  /\ Rewritten(l, row) \in Line /\ Rewritten(l, row).name = l.name
           /\ Rewritten(l, row).group = l.group
           /\ Rewritten(l, row) = l \/ Rewritten(l, row).by = "server"
           /\ (Rewritten(l, row) = l /\ Unescape(l.value) = row.value)
              \/ Rewritten(l, row).value = Escape(row.value)
           /\ IF row.type = "" \/ Contains(l.types, row.type)
              THEN Rewritten(l, row).types = l.types
              ELSE Rewritten(l, row).types = <<row.type>>
           /\ ((row.type = "" \/ Contains(l.types, row.type)) /\ Unescape(l.value) = row.value)
              => Rewritten(l, row) = l
  <1> DEFINE same == row.type = "" \/ Contains(l.types, row.type)
             e == Escape(row.value)
             ty == IF same THEN l.types ELSE <<row.type>>
             ot == IF same THEN l.others ELSE FALSE
             a == [l EXCEPT !.types = ty]
             b == [a EXCEPT !.others = ot]
             c == [b EXCEPT !.value = e]
             d == [c EXCEPT !.by = "server"]
  <1>1. row.value \in Text /\ row.type \in Word
    BY DEF Row
  <1>2. e \in Text
    BY <1>1, EscapeType
  <1>3. l.types \in Seq(Word) /\ l.others \in BOOLEAN
    BY LineFields
  <1>4. ty \in Seq(Word) /\ ot \in BOOLEAN
    <2> HIDE DEF same
    <2>1. <<row.type>> \in Seq(Word)
      BY <1>1
    <2>2. ty \in Seq(Word)
      BY <1>3, <2>1
    <2>3. ot \in BOOLEAN
      BY <1>3, Zenon
    <2> QED
      BY <2>2, <2>3
  <1>5. Rewritten(l, row) = IF same /\ Unescape(l.value) = row.value THEN l ELSE d
    BY DEF Rewritten
  <1> HIDE DEF ty, ot, e, same
  <1>6. a \in Line /\ a.name = l.name /\ a.group = l.group /\ a.types = ty
    BY <1>4 DEF Line
  <1> HIDE DEF a
  <1>7. b \in Line /\ b.name = a.name /\ b.group = a.group /\ b.types = a.types
    BY <1>4, <1>6 DEF Line
  <1> HIDE DEF b
  <1>8. c \in Line /\ c.name = b.name /\ c.group = b.group /\ c.types = b.types /\ c.value = e
    BY <1>2, <1>7 DEF Line
  <1> HIDE DEF c
  <1>9. d \in Line /\ d.name = c.name /\ d.group = c.group /\ d.types = c.types
        /\ d.value = c.value /\ d.by = "server"
    BY <1>8 DEF Line
  <1> HIDE DEF d
  <1>10. d \in Line /\ d.name = l.name /\ d.group = l.group /\ d.types = ty /\ d.value = e
         /\ d.by = "server"
    BY <1>6, <1>7, <1>8, <1>9
  <1>11. ty = IF same THEN l.types ELSE <<row.type>>
    BY DEF ty
  <1> DEFINE r == Rewritten(l, row)
  <1>12. CASE same /\ Unescape(l.value) = row.value
    <2>1. r = l
      BY <1>5, <1>12
    <2> QED
      BY <2>1, <1>12 DEF same
  <1>13. CASE ~(same /\ Unescape(l.value) = row.value)
    <2>1. r = d
      BY <1>5, <1>13
    <2> HIDE DEF r
    <2>2. r \in Line /\ r.name = l.name /\ r.group = l.group /\ r.value = e /\ r.by = "server"
      BY <2>1, <1>10
    <2>3. r.types = IF same THEN l.types ELSE <<row.type>>
      BY <2>1, <1>10, <1>11
    <2> QED
      BY <2>2, <2>3, <1>13 DEF same, e, r
  <1> QED
    BY <1>12, <1>13

(* What the loop over the lines there are does.                            *)
RewritesAll(d, e, name, values) ==
    LET w == Where(d, Named(name))
    IN  \A k \in 1..Len(w) :
          e[w[k]] = IF k <= Len(values) THEN Rewritten(d[w[k]], values[k]) ELSE d[w[k]]

(* RewriteAll rewrites the k-th line of the name by the k-th row, and no   *)
(* other line.                                                             *)
LEMMA RewriteAllDoes ==
    ASSUME NEW d \in Seq(Line), NEW name, NEW values \in Seq(Row)
    PROVE  /\ RewriteAll(d, name, values) \in Seq(Line)
           /\ Sourced(d, RewriteAll(d, name, values), name, Seq(Smooth))
           /\ Rewrites(d, RewriteAll(d, name, values), name)
           /\ Where(RewriteAll(d, name, values), Named(name)) = Where(d, Named(name))
           /\ RewritesAll(d, RewriteAll(d, name, values), name, values)
  <1> DEFINE w == Where(d, Named(name))
             e == RewriteAll(d, name, values)
             position(i) == {k \in DOMAIN w \cap DOMAIN values : w[k] = i}
             at(i) == CHOOSE k \in position(i) : TRUE
  <1>1. e = [i \in DOMAIN d |-> IF position(i) = {} THEN d[i] ELSE Rewritten(d[i], values[at(i)])]
    BY DEF RewriteAll, FindAll
  <1>2. WhereIs(d, Named(name), w)
    BY WhereAll
  <1> HIDE DEF w, e
  <1>3. /\ w \in Seq(1..Len(d)) /\ \A k \in 1..Len(w) : w[k] \in 1..Len(d) /\ d[w[k]] \in Named(name)
        /\ \A j, k \in 1..Len(w) : j < k => w[j] < w[k]
    BY <1>2 DEF WhereIs
  <1>4. /\ DOMAIN w = 1..Len(w) /\ DOMAIN d = 1..Len(d) /\ DOMAIN values = 1..Len(values)
        /\ Len(w) \in Nat /\ Len(d) \in Nat /\ Len(values) \in Nat
        /\ \A i \in 1..Len(d) : d[i] \in Line
    BY <1>3
  <1>5. ASSUME NEW j \in 1..Len(w), NEW k \in 1..Len(w), w[j] = w[k] PROVE j = k
    <2>1. w[j] \in Int /\ w[k] \in Int /\ j \in Int /\ k \in Int
      BY <1>3
    <2>2. ~(j < k) /\ ~(k < j)
      BY <1>3, <1>5, <2>1
    <2> QED
      BY <2>1, <2>2
  <1>6. ASSUME NEW i \in 1..Len(d), position(i) # {}
        PROVE  /\ at(i) \in 1..Len(w) /\ at(i) \in 1..Len(values) /\ w[at(i)] = i
               /\ values[at(i)] \in Row /\ d[i].name = name
    <2>1. at(i) \in position(i)
      BY <1>6
    <2>2. at(i) \in 1..Len(w) /\ at(i) \in 1..Len(values) /\ w[at(i)] = i
      BY <2>1, <1>4
    <2> HIDE DEF at
    <2>3. values[at(i)] \in Row /\ d[i] \in Named(name)
      BY <2>2, <1>3
    <2> QED
      BY <2>2, <2>3 DEF Named
  <1>7. \A i \in 1..Len(d) :
          e[i] = IF position(i) = {} THEN d[i] ELSE Rewritten(d[i], values[at(i)])
    BY <1>1, <1>4
  <1> HIDE DEF at
  <1>8. ASSUME NEW i \in 1..Len(d)
        PROVE  /\ e[i] \in Line
               /\ e[i] = d[i] \/ (d[i].name = name /\ e[i].name = name /\ e[i].group = d[i].group)
               /\ \/ e[i] = d[i]
                  \/ e[i].name = name /\ e[i].by = "server" /\ e[i].value \in Seq(Smooth)
    <2>0. d[i] \in Line
      BY <1>4
    <2>1. CASE position(i) = {}
      BY <2>1, <2>0, <1>7
    <2>2. CASE position(i) # {}
      <3> DEFINE r == values[at(i)]
      <3>1. r \in Row /\ d[i].name = name
        BY <2>2, <1>6
      <3>2. e[i] = Rewritten(d[i], r)
        BY <2>2, <1>7
      <3> HIDE DEF r, position
      <3>3. /\ Rewritten(d[i], r) \in Line /\ Rewritten(d[i], r).name = d[i].name
            /\ Rewritten(d[i], r).group = d[i].group
            /\ \/ Rewritten(d[i], r) = d[i]
               \/ Rewritten(d[i], r).by = "server" /\ Rewritten(d[i], r).value = Escape(r.value)
        BY <2>0, <3>1, RewrittenLine
      <3>4. Escape(r.value) \in Seq(Smooth)
        BY <3>1, EscapeSmooth DEF Row
      <3> QED
        BY <3>1, <3>2, <3>3, <3>4
    <2> QED
      BY <2>1, <2>2
  <1>9. e \in Seq(Line) /\ Len(e) = Len(d)
    <2>1. e \in [1..Len(d) -> Line]
      BY <1>1, <1>4, <1>8
    <2> QED
      BY <2>1, <1>4
  <1>10. Rewrites(d, e, name)
    BY <1>8, <1>9 DEF Rewrites
  <1>11. Sourced(d, e, name, Seq(Smooth))
    BY <1>8, <1>9 DEF Sourced
  <1>12. Where(e, Named(name)) = w
    <2>1. \A i \in 1..Len(d) : d[i] \in Named(name) <=> e[i] \in Named(name)
      BY <1>4, <1>8 DEF Named
    <2>2. Parallel(d, e, Named(name), Named(name))
      BY <2>1, <1>9 DEF Parallel
    <2> QED
      BY <2>2, <1>9, WhereParallel DEF w
  <1>13. ASSUME NEW k \in 1..Len(w)
         PROVE  e[w[k]] = IF k <= Len(values) THEN Rewritten(d[w[k]], values[k]) ELSE d[w[k]]
    <2> DEFINE i == w[k]
    <2>1. i \in 1..Len(d)
      BY <1>3
    <2>2. CASE k <= Len(values)
      <3>1. k \in position(i)
        BY <2>2, <1>4
      <3>2. at(i) \in 1..Len(w) /\ w[at(i)] = i
        BY <2>1, <3>1, <1>6
      <3>3. at(i) = k
        <4> HIDE DEF position
        <4> QED
          BY <3>2, <1>5
      <3>4. e[i] = Rewritten(d[i], values[at(i)])
        BY <2>1, <3>1, <1>7
      <3> HIDE DEF position, i
      <3> QED
        BY <2>2, <3>3, <3>4 DEF i
    <2>3. CASE ~(k <= Len(values))
      <3>1. ASSUME position(i) # {} PROVE FALSE
        <4>1. at(i) \in 1..Len(w) /\ at(i) \in 1..Len(values) /\ w[at(i)] = i
          BY <2>1, <3>1, <1>6
        <4>2. at(i) = k
          <5> HIDE DEF position
          <5> QED
            BY <4>1, <1>5
        <4> QED
          BY <4>1, <4>2, <2>3, <1>4
      <3>2. e[i] = d[i]
        BY <2>1, <3>1, <1>7
      <3> QED
        BY <2>3, <3>2
    <2> QED
      BY <2>2, <2>3
  <1>14. RewritesAll(d, e, name, values)
    BY <1>13 DEF RewritesAll, w
  <1> QED
    BY <1>9, <1>10, <1>11, <1>12, <1>14 DEF e, w

(* Whatever the index, removal leaves lines that were there.               *)
LEMMA RemoveLineAnywhere ==
    ASSUME NEW d \in Seq(Line), NEW i \in Nat \ {0}
    PROVE  /\ RemoveLine(d, i) \in Seq(Line)
           /\ \A k \in 1..Len(RemoveLine(d, i)) : \E j \in 1..Len(d) : RemoveLine(d, i)[k] = d[j]
  <1>1. Len(d) \in Nat
    OBVIOUS
  <1>2. CASE i > Len(d)
    <2> DEFINE e == RemoveLine(d, i)
    <2>0. i > Len(d) /\ ~(i <= Len(d))
      BY <1>1, <1>2
    <2>1. e = <<>>
      BY <2>0, Zenon DEF RemoveLine
    <2>2. e \in Seq(Line) /\ Len(e) = 0
      BY <2>1
    <2> HIDE DEF e
    <2>3. \A k \in 1..Len(e) : FALSE
      BY <2>2
    <2> QED
      BY <2>2, <2>3 DEF e
  <1>3. CASE ~(i > Len(d))
    <2>1. i \in 1..Len(d)
      BY <1>1, <1>3
    <2>2. /\ RemoveLine(d, i) \in Seq(Line)
          /\ \A k \in 1..Len(RemoveLine(d, i)) :
               \E j \in 1..Len(d) :
                 /\ RemoveLine(d, i)[k] = d[j]
                 /\ d[i].group # "" => d[j].group # d[i].group
      BY <2>1, RemoveLineType, Zenon
    <2> QED
      BY <2>2
  <1> QED
    BY <1>2, <1>3

(* The steps of RemoveAll.                                                 *)
Removing(f, d, ix) ==
    /\ f \in [0..Len(ix) -> Seq(Line)] /\ f[0] = d
    /\ \A k \in 1..Len(ix) : f[k] = RemoveLine(f[k - 1], ix[Len(ix) + 1 - k])
    /\ RemoveAll(d, ix) = f[Len(ix)]

(* The removals one after the other.                                       *)
LEMMA RemoveAllSteps ==
    ASSUME NEW d \in Seq(Line), NEW ix \in Seq(Nat \ {0})
    PROVE  \E f : Removing(f, d, ix)
  <1> DEFINE N == Len(ix)
             V == Seq(Line)
             step(v, n) == RemoveLine(v, ix[N + 1 - n])
             h == [n \in 1..N |-> [v \in V |-> step(v, n)]]
             body(f) == [n \in 0..N |-> IF n = 0 THEN d ELSE step(f[n - 1], n)]
             out == CHOOSE f : f = body(f)
  <1>1. N \in Nat /\ d \in V
    OBVIOUS
  <1>e. RemoveAll(d, ix) = out[N]
    BY DEF RemoveAll
  <1>t. \A n \in 1..N : ix[N + 1 - n] \in Nat \ {0}
    <2>1. \A n \in 1..N : N + 1 - n \in 1..N
      BY <1>1
    <2> QED
      BY <2>1
  <1>s. \A n \in 1..N, v \in V : step(v, n) \in V
    BY <1>t, RemoveLineAnywhere
  <1> HIDE DEF step, V, N
  <1>i. h \in [1..N -> [V -> V]]
    BY <1>s
  <1>h. \A n \in 1..N, v \in V : h[n][v] = step(v, n)
    OBVIOUS
  <1> HIDE DEF h
  <1>4. PICK f \in [0..N -> V] : Steps(f, N, d, h)
    <2> HIDE DEF out
    <2> QED
      BY <1>1, <1>i, Iteration
  <1>5. f[0] = d /\ \A n \in 1..N : f[n] = h[n][f[n - 1]]
    BY <1>4 DEF Steps
  <1>6. \A n \in 1..N : f[n - 1] \in V
    BY <1>1, <1>4
  <1>7. \A n \in 1..N : f[n] = step(f[n - 1], n)
    <2> HIDE DEF out
    <2> QED
      BY <1>h, <1>5, <1>6
  <1>8. f = body(f)
    <2> HIDE DEF out
    <2>1. \A n \in 0..N : n # 0 => n \in 1..N
      BY <1>1
    <2>2. \A n \in 0..N : f[n] = IF n = 0 THEN d ELSE step(f[n - 1], n)
      BY <2>1, <1>5, <1>7
    <2> QED
      BY <2>2
  <1>9. out = body(out)
    <2> HIDE DEF body
    <2> QED
      BY <1>8
  <1> HIDE DEF out
  <1>10. out[0] = d /\ \A n \in 1..N : out[n] = step(out[n - 1], n)
    <2>1. 0 \in 0..N /\ \A n \in 1..N : n \in 0..N /\ n # 0
      BY <1>1
    <2> QED
      BY <2>1, <1>9
  <1>11. Follows(out, f, N)
    BY <1>5, <1>7, <1>10 DEF Follows
  <1>12. out[N] = f[N]
    BY <1>1, <1>11, SameSteps
  <1>13. Removing(f, d, ix)
    BY <1>4, <1>5, <1>7, <1>12, <1>e DEF Removing, N, V, step
  <1> QED
    BY <1>13

(* Every line of e is one of d.                                            *)
From(d, e) == e \in Seq(Line) /\ \A k \in 1..Len(e) : \E j \in 1..Len(d) : e[k] = d[j]

(* Lines of lines that were there were there.                              *)
LEMMA FromChain ==
    ASSUME NEW d, NEW e, NEW f, From(d, e), From(e, f)
    PROVE  From(d, f)
  BY DEF From

(* RemoveAll leaves lines that were there, also when an index is off.      *)
LEMMA RemoveAllType ==
    ASSUME NEW d \in Seq(Line), NEW ix \in Seq(Nat \ {0})
    PROVE  From(d, RemoveAll(d, ix))
  <1> DEFINE N == Len(ix)
  <1>0. N \in Nat
    OBVIOUS
  <1>1. PICK f : Removing(f, d, ix)
    BY RemoveAllSteps
  <1>2. /\ f \in [0..N -> Seq(Line)] /\ f[0] = d
        /\ \A k \in 1..N : f[k] = RemoveLine(f[k - 1], ix[N + 1 - k])
        /\ RemoveAll(d, ix) = f[N]
    BY <1>1 DEF Removing
  <1>t. \A k \in 1..N : ix[N + 1 - k] \in Nat \ {0}
    <2>1. \A k \in 1..N : N + 1 - k \in 1..N
      BY <1>0
    <2> QED
      BY <2>1
  <1> HIDE DEF N
  <1> DEFINE S == {n \in Nat : n <= N => From(d, f[n])}
  <1>3. 0 \in S
    <2>1. From(d, d)
      BY DEF From
    <2> QED
      BY <2>1, <1>2
  <1>4. ASSUME NEW n \in Nat, n \in S PROVE n + 1 \in S
    <2> SUFFICES ASSUME n + 1 <= N PROVE From(d, f[n + 1])
      OBVIOUS
    <2> DEFINE i == ix[N + 1 - (n + 1)]
    <2>1. n \in 0..N /\ n + 1 \in 1..N /\ n <= N /\ (n + 1) - 1 = n
      BY <1>0
    <2>2. f[n] \in Seq(Line) /\ i \in Nat \ {0}
      BY <2>1, <1>2, <1>t
    <2>3. f[n + 1] = RemoveLine(f[n], i)
      BY <2>1, <1>2
    <2>4. From(d, f[n])
      BY <2>1, <1>4
    <2> HIDE DEF i, S
    <2>5. From(f[n], RemoveLine(f[n], i))
      BY <2>2, RemoveLineAnywhere DEF From
    <2> QED
      BY <2>3, <2>4, <2>5, FromChain
  <1>5. N \in S
    <2> HIDE DEF S
    <2> QED
      BY <1>0, <1>3, <1>4, Induction
  <1> QED
    BY <1>0, <1>2, <1>5

(* Removing all but the first v lines of a property.                       *)
LEMMA RemoveAllEdits ==
    ASSUME NEW d \in Seq(Line), WellGrouped(d), NEW name \in Edited,
           NEW v \in 0..Len(Where(d, Named(name))), NEW ix \in Seq(Nat \ {0}),
           Len(ix) = Len(Where(d, Named(name))) - v,
           \A k \in 1..Len(ix) : ix[k] = Where(d, Named(name))[v + k]
    PROVE  /\ EditOf(d, RemoveAll(d, ix), {name})
           /\ Truncates(d, RemoveAll(d, ix), Named(name), v)
  <1> DEFINE N == Len(ix)
             S == Named(name)
             w == Where(d, S)
             m == Len(w)
  <1>w. WhereIs(d, S, w)
    BY WhereAll
  <1>x. v \in 0..m /\ N = m - v /\ \A k \in 1..N : ix[k] = w[v + k]
    OBVIOUS
  <1>0. N \in Nat
    OBVIOUS
  <1>1. PICK f : Removing(f, d, ix)
    BY RemoveAllSteps
  <1>2. /\ f \in [0..N -> Seq(Line)] /\ f[0] = d
        /\ \A k \in 1..N : f[k] = RemoveLine(f[k - 1], ix[N + 1 - k])
        /\ RemoveAll(d, ix) = f[N]
    BY <1>1 DEF Removing
  <1>r. \A c \in Seq(Line), u \in 1..m : (WellGrouped(c) /\ Truncates(d, c, S, u)) =>
          w[u] \in 1..Len(c) /\ c[w[u]] \in S /\ Truncates(d, RemoveLine(c, w[u]), S, u - 1)
    BY RemoveTruncates
  <1> HIDE DEF N, w, m
  <1>3. w \in Seq(1..Len(d)) /\ m \in Nat
    BY <1>w DEF WhereIs, m
  <1> HIDE DEF S
  <1> DEFINE T == {n \in Nat : n <= N => EditOf(d, f[n], {name}) /\ Truncates(d, f[n], S, m - n)}
  <1>4. 0 \in T
    <2>1. Truncates(d, d, S, m)
      <3>1. Cutoff(d, S, m) = Len(d)
        BY DEF Cutoff, m, w
      <3>2. Len(d) \in Nat
        OBVIOUS
      <3>3. \A j \in (Len(d) + 1)..Len(d) : FALSE
        BY <3>2
      <3>4. Len(d) <= Len(d)
        BY <3>2
      <3> QED
        BY <3>1, <3>3, <3>4 DEF Truncates
    <2>2. EditOf(d, d, {name})
      <3>1. Rewrites(d, d, name)
        BY DEF Rewrites
      <3> QED
        BY <3>1, EditRewrites
    <2>3. m - 0 = m
      BY <1>3
    <2> QED
      BY <2>1, <2>2, <2>3, <1>2
  <1>5. ASSUME NEW n \in Nat, n \in T PROVE n + 1 \in T
    <2> SUFFICES ASSUME n + 1 <= N
                 PROVE  EditOf(d, f[n + 1], {name}) /\ Truncates(d, f[n + 1], S, m - (n + 1))
      OBVIOUS
    <2> DEFINE u == m - n
    <2>1. /\ n \in 0..N /\ n + 1 \in 1..N /\ n <= N /\ (n + 1) - 1 = n
          /\ N + 1 - (n + 1) = N - n /\ N - n \in 1..N /\ v + (N - n) = u
          /\ u \in 1..m /\ m - (n + 1) = u - 1
      BY <1>0, <1>3, <1>x
    <2>2. EditOf(d, f[n], {name}) /\ Truncates(d, f[n], S, u)
      BY <2>1, <1>5
    <2>a. f[n + 1] = RemoveLine(f[(n + 1) - 1], ix[N + 1 - (n + 1)])
      BY <2>1, <1>2
    <2>b. ix[N - n] = w[v + (N - n)]
      BY <2>1, <1>x
    <2>3. f[n + 1] = RemoveLine(f[n], w[u])
      BY <2>1, <2>a, <2>b, Zenon
    <2> HIDE DEF T, u
    <2>4. f[n] \in Seq(Line) /\ WellGrouped(f[n]) /\ OneKnown(f[n])
      BY <2>2, GroupedIsKnown DEF EditOf, KeepsGroups
    <2>5. w[u] \in 1..Len(f[n]) /\ f[n][w[u]] \in S /\ Truncates(d, RemoveLine(f[n], w[u]), S, u - 1)
      BY <2>1, <2>2, <2>4, <1>r
    <2>6. f[n][w[u]].name = name
      BY <2>5 DEF S, Named
    <2>7. EditOf(f[n], f[n + 1], {name})
      BY <2>3, <2>4, <2>5, <2>6, EditRemove
    <2>8. EditOf(d, f[n + 1], {name} \cup {name})
      BY <2>2, <2>7, EditChain
    <2>9. {name} \cup {name} = {name}
      OBVIOUS
    <2> QED
      BY <2>1, <2>3, <2>5, <2>8, <2>9
  <1>6. N \in T
    <2> HIDE DEF T
    <2> QED
      BY <1>0, <1>4, <1>5, Induction
  <1>7. m - N = v
    BY <1>x, <1>3, <1>0
  <1> QED
    BY <1>0, <1>2, <1>6, <1>7 DEF S

(* The line of a new row.                                                  *)
LEMMA RowLineType ==
    ASSUME NEW name \in Word, NEW row \in Row
    PROVE  /\ RowLine(name, row) \in Fresh(name) /\ RowLine(name, row) \in Line
           /\ RowLine(name, row) \in Named(name)
           /\ RowLine(name, row).name = name /\ RowLine(name, row).by = "server"
           /\ RowLine(name, row).value = Escape(row.value)
           /\ RowLine(name, row).types = IF row.type = "" THEN <<>> ELSE <<row.type>>
  <1> DEFINE t == IF row.type = "" THEN <<>> ELSE <<row.type>>
             e == Escape(row.value)
  <1>1. row.value \in Text /\ row.type \in Word
    BY DEF Row
  <1>2. t \in Seq(Word)
    <2>1. <<>> \in Seq(Word) /\ <<row.type>> \in Seq(Word)
      BY <1>1
    <2> QED
      BY <2>1, Zenon
  <1>3. e \in Text
    BY <1>1, EscapeType
  <1>4. RowLine(name, row) = NewLine(name, t, e)
    BY DEF RowLine
  <1> HIDE DEF t, e
  <1>5. /\ NewLine(name, t, e) \in Fresh(name) /\ NewLine(name, t, e) \in Line
        /\ NewLine(name, t, e) \in Named(name) /\ NewLine(name, t, e).name = name
        /\ NewLine(name, t, e).value = e /\ NewLine(name, t, e).types = t
        /\ NewLine(name, t, e).by = "server"
    BY <1>2, <1>3, NewLineType
  <1> QED
    BY <1>4, <1>5 DEF t, e

(* The rows beyond the lines there are become new lines, in order.         *)
LEMMA InsertedType ==
    ASSUME NEW name \in Word, NEW values \in Seq(Row), NEW n \in Nat
    PROVE  /\ Inserted(name, values, n) \in Seq(Fresh(name))
           /\ Len(Inserted(name, values, n)) = IF n < Len(values) THEN Len(values) - n ELSE 0
           /\ \A k \in 1..Len(Inserted(name, values, n)) :
                n + k \in 1..Len(values) /\ Inserted(name, values, n)[k] = RowLine(name, values[n + k])
  <1> DEFINE more == SubSeq(values, n + 1, Len(values))
             ins == Inserted(name, values, n)
             F == Fresh(name)
  <1>1. Len(values) \in Nat
    OBVIOUS
  <1>2. /\ more \in Seq(Row) /\ Len(more) = IF n < Len(values) THEN Len(values) - n ELSE 0
        /\ \A k \in 1..Len(more) : more[k] = values[n + k]
    BY <1>1
  <1>3. ins = [k \in DOMAIN more |-> RowLine(name, more[k])]
    BY DEF Inserted
  <1> HIDE DEF more, ins, F
  <1>4. DOMAIN more = 1..Len(more) /\ \A k \in 1..Len(more) : more[k] \in Row
    BY <1>2
  <1>5. \A k \in 1..Len(more) : RowLine(name, more[k]) \in F
    BY <1>4, RowLineType DEF F
  <1>6. ins \in [1..Len(more) -> F] /\ Len(more) \in Nat
    BY <1>2, <1>3, <1>4, <1>5
  <1>7. ins \in Seq(F) /\ Len(ins) = Len(more)
    BY <1>6
  <1>8. \A k \in 1..Len(ins) : ins[k] = RowLine(name, values[n + k])
    BY <1>2, <1>3, <1>4, <1>7
  <1>9. \A k \in 1..Len(ins) : n + k \in 1..Len(values)
    BY <1>1, <1>2, <1>7
  <1> QED
    BY <1>2, <1>7, <1>8, <1>9 DEF ins, F

(* Without indices nothing is removed.                                     *)
LEMMA RemoveNone ==
    ASSUME NEW d \in Seq(Line), NEW ix \in Seq(Nat \ {0}), Len(ix) = 0
    PROVE  RemoveAll(d, ix) = d
  <1>1. PICK f : Removing(f, d, ix)
    BY RemoveAllSteps
  <1> QED
    BY <1>1 DEF Removing

(* Lines that are removed from an edited card change nothing about where   *)
(* the others come from.                                                   *)
LEMMA SourcedFrom ==
    ASSUME NEW d, NEW e, NEW f, NEW name, NEW values, Sourced(d, e, name, values),
           From(e, f)
    PROVE  Sourced(d, f, name, values)
  BY DEF Sourced, From

(* The lines of the property after SetAll.                                 *)
Listed(was, is, name, values) ==
    /\ Len(is) = Len(values)
    /\ \A k \in 1..Len(values) :
         is[k] = IF k <= Len(was) THEN Rewritten(was[k], values[k]) ELSE RowLine(name, values[k])

(* Every line SetAll leaves was there, or is one of its name without CR.   *)
LEMMA SetAllSourced ==
    ASSUME NEW d \in Seq(Line), NEW name \in Edited, NEW values \in Seq(Row)
    PROVE  Sourced(d, SetAll(d, name, values), name, Seq(Smooth))
  <1> DEFINE w == Where(d, Named(name))
             r == RewriteAll(d, name, values)
             ins == Inserted(name, values, Len(w))
             x == r \o ins
             ix == SubSeq(w, Len(values) + 1, Len(w))
  <1>1. SetAll(d, name, values) = RemoveAll(x, ix)
    BY DEF SetAll, FindAll
  <1>2. r \in Seq(Line) /\ Sourced(d, r, name, Seq(Smooth))
    BY RewriteAllDoes
  <1>3. WhereIs(d, Named(name), w)
    BY WhereAll
  <1> HIDE DEF w, r
  <1>4. w \in Seq(1..Len(d)) /\ Len(w) \in Nat
    BY <1>3 DEF WhereIs
  <1>5. ix \in Seq(Nat \ {0})
    <2>1. w \in Seq(Nat \ {0})
      <3>1. \A k \in 1..Len(w) : w[k] \in Nat \ {0}
        BY <1>4
      <3>2. w = [k \in 1..Len(w) |-> w[k]]
        BY <1>4
      <3> QED
        BY <1>4, <3>1, <3>2
    <2> QED
      BY <2>1
  <1>6. name \in Word
    BY EditedNames
  <1>7. /\ ins \in Seq(Fresh(name))
        /\ \A k \in 1..Len(ins) : Len(w) + k \in 1..Len(values) /\ ins[k] = RowLine(name, values[Len(w) + k])
    BY <1>4, <1>6, InsertedType
  <1> HIDE DEF ins, ix
  <1>8. ins \in Seq(Line)
    <2>1. Fresh(name) \subseteq Line
      BY DEF Fresh
    <2> QED
      BY <1>7, <2>1
  <1>9. \A k \in 1..Len(ins) : ins[k].name = name /\ ins[k].by = "server" /\ ins[k].value \in Seq(Smooth)
    <2>1. \A k \in 1..Len(values) : values[k] \in Row
      OBVIOUS
    <2>2. \A row \in Row : /\ RowLine(name, row).name = name /\ RowLine(name, row).by = "server"
                           /\ RowLine(name, row).value = Escape(row.value)
      BY <1>6, RowLineType, Zenon
    <2>3. \A row \in Row : Escape(row.value) \in Seq(Smooth)
      BY EscapeSmooth DEF Row
    <2>4. \A row \in Row : RowLine(name, row).value \in Seq(Smooth)
      BY <2>2, <2>3
    <2> QED
      BY <1>7, <2>1, <2>2, <2>4
  <1>10. x \in Seq(Line) /\ Len(x) = Len(r) + Len(ins) /\ Len(r) \in Nat /\ Len(ins) \in Nat
         /\ \A j \in 1..(Len(r) + Len(ins)) :
              x[j] = IF j <= Len(r) THEN r[j] ELSE ins[j - Len(r)]
    BY <1>2, <1>8, ConcatProperties
  <1> HIDE DEF x
  <1>11. Sourced(d, x, name, Seq(Smooth))
    <2>1. ASSUME NEW k \in 1..Len(x)
          PROVE  \/ \E j \in 1..Len(d) : x[k] = d[j]
                 \/ x[k].name = name /\ x[k].by = "server" /\ x[k].value \in Seq(Smooth)
      <3>1. CASE k <= Len(r)
        <4>1. k \in 1..Len(r) /\ x[k] = r[k]
          BY <3>1, <1>10
        <4> QED
          BY <4>1, <1>2 DEF Sourced
      <3>2. CASE ~(k <= Len(r))
        <4>1. k - Len(r) \in 1..Len(ins) /\ x[k] = ins[k - Len(r)]
          BY <3>2, <1>10
        <4> QED
          BY <4>1, <1>9
      <3> QED
        BY <3>1, <3>2
    <2> QED
      BY <2>1, <1>10 DEF Sourced
  <1>12. From(x, RemoveAll(x, ix))
    BY <1>5, <1>10, RemoveAllType
  <1> QED
    BY <1>1, <1>11, <1>12, SourcedFrom

(* A SetAll whose indices hold: it removes nothing, or one line of a group *)
(* with one property, or groups begin with their property.                 *)
Resizable(d, name, n) ==
    \/ Len(FindAll(d, name)) <= n
    \/ WellGrouped(d)
    \/ OneKnown(d) /\ Len(FindAll(d, name)) <= n + 1

(* Removing one line by its index.                                         *)
LEMMA RemoveSingle ==
    ASSUME NEW d \in Seq(Line), NEW ix \in Seq(Nat \ {0}), Len(ix) = 1
    PROVE  RemoveAll(d, ix) = RemoveLine(d, ix[1])
  <1>1. PICK f : Removing(f, d, ix)
    BY RemoveAllSteps
  <1>2. f[0] = d /\ f[1] = RemoveLine(f[1 - 1], ix[1 + 1 - 1]) /\ RemoveAll(d, ix) = f[1]
    BY <1>1 DEF Removing
  <1> QED
    BY <1>2

(* SetAll is an edit of its name, and leaves the list the form has sent.   *)
LEMMA SetAllEdits ==
    ASSUME NEW d \in Seq(Line), NEW name \in Edited, NEW values \in Seq(Row),
           Resizable(d, name, Len(values))
    PROVE  /\ EditOf(d, SetAll(d, name, values), {name})
           /\ Listed(Only(d, Named(name)), Only(SetAll(d, name, values), Named(name)), name, values)
  <1> DEFINE S == Named(name)
             w == Where(d, S)
             m == Len(w)
             n == Len(values)
             r == RewriteAll(d, name, values)
             ins == Inserted(name, values, m)
             ix == SubSeq(w, n + 1, m)
             e == SetAll(d, name, values)
  <1>1. e = RemoveAll(r \o ins, ix)
    BY DEF SetAll, FindAll
  <1>2. r \in Seq(Line) /\ Rewrites(d, r, name) /\ Where(r, S) = w /\ RewritesAll(d, r, name, values)
    BY RewriteAllDoes
  <1>3. WhereIs(d, S, w)
    BY WhereAll
  <1>4. /\ Len(Only(d, S)) = m /\ Only(d, S) \in Seq(Line)
        /\ \A k \in 1..m : Only(d, S)[k] = d[w[k]] /\ w[k] \in 1..Len(d)
    <2>1. Len(Only(d, S)) = m /\ Only(d, S) \in Seq(Line)
      BY OnlyType, Zenon
    <2>2. \A k \in 1..m : Only(d, S)[k] = d[w[k]] /\ w[k] \in 1..Len(d)
      BY OnlyAt
    <2> QED
      BY <2>1, <2>2
  <1>5. \A k \in 1..m : r[w[k]] = IF k <= n THEN Rewritten(d[w[k]], values[k]) ELSE d[w[k]]
    BY <1>2 DEF RewritesAll
  <1>6. EditOf(d, r, {name})
    BY <1>2, EditRewrites
  <1>7. name \in Word /\ n \in Nat
    BY EditedNames
  <1> HIDE DEF r, w, S
  <1>8. w \in Seq(1..Len(d)) /\ m \in Nat
    BY <1>3 DEF WhereIs
  <1>9. ix \in Seq(Nat \ {0}) /\ Len(ix) = (IF n < m THEN m - n ELSE 0)
        /\ \A k \in 1..Len(ix) : ix[k] = w[n + k]
    <2>1. w \in Seq(Nat \ {0})
      <3>1. \A k \in 1..m : w[k] \in Nat \ {0}
        BY <1>8
      <3>2. w = [k \in 1..m |-> w[k]]
        BY <1>8
      <3> QED
        BY <1>8, <3>1, <3>2
    <2> QED
      BY <2>1, <1>7, <1>8
  <1>10. /\ ins \in Seq(Fresh(name)) /\ Len(ins) = IF m < n THEN n - m ELSE 0
         /\ \A k \in 1..Len(ins) : m + k \in 1..n /\ ins[k] = RowLine(name, values[m + k])
    BY <1>7, <1>8, InsertedType
  <1> HIDE DEF ins, ix
  <1>11. \A k \in 1..m : Only(r, S)[k] = r[w[k]]
    <2>1. \A k \in 1..Len(Where(r, S)) : Only(r, S)[k] = r[Where(r, S)[k]]
      BY <1>2, OnlyAt
    <2> QED
      BY <2>1, <1>2
  <1>12. Len(Only(r, S)) = m /\ Only(r, S) \in Seq(Line)
    BY <1>2, OnlyType
  <1>13. \A k \in 1..m : Only(r, S)[k] = IF k <= n THEN Rewritten(Only(d, S)[k], values[k])
                                         ELSE Only(d, S)[k]
    BY <1>4, <1>5, <1>11
  <1>g. Resizable(r, name, n)
    <2>1. Len(FindAll(r, name)) = Len(FindAll(d, name))
      BY <1>2 DEF FindAll, S, w
    <2>2. KeepsGroups(d, r)
      BY <1>6 DEF EditOf
    <2> QED
      BY <2>1, <2>2 DEF Resizable, KeepsGroups
  <1>f. Len(FindAll(r, name)) = m
    BY <1>2 DEF FindAll, S
  <1>14. CASE n <= m
    <2>1. Len(ins) = 0
      BY <1>7, <1>8, <1>10, <1>14
    <2>2. r \o ins = r
      <3>1. ins = <<>>
        BY <2>1, <1>10
      <3> QED
        BY <3>1, <1>2
    <2>3. e = RemoveAll(r, ix)
      BY <1>1, <2>2
    <2> HIDE DEF e
    <2>4. Len(ix) = m - n /\ n \in 0..m
      BY <1>7, <1>8, <1>9, <1>14
    <2>5. /\ EditOf(r, e, {name}) /\ Len(Only(e, S)) = n
          /\ \A k \in 1..n : Only(e, S)[k] = Only(r, S)[k]
      <3>1. CASE m <= n
        <4>1. m = n /\ Len(ix) = 0
          BY <3>1, <2>4, <1>7, <1>8
        <4>2. e = r
          BY <4>1, <2>3, <1>2, <1>9, RemoveNone
        <4>3. Rewrites(r, r, name)
          BY DEF Rewrites
        <4>4. EditOf(r, r, {name})
          BY <4>3, <1>2, EditRewrites
        <4> QED
          BY <4>1, <4>2, <4>4, <1>12
      <3>2. CASE WellGrouped(r)
        <4>1. n \in 0..Len(Where(r, S)) /\ Len(ix) = Len(Where(r, S)) - n
          BY <2>4, <1>2
        <4>2. \A k \in 1..Len(ix) : ix[k] = Where(r, S)[n + k]
          BY <1>2, <1>9
        <4> HIDE DEF n, m
        <4>3. EditOf(r, e, {name}) /\ Truncates(r, e, S, n)
          BY <1>2, <1>9, <3>2, <2>3, <4>1, <4>2, RemoveAllEdits DEF S
        <4>4. e \in Seq(Line)
          BY <4>3 DEF EditOf
        <4>5. Len(Where(e, S)) = n /\ \A k \in 1..n : Only(e, S)[k] = Only(r, S)[k]
          BY <1>2, <4>1, <4>3, <4>4, WhereTruncate
        <4>6. Len(Only(e, S)) = n
          BY <4>4, <4>5, OnlyType
        <4> QED
          BY <4>3, <4>5, <4>6
      <3>3. CASE OneKnown(r) /\ m = n + 1
        <4> DEFINE i == w[m]
        <4>1. Len(ix) = 1 /\ 1 \in 1..Len(ix) /\ n + 1 = m /\ m \in 1..m
          BY <3>3, <2>4, <1>7, <1>8
        <4>2. ix[1] = i
          BY <4>1, <1>9
        <4>3. e = RemoveLine(r, i)
          BY <4>1, <4>2, <2>3, <1>2, <1>9, RemoveSingle
        <4>4. WhereIs(r, S, w)
          BY <1>2, WhereAll
        <4>5. i \in 1..Len(r) /\ r[i] \in S
          BY <4>1, <4>4 DEF WhereIs
        <4>6. IsLast(r, i, S)
          <5> SUFFICES ASSUME NEW j \in (i + 1)..Len(r), r[j] \in S PROVE FALSE
            BY <4>5 DEF IsLast
          <5>1. j \in 1..Len(r) /\ j > i
            BY <4>5
          <5>2. PICK k \in 1..m : w[k] = j
            BY <5>1, <4>4 DEF WhereIs
          <5>3. k < m => w[k] < w[m]
            BY <4>1, <4>4 DEF WhereIs
          <5>4. k = m \/ k < m
            BY <1>8
          <5> QED
            BY <5>1, <5>2, <5>3, <5>4, <4>5
        <4> HIDE DEF i
        <4>7. Only(r, S) = Append(Only(e, S), r[i])
          BY <3>3, <4>3, <4>5, <4>6, <1>2, RemoveLast DEF S
        <4>8. EditOf(r, e, {name})
          <5>1. r[i].name = name
            BY <4>5 DEF S, Named
          <5> QED
            BY <5>1, <3>3, <4>3, <4>5, <1>2, EditRemove
        <4>9. Only(e, S) \in Seq(Line)
          <5>1. e \in Seq(Line)
            BY <4>8 DEF EditOf
          <5> QED
            BY <5>1, OnlyType
        <4>10. r[i] \in Line
          BY <4>5, <1>2
        <4>11. Len(Only(e, S)) + 1 = m /\ \A k \in 1..Len(Only(e, S)) : Only(e, S)[k] = Only(r, S)[k]
          BY <4>7, <4>9, <4>10, <1>12
        <4>12. Len(Only(e, S)) = n
          BY <4>11, <4>9, <3>3, <1>7
        <4> QED
          BY <4>8, <4>11, <4>12
      <3>4. m <= n \/ WellGrouped(r) \/ (OneKnown(r) /\ m = n + 1)
        <4>1. m <= n \/ WellGrouped(r) \/ (OneKnown(r) /\ m <= n + 1)
          BY <1>g, <1>f DEF Resizable
        <4>2. m <= n + 1 => m <= n \/ m = n + 1
          BY <1>7, <1>8
        <4> QED
          BY <4>1, <4>2
      <3> QED
        BY <3>1, <3>2, <3>3, <3>4
    <2>6. EditOf(d, e, {name} \cup {name})
      BY <1>6, <2>5, EditChain
    <2>7. {name} \cup {name} = {name}
      OBVIOUS
    <2>11. ASSUME NEW k \in 1..n
           PROVE  k <= Len(Only(d, S)) /\ Only(e, S)[k] = Rewritten(Only(d, S)[k], values[k])
      <3>1. k \in 1..m /\ k <= n /\ k <= m
        BY <1>7, <1>8, <1>14
      <3> QED
        BY <3>1, <2>5, <1>4, <1>13
    <2>12. Listed(Only(d, S), Only(e, S), name, values)
      BY <2>5, <2>11 DEF Listed
    <2> QED
      BY <2>6, <2>7, <2>12 DEF e, S
  <1>15. CASE ~(n <= m)
    <2> DEFINE x == r \o ins
    <2>1. Len(ix) = 0 /\ Len(ins) = n - m /\ n > m
      BY <1>7, <1>8, <1>9, <1>10, <1>15
    <2>2. ins \in Seq(Line) /\ \A k \in 1..Len(ins) : ins[k] \in S
      <3>1. Fresh(name) \subseteq Line /\ Fresh(name) \subseteq S
        BY DEF Fresh, S, Named
      <3>2. \A k \in 1..Len(ins) : ins[k] \in Fresh(name)
        BY <1>10, ElementOfSeq
      <3>3. ins \in Seq(Line)
        BY <1>10, <3>1
      <3> QED
        BY <3>1, <3>2, <3>3
    <2>3. x \in Seq(Line)
      BY <1>2, <2>2, ConcatProperties
    <2>o. Only(x, S) = Only(r, S) \o ins
      <3>1. Only(ins, S) = ins
        BY <2>2, OnlyAllOf
      <3>2. Only(x, S) = Only(r, S) \o Only(ins, S)
        BY <1>2, <2>2, OnlyConcat
      <3> QED
        BY <3>1, <3>2
    <2>5. EditOf(r, x, {name})
      BY <1>2, <1>10, EditAppend
    <2> HIDE DEF x
    <2>4. e = x
      <3>1. RemoveAll(x, ix) = x
        BY <2>1, <2>3, <1>9, RemoveNone
      <3> QED
        BY <3>1, <1>1 DEF x
    <2> HIDE DEF e
    <2>6. EditOf(d, e, {name} \cup {name})
      BY <1>6, <2>4, <2>5, EditChain
    <2>7. {name} \cup {name} = {name}
      OBVIOUS
    <2> DEFINE o == Only(r, S)
               p == Only(e, S)
    <2>8. p = o \o ins /\ o \in Seq(Line) /\ Len(o) = m
      BY <2>4, <2>o, <1>12
    <2> HIDE DEF o, p
    <2>9. /\ Len(p) = m + Len(ins)
          /\ \A k \in 1..(m + Len(ins)) : p[k] = IF k <= m THEN o[k] ELSE ins[k - m]
      <3>1. /\ Len(o \o ins) = Len(o) + Len(ins)
            /\ \A k \in 1..(Len(o) + Len(ins)) :
                 (o \o ins)[k] = IF k <= Len(o) THEN o[k] ELSE ins[k - Len(o)]
        BY <2>2, <2>8, ConcatProperties, Zenon
      <3> QED
        BY <2>8, <3>1
    <2>10. Len(p) = n
      BY <2>1, <2>9, <1>7, <1>8
    <2>11. ASSUME NEW k \in 1..n
           PROVE  p[k] = IF k <= Len(Only(d, S)) THEN Rewritten(Only(d, S)[k], values[k])
                         ELSE RowLine(name, values[k])
      <3>1. CASE k <= m
        <4>1. k \in 1..m /\ k <= n /\ k \in 1..(m + Len(ins))
          BY <3>1, <2>1, <1>7, <1>8
        <4>2. p[k] = o[k]
          BY <3>1, <4>1, <2>9
        <4> QED
          BY <3>1, <4>1, <4>2, <1>4, <1>13 DEF o
      <3>2. CASE ~(k <= m)
        <4>1. k - m \in 1..Len(ins) /\ k \in 1..(m + Len(ins)) /\ m + (k - m) = k
          BY <3>2, <2>1, <1>7, <1>8
        <4>2. p[k] = ins[k - m]
          BY <3>2, <4>1, <2>9
        <4>3. ins[k - m] = RowLine(name, values[k])
          BY <4>1, <1>10
        <4> QED
          BY <3>2, <4>2, <4>3, <1>4
      <3> QED
        BY <3>1, <3>2
    <2>12. Listed(Only(d, S), p, name, values)
      BY <2>10, <2>11 DEF Listed
    <2> QED
      BY <2>6, <2>7, <2>12 DEF e, S, p
  <1> QED
    BY <1>14, <1>15 DEF e, S

-----------------------------------------------------------------------------
(* What the form holds                                                     *)

(* Trimmed text is a text.                                                 *)
LEMMA TrimSpaceType ==
    ASSUME NEW t \in Text
    PROVE  TrimSpace(t) \in Text
  <1> DEFINE w == Where(t, Byte \ {" ", "LF", "CR"})
  <1>1. t \in Seq(Byte)
    BY DEF Text
  <1>2. WhereIs(t, Byte \ {" ", "LF", "CR"}, w)
    BY <1>1, WhereAll
  <1>3. TrimSpace(t) = IF w = <<>> THEN <<>> ELSE SubSeq(t, w[1], w[Len(w)])
    BY DEF TrimSpace
  <1> HIDE DEF w
  <1>4. w \in Seq(1..Len(t))
    BY <1>2 DEF WhereIs
  <1>5. ASSUME w # <<>> PROVE SubSeq(t, w[1], w[Len(w)]) \in Seq(Byte)
    <2>1. w[1] \in 1..Len(t) /\ w[Len(w)] \in 1..Len(t)
      BY <1>4, <1>5
    <2> QED
      BY <1>1, <2>1
  <1>6. TrimSpace(t) \in Seq(Byte)
    <2>1. <<>> \in Seq(Byte)
      OBVIOUS
    <2> QED
      BY <1>3, <1>5, <2>1, Zenon
  <1> QED
    BY <1>6 DEF Text

(* A contact from its parts.                                               *)
ContactOf(text, list, family, given, org) ==
    [text |-> text, list |-> list, family |-> family, given |-> given, org |-> org]

(* The fields of a contact,                                                *)
LEMMA ContactFields ==
    ASSUME NEW c \in Contacts
    PROVE  /\ c.text \in [TextProps -> Text] /\ c.list \in [ListProps -> Seq(Row)]
           /\ c.family \in Text /\ c.given \in Text /\ c.org \in Text
           /\ c = ContactOf(c.text, c.list, c.family, c.given, c.org)
  BY DEF Contacts, ContactOf

(* and a contact of given fields.                                          *)
LEMMA ContactParts ==
    ASSUME NEW text \in [TextProps -> Text], NEW list \in [ListProps -> Seq(Row)],
           NEW family \in Text, NEW given \in Text, NEW org \in Text
    PROVE  /\ ContactOf(text, list, family, given, org) \in Contacts
           /\ ContactOf(text, list, family, given, org).text = text
           /\ ContactOf(text, list, family, given, org).list = list
           /\ ContactOf(text, list, family, given, org).family = family
           /\ ContactOf(text, list, family, given, org).given = given
           /\ ContactOf(text, list, family, given, org).org = org
  BY DEF Contacts, ContactOf

(* The fields of a row.                                                    *)
LEMMA RowFields ==
    ASSUME NEW r \in Row, NEW v \in Text
    PROVE  /\ r.value \in Text /\ r.type \in Word
           /\ [r EXCEPT !.value = v] \in Row
           /\ [r EXCEPT !.value = v].value = v /\ [r EXCEPT !.value = v].type = r.type
  BY DEF Row

(* contactFromForm makes a contact of a form.                              *)
LEMMA ContactFromFormType ==
    ASSUME NEW form \in Contacts
    PROVE  contactFromForm(form) \in Contacts
  <1> DEFINE trimmed(rows) == [k \in DOMAIN rows |-> [rows[k] EXCEPT !.value = TrimSpace(rows[k].value)]]
             text == [name \in TextProps |-> TrimSpace(form.text[name])]
             list == [name \in ListProps |->
                        Only(trimmed(form.list[name]), {p \in Row : p.value # <<>>})]
             c == ContactOf(text, list, TrimSpace(form.family), TrimSpace(form.given),
                            TrimSpace(form.org))
  <1>1. contactFromForm(form) = c
    BY DEF contactFromForm, ContactOf
  <1>2. /\ form.text \in [TextProps -> Text] /\ form.list \in [ListProps -> Seq(Row)]
        /\ form.family \in Text /\ form.given \in Text /\ form.org \in Text
    BY ContactFields
  <1>3. text \in [TextProps -> Text]
    BY <1>2, TrimSpaceType
  <1>4. ASSUME NEW rows \in Seq(Row) PROVE trimmed(rows) \in Seq(Row)
    <2>1. \A k \in 1..Len(rows) : rows[k] \in Row
      OBVIOUS
    <2>2. \A k \in 1..Len(rows) : rows[k].value \in Text
      BY <2>1 DEF Row
    <2>3. \A k \in 1..Len(rows) : TrimSpace(rows[k].value) \in Text
      BY <2>2, TrimSpaceType
    <2>4. \A k \in 1..Len(rows) : [rows[k] EXCEPT !.value = TrimSpace(rows[k].value)] \in Row
      BY <2>1, <2>3, RowFields, Zenon
    <2>5. trimmed(rows) \in [1..Len(rows) -> Row] /\ Len(rows) \in Nat
      BY <2>4
    <2> HIDE DEF trimmed
    <2> QED
      BY <2>5
  <1> HIDE DEF trimmed
  <1>5. list \in [ListProps -> Seq(Row)]
    <2>1. \A name \in ListProps : trimmed(form.list[name]) \in Seq(Row)
      BY <1>2, <1>4
    <2> DEFINE P == {p \in Row : p.value # <<>>}
    <2>2. \A name \in ListProps : Only(trimmed(form.list[name]), P) \in Seq(Row)
      <3> HIDE DEF P
      <3> QED
        BY <2>1, OnlyType
    <2> QED
      BY <2>2
  <1>6. TrimSpace(form.family) \in Text /\ TrimSpace(form.given) \in Text /\ TrimSpace(form.org) \in Text
    BY <1>2, TrimSpaceType
  <1> HIDE DEF text, list
  <1>7. c \in Contacts
    BY <1>3, <1>5, <1>6, ContactParts
  <1> QED
    BY <1>1, <1>7

(* normalise changes the formatted name only.                              *)
LEMMA NormaliseType ==
    ASSUME NEW c \in Contacts
    PROVE  /\ normalise(c) \in Contacts
           /\ normalise(c).list = c.list /\ normalise(c).family = c.family
           /\ normalise(c).given = c.given /\ normalise(c).org = c.org
  <1> DEFINE f == DisplayName(c)
             t == [c.text EXCEPT !["FN"] = f]
  <1>1. /\ c.text \in [TextProps -> Text] /\ c.list \in [ListProps -> Seq(Row)]
        /\ c.family \in Text /\ c.given \in Text /\ c.org \in Text
        /\ c = ContactOf(c.text, c.list, c.family, c.given, c.org)
    BY ContactFields
  <1>2. f \in Text
    <2>1. "FN" \in TextProps
      BY DEF TextProps
    <2>2. c.text["FN"] \in Text
      BY <1>1, <2>1
    <2>3. " " \in Byte
      BY AlphabetAssumption
    <2>4. (c.given \o <<" ">>) \o c.family \in Text
      <3>1. <<" ">> \in Text
        BY <2>3, Texts
      <3>2. c.given \o <<" ">> \in Text
        BY <1>1, <3>1, Texts
      <3> QED
        BY <1>1, <3>2, Texts
    <2> DEFINE j == (c.given \o <<" ">>) \o c.family
    <2>5. f = IF c.text["FN"] # <<>> THEN c.text["FN"] ELSE TrimSpace(j)
      BY DEF DisplayName
    <2>6. TrimSpace(j) \in Text
      <3> HIDE DEF j
      <3> QED
        BY <2>4, TrimSpaceType DEF j
    <2> HIDE DEF f, j
    <2> QED
      BY <2>2, <2>5, <2>6
  <1>3. normalise(c) = [c EXCEPT !.text["FN"] = f]
    BY DEF normalise
  <1> HIDE DEF f
  <1>4. t \in [TextProps -> Text]
    BY <1>1, <1>2
  <1>5. normalise(c) = [c EXCEPT !.text = t]
    BY <1>3
  <1> HIDE DEF t
  <1>6. [c EXCEPT !.text = t] = ContactOf(t, c.list, c.family, c.given, c.org)
    BY DEF Contacts, ContactOf
  <1> QED
    BY <1>1, <1>4, <1>5, <1>6, ContactParts

(* RawValue is the value of the first line of the name.                    *)
LEMMA RawValueType ==
    ASSUME NEW d \in Seq(Line), NEW name
    PROVE  /\ RawValue(d, name) \in Text
           /\ Only(d, Named(name)) = <<>> => RawValue(d, name) = <<>>
           /\ Only(d, Named(name)) # <<>> => RawValue(d, name) = Only(d, Named(name))[1].value
  <1> DEFINE i == Find(d, name)
             w == Where(d, Named(name))
             o == Only(d, Named(name))
  <1>1. /\ i = 0 => w = <<>>
        /\ i # 0 => Len(w) >= 1 /\ i = w[1] /\ i \in 1..Len(d)
    BY FindLine
  <1>2. RawValue(d, name) = IF i = 0 THEN <<>> ELSE d[i].value
    BY DEF RawValue
  <1>3. o \in Seq(Line) /\ Len(o) = Len(w)
    BY OnlyType
  <1>4. \A k \in 1..Len(w) : o[k] = d[w[k]]
    BY OnlyAt
  <1> HIDE DEF i, w, o
  <1>5. i # 0 => d[i] \in Line
    BY <1>1
  <1>6. i # 0 => d[i].value \in Text
    BY <1>5, LineFields
  <1>7. RawValue(d, name) \in Text
    BY <1>2, <1>6, Texts, Zenon
  <1>8. i = 0 => o = <<>>
    BY <1>1, <1>3, SMTT(30)
  <1>9. i # 0 => o # <<>>
    BY <1>1, <1>3
  <1>10. i # 0 => o[1] = d[i]
    <2>1. Len(w) \in Nat
      BY <1>3
    <2>2. i # 0 => 1 \in 1..Len(w)
      BY <1>1, <2>1
    <2> QED
      BY <2>2, <1>1, <1>4
  <1> QED
    BY <1>2, <1>7, <1>8, <1>9, <1>10 DEF o

(* Unescape returns a text.                                                *)
LEMMA UnescapeType ==
    ASSUME NEW t \in Text
    PROVE  Unescape(t) \in Text
  <1>1. Scan(t, {}) \in Seq(Text) /\ Len(Scan(t, {})) >= 1
    BY ScanType
  <1> DEFINE s == Scan(t, {})
  <1>2. Unescape(t) = s[1]
    BY DEF Unescape
  <1> HIDE DEF s
  <1> QED
    BY <1>1, <1>2 DEF s

(* SplitStructured returns at least one part.                              *)
LEMMA SplitType ==
    ASSUME NEW t \in Text
    PROVE  SplitStructured(t) \in Seq(Text) /\ Len(SplitStructured(t)) >= 1
  BY ScanType DEF SplitStructured

(* typeParam returns a word.                                               *)
LEMMA TypeParamType ==
    ASSUME NEW types \in Seq(Word)
    PROVE  typeParam(types) \in Word
  <1> DEFINE known == Only(types, ToSet(TypeOptions))
  <1>1. known \in Seq(Word)
    BY OnlyType
  <1>2. typeParam(types) = CASE known # <<>> -> known[1]
                             [] known = <<>> /\ types # <<>> -> types[1]
                             [] types = <<>> -> ""
    BY DEF typeParam
  <1>3. types = <<>> => known = <<>>
    BY OnlyEmpty
  <1> HIDE DEF known
  <1>4. known # <<>> => known[1] \in Word
    BY <1>1
  <1>5. types # <<>> => types[1] \in Word
    OBVIOUS
  <1>6. "" \in Word
    BY AlphabetAssumption
  <1> QED
    BY <1>2, <1>3, <1>4, <1>5, <1>6, Zenon

(* Values has a row for each line of the name.                             *)
LEMMA ValuesType ==
    ASSUME NEW d \in Seq(Line), NEW name
    PROVE  /\ Values(d, name) \in Seq(Row)
           /\ Len(Values(d, name)) = Len(Only(d, Named(name)))
           /\ \A k \in 1..Len(Only(d, Named(name))) :
                /\ Values(d, name)[k].value = Unescape(Only(d, Named(name))[k].value)
                /\ Values(d, name)[k].type = typeParam(Only(d, Named(name))[k].types)
  <1> DEFINE o == Only(d, Named(name))
             v == Values(d, name)
             row(k) == [value |-> Unescape(o[k].value), type |-> typeParam(o[k].types)]
  <1>1. o \in Seq(Line)
    BY OnlyType
  <1>2. v = [k \in DOMAIN o |-> row(k)]
    BY DEF Values
  <1> HIDE DEF o, v
  <1>3. DOMAIN o = 1..Len(o) /\ Len(o) \in Nat /\ \A k \in 1..Len(o) : o[k] \in Line
    BY <1>1
  <1>4. \A k \in 1..Len(o) : o[k].value \in Text /\ o[k].types \in Seq(Word)
    BY <1>3, LineFields
  <1>5. \A k \in 1..Len(o) : Unescape(o[k].value) \in Text /\ typeParam(o[k].types) \in Word
    BY <1>4, UnescapeType, TypeParamType
  <1>6. \A k \in 1..Len(o) : row(k) \in Row
    BY <1>5 DEF Row
  <1>7. \A k \in 1..Len(o) :
          row(k).value = Unescape(o[k].value) /\ row(k).type = typeParam(o[k].types)
    OBVIOUS
  <1> HIDE DEF row
  <1>8. v \in [1..Len(o) -> Row]
    BY <1>2, <1>3, <1>6
  <1>9. v \in Seq(Row) /\ Len(v) = Len(o)
    BY <1>3, <1>8
  <1>10. \A k \in 1..Len(o) : v[k] = row(k)
    BY <1>2, <1>3
  <1> QED
    BY <1>7, <1>9, <1>10 DEF o, v

(* A part is a text.                                                       *)
LEMMA PartType ==
    ASSUME NEW p \in Seq(Text), NEW n \in Nat \ {0}
    PROVE  Part(p, n) \in Text
  <1>1. n <= Len(p) => p[n] \in Text
    OBVIOUS
  <1> QED
    BY <1>1, Texts, Zenon DEF Part

(* ReadContact returns a contact.                                          *)
LEMMA ReadContactType ==
    ASSUME NEW d \in Seq(Line)
    PROVE  ReadContact(d) \in Contacts
  <1> DEFINE n == SplitStructured(RawValue(d, "N"))
             g == SplitStructured(RawValue(d, "ORG"))
             text == [name \in TextProps |-> Value(d, name)]
             list == [name \in ListProps |-> Values(d, name)]
             c == ContactOf(text, list, Part(n, 1), Part(n, 2), g[1])
  <1>1. ReadContact(d) = c
    BY DEF ReadContact, ContactOf
  <1>2. n \in Seq(Text) /\ g \in Seq(Text) /\ Len(g) >= 1
    BY RawValueType, SplitType
  <1> HIDE DEF n, g
  <1>3. g[1] \in Text /\ Part(n, 1) \in Text /\ Part(n, 2) \in Text
    <2>1. g[1] \in Text
      BY <1>2
    <2> QED
      BY <2>1, <1>2, PartType
  <1>4. text \in [TextProps -> Text]
    <2>1. \A name \in TextProps : Value(d, name) \in Text
      BY RawValueType, UnescapeType DEF Value
    <2> QED
      BY <2>1
  <1>5. list \in [ListProps -> Seq(Row)]
    BY ValuesType
  <1> HIDE DEF text, list
  <1> QED
    <2> DEFINE family == Part(n, 1)
               given == Part(n, 2)
               org == g[1]
    <2>1. family \in Text /\ given \in Text /\ org \in Text
      BY <1>3
    <2>2. ReadContact(d) = ContactOf(text, list, family, given, org)
      BY <1>1
    <2> HIDE DEF family, given, org
    <2> QED
      BY <2>1, <2>2, <1>4, <1>5, SMT DEF Contacts, ContactOf

(* The types the form offers are words, and there is one.                  *)
LEMMA Options ==
    /\ TypeOptions \in Seq(Word \ {""}) /\ TypeOptions \in Seq(Word)
    /\ Len(TypeOptions) >= 1 /\ TypeOptions[1] \in Word /\ TypeOptions[1] # ""
    /\ \A t : Contains(TypeOptions, t) => t \in Word /\ t # ""
    /\ \A t : t \in ToSet(TypeOptions) <=> Contains(TypeOptions, t)
  <1> DEFINE W == Word \ {""}
             o == TypeOptions
  <1>1. o \in Seq(W) /\ o # <<>>
    BY CardAssumption
  <1>w. W \subseteq Word /\ \A t \in W : t # ""
    OBVIOUS
  <1> HIDE DEF W, o
  <1>a. /\ Len(o) \in Nat /\ Len(o) >= 1 /\ DOMAIN o = 1..Len(o)
        /\ \A k \in 1..Len(o) : o[k] \in W
    BY <1>1
  <1>2. /\ Len(TypeOptions) \in Nat /\ Len(TypeOptions) >= 1
        /\ DOMAIN TypeOptions = 1..Len(TypeOptions)
        /\ \A k \in 1..Len(TypeOptions) : TypeOptions[k] \in Word \ {""}
    BY <1>a, Zenon DEF o, W
  <1>b. o \in Seq(Word) /\ 1 \in 1..Len(o)
    <2>1. \A k \in 1..Len(o) : o[k] \in Word
      BY <1>a, <1>w
    <2>2. o \in Seq(Word)
      BY <1>1, <1>w, SeqMonotonic, Zenon
    <2>3. 1 \in 1..Len(o)
      BY <1>a
    <2> QED
      BY <2>2, <2>3
  <1>3. TypeOptions \in Seq(Word)
    BY <1>b DEF o
  <1>4. TypeOptions[1] \in Word /\ TypeOptions[1] # ""
    BY <1>a, <1>b, <1>w DEF o
  <1>5. \A t : t \in ToSet(TypeOptions) <=> Contains(TypeOptions, t)
    BY <1>2 DEF ToSet, Contains
  <1>6. \A t : Contains(TypeOptions, t) => t \in Word /\ t # ""
    BY <1>2 DEF Contains
  <1>7. TypeOptions \in Seq(Word \ {""})
    BY <1>1 DEF o, W
  <1> QED
    BY <1>2, <1>3, <1>4, <1>5, <1>6, <1>7

(* What a row shows is a row,                                              *)
LEMMA SelectedType ==
    ASSUME NEW r \in Row
    PROVE  Selected(r) \in Row
  <1> DEFINE t == IF Contains(TypeOptions, r.type) THEN r.type ELSE TypeOptions[1]
  <1>1. t \in Word
    BY Options, Zenon
  <1>2. Selected(r) = [r EXCEPT !.type = t]
    BY DEF Selected
  <1> HIDE DEF t
  <1> QED
    BY <1>1, <1>2 DEF Row

(* and what is shown is a contact.                                         *)
LEMMA ShownType ==
    ASSUME NEW d \in Seq(Line)
    PROVE  Shown(d) \in Contacts
  <1> DEFINE c == ReadContact(d)
             rows(list) == Append([k \in DOMAIN list |-> Selected(list[k])],
                                  [value |-> <<>>, type |-> TypeOptions[1]])
             l == [name \in ListProps |-> rows(c.list[name])]
  <1>1. c \in Contacts
    BY ReadContactType
  <1>2. Shown(d) = [c EXCEPT !.list = l]
    BY DEF Shown
  <1> HIDE DEF c
  <1>3. ASSUME NEW list \in Seq(Row) PROVE rows(list) \in Seq(Row)
    <2> DEFINE a == [k \in DOMAIN list |-> Selected(list[k])]
               b == [value |-> <<>>, type |-> TypeOptions[1]]
    <2>1. \A k \in 1..Len(list) : Selected(list[k]) \in Row
      BY SelectedType
    <2>2. a \in [1..Len(list) -> Row] /\ Len(list) \in Nat
      BY <2>1
    <2>3. b \in Row
      BY Options, Texts DEF Row
    <2> HIDE DEF a, b
    <2>4. a \in Seq(Row)
      BY <2>2
    <2> QED
      BY <2>3, <2>4 DEF a, b
  <1> HIDE DEF rows
  <1>4. l \in [ListProps -> Seq(Row)]
    BY <1>1, <1>3, ContactFields
  <1> HIDE DEF l
  <1> QED
    BY <1>1, <1>2, <1>4 DEF Contacts

(* Every form that is sent is a contact.                                   *)
LEMMA FormType ==
    \A form \in Forms : card \in Seq(Line) \cup {NoCard} => form \in Contacts
  <1>1. Contact \subseteq Contacts
    BY CardAssumption
  <1>2. card \in Seq(Line) => Shown(card) \in Contacts
    BY ShownType
  <1>3. \A form \in Forms : form \in Contact \/ (card # NoCard /\ form = Shown(card))
    BY DEF Forms
  <1> QED
    BY <1>1, <1>2, <1>3

(* structuredName is a text.                                               *)
LEMMA StructuredNameType ==
    ASSUME NEW c \in Contacts
    PROVE  structuredName(c) \in Text
  <1>1. c.family \in Text /\ c.given \in Text
    BY ContactFields
  <1> DEFINE r == <<c.given, <<>>, <<>>, <<>>>>
             j == Joined(c.family, r)
  <1>2. r \in Seq(Text)
    BY <1>1, Texts
  <1> HIDE DEF r
  <1>3. j \in Text
    BY <1>1, <1>2, JoinedType
  <1>4. structuredName(c) = IF c.family = <<>> /\ c.given = <<>> THEN <<>> ELSE j
    BY DEF structuredName, r
  <1> HIDE DEF j
  <1> QED
    BY <1>3, <1>4, Texts, Zenon

(* organisationValue is a text.                                            *)
LEMMA OrganisationType ==
    ASSUME NEW c \in Contacts, NEW v \in Text
    PROVE  organisationValue(c, v) \in Text
  <1>1. c.org \in Text
    BY ContactFields
  <1> DEFINE s == SplitStructured(v)
             r == Tail(s)
             j == Joined(c.org, r)
  <1>2. s \in Seq(Text) /\ Len(s) >= 1
    BY SplitType
  <1> HIDE DEF s
  <1>3. r \in Seq(Text)
    BY <1>2
  <1> HIDE DEF r
  <1>4. j \in Text
    BY <1>1, <1>3, JoinedType
  <1>5. organisationValue(c, v) = IF c.org = <<>> THEN <<>> ELSE j
    BY DEF organisationValue, r, s
  <1> HIDE DEF j
  <1> QED
    BY <1>4, <1>5, Texts, Zenon

-----------------------------------------------------------------------------
(* Apply                                                                   *)

(* Every line of e is one of d, or one of a property that the form knows;  *)
(* no CR comes into a number or an address.                                *)
Built(d, e) ==
    /\ e \in Seq(Line)
    /\ \A k \in 1..Len(e) :
         \/ \E j \in 1..Len(d) : e[k] = d[j]
         \/ e[k].name \in Edited /\ (e[k].name \in ListProps => e[k].value \in Seq(Smooth))

(* Built is transitive.                                                    *)
LEMMA BuiltChain ==
    ASSUME NEW d, NEW e, NEW f, Built(d, e), Built(e, f)
    PROVE  Built(d, f)
  BY DEF Built

(* The line of a property that is not a list.                              *)
Holds(d, name, value) ==
    IF value = <<>> THEN Only(d, Named(name)) = <<>>
    ELSE Len(Only(d, Named(name))) = 1 /\ Only(d, Named(name))[1].value = value

(* An edit that has written the properties in M.                           *)
Written(d, e, M, c) ==
    /\ EditOf(d, e, M)
    /\ \A name \in M \ ListProps :
         Len(FindAll(d, name)) <= 1 => Holds(e, name, Wanted(d, c, name))
    /\ \A name \in M \cap ListProps :
         Listed(Only(d, Named(name)), Only(e, Named(name)), name, c.list[name])

Progress(d, e, M, c) == Built(d, e) /\ (IndicesHold(d, c) => Written(d, e, M, c))

(* Before the first Set nothing has been written.                          *)
LEMMA ProgressStart ==
    ASSUME NEW d \in Seq(Line), NEW c
    PROVE  Progress(d, d, {}, c)
  <1>1. Built(d, d)
    BY DEF Built
  <1>2. EditOf(d, d, {})
    BY DEF EditOf, GroupStep, KeepsGroups
  <1>3. Written(d, d, {}, c)
    BY <1>2 DEF Written
  <1> QED
    BY <1>1, <1>3 DEF Progress

(* An edit of another name leaves what has been written, and adds its own. *)
LEMMA WrittenStep ==
    ASSUME NEW d \in Seq(Line), NEW e, NEW f, NEW M, NEW name, NEW c,
           name \notin M, Written(d, e, M, c), EditOf(e, f, {name}), M \subseteq Edited,
           IF name \in ListProps
           THEN Listed(Only(d, Named(name)), Only(f, Named(name)), name, c.list[name])
           ELSE Len(FindAll(d, name)) <= 1 => Holds(f, name, Wanted(d, c, name))
    PROVE  Written(d, f, M \cup {name}, c)
  <1>1. EditOf(d, e, M)
    BY DEF Written
  <1>2. EditOf(d, f, M \cup {name})
    BY <1>1, EditChain
  <1>3. \A other \in M : Only(f, Named(other)) = Only(e, Named(other))
    BY DEF EditOf
  <1>4. ASSUME NEW other \in (M \cup {name}) \ ListProps, Len(FindAll(d, other)) <= 1
        PROVE  Holds(f, other, Wanted(d, c, other))
    <2>1. CASE other = name
      BY <2>1, <1>4
    <2>2. CASE other # name
      <3>1. other \in M \ ListProps
        BY <2>2
      <3>2. Holds(e, other, Wanted(d, c, other))
        BY <3>1, <1>4 DEF Written
      <3>3. Only(f, Named(other)) = Only(e, Named(other))
        BY <3>1, <1>3
      <3> QED
        BY <3>2, <3>3, Zenon DEF Holds
    <2> QED
      BY <2>1, <2>2
  <1>5. ASSUME NEW other \in (M \cup {name}) \cap ListProps
        PROVE  Listed(Only(d, Named(other)), Only(f, Named(other)), other, c.list[other])
    <2>1. CASE other = name
      BY <2>1, <1>5
    <2>2. CASE other # name
      <3>1. other \in M \cap ListProps
        BY <2>2
      <3>2. Listed(Only(d, Named(other)), Only(e, Named(other)), other, c.list[other])
        BY <3>1 DEF Written
      <3>3. Only(f, Named(other)) = Only(e, Named(other))
        BY <3>1, <1>3
      <3> QED
        BY <3>2, <3>3
    <2> QED
      BY <2>1, <2>2
  <1> QED
    BY <1>2, <1>4, <1>5 DEF Written

(* The lines of a name that has not been written yet are those of the      *)
(* card.                                                                   *)
LEMMA SameFound ==
    ASSUME NEW d \in Seq(Line), NEW e, NEW M, NEW name \in Edited \ M, EditOf(d, e, M)
    PROVE  /\ Only(e, Named(name)) = Only(d, Named(name))
           /\ Len(FindAll(e, name)) = Len(FindAll(d, name))
           /\ FindAll(d, name) = <<>> => FindAll(e, name) = <<>>
           /\ RawValue(e, name) = RawValue(d, name)
  <1>1. e \in Seq(Line) /\ Only(e, Named(name)) = Only(d, Named(name))
    BY DEF EditOf
  <1>2. /\ Len(Only(e, Named(name))) = Len(Where(e, Named(name)))
        /\ Len(Only(d, Named(name))) = Len(Where(d, Named(name)))
    BY <1>1, OnlyType
  <1>3. RawValue(e, name) = RawValue(d, name)
    BY <1>1, RawValueType, Zenon
  <1>4. Len(FindAll(e, name)) = Len(FindAll(d, name))
    BY <1>1, <1>2 DEF FindAll
  <1>5. ASSUME FindAll(d, name) = <<>> PROVE FindAll(e, name) = <<>>
    <2> DEFINE f == FindAll(e, name)
    <2>1. f \in Seq(1..Len(e))
      BY <1>1, WhereAll DEF WhereIs, FindAll
    <2>2. Len(f) = 0
      BY <1>4, <1>5
    <2> HIDE DEF f
    <2>3. f = <<>>
      BY <2>1, <2>2
    <2> QED
      BY <2>3 DEF f
  <1> QED
    BY <1>1, <1>3, <1>4, <1>5

(* As long as the indices hold, so do those of every Set and SetAll.       *)
LEMMA StepsHold ==
    ASSUME NEW d \in Seq(Line), NEW e, NEW M, NEW c, EditOf(d, e, M), IndicesHold(d, c),
           NEW name \in Edited \ M
    PROVE  /\ name \in ListProps => Resizable(e, name, Len(c.list[name]))
           /\ name \notin ListProps => Settable(e, name, Wanted(d, c, name))
  <1>1. /\ Len(FindAll(e, name)) = Len(FindAll(d, name))
        /\ FindAll(d, name) = <<>> => FindAll(e, name) = <<>>
    BY SameFound
  <1>2. KeepsGroups(d, e)
    BY DEF EditOf
  <1>3. CASE RemovesNothing(d, c)
    <2>1. ASSUME name \in ListProps PROVE Len(FindAll(d, name)) <= Len(c.list[name])
      <3>1. Len(FindAll(d, name)) <= Len(c.list[name]) + 0
        BY <1>3, <2>1 DEF RemovesNothing, RowsRemoved
      <3>2. Len(FindAll(d, name)) \in Nat
        <4>1. FindAll(d, name) \in Seq(1..Len(d))
          BY WhereAll DEF WhereIs, FindAll
        <4> QED
          BY <4>1
      <3> QED
        BY <3>1, <3>2
    <2>2. ASSUME name \notin ListProps
          PROVE  Wanted(d, c, name) = <<>> => FindAll(d, name) = <<>>
      BY <1>3, <2>2 DEF RemovesNothing
    <2> QED
      BY <2>1, <2>2, <1>1 DEF Resizable, Settable
  <1>4. CASE WellGrouped(d)
    <2>1. WellGrouped(e) /\ OneKnown(e)
      BY <1>2, <1>4, GroupedIsKnown DEF KeepsGroups
    <2> QED
      BY <2>1 DEF Resizable, Settable
  <1>5. CASE OneKnown(d) /\ RowsRemoved(d, c, 1)
    <2>1. OneKnown(e)
      BY <1>2, <1>5 DEF KeepsGroups
    <2>2. name \in ListProps => Len(FindAll(e, name)) <= Len(c.list[name]) + 1
      BY <1>1, <1>5 DEF RowsRemoved
    <2> QED
      BY <2>1, <2>2 DEF Resizable, Settable
  <1> QED
    BY <1>3, <1>4, <1>5 DEF IndicesHold

(* Set writes one property more.                                           *)
LEMMA ProgressSet ==
    ASSUME NEW d \in Seq(Line), NEW e, NEW M, M \subseteq Edited, NEW c,
           NEW name \in (Edited \ ListProps) \ M, NEW value \in Text, Progress(d, e, M, c),
           IndicesHold(d, c) => value = Wanted(d, c, name)
    PROVE  Progress(d, Set(e, name, value), M \cup {name}, c)
  <1> DEFINE f == Set(e, name, value)
  <1>1. Built(d, e) /\ (IndicesHold(d, c) => Written(d, e, M, c))
    BY DEF Progress
  <1>2. e \in Seq(Line)
    BY <1>1 DEF Built
  <1>3. /\ Sourced(e, f, name, {value})
        /\ Settable(e, name, value) => EditOf(e, f, {name})
        /\ (Settable(e, name, value) /\ Len(FindAll(e, name)) <= 1) =>
             IF value = <<>> THEN Only(f, Named(name)) = <<>>
             ELSE Len(Only(f, Named(name))) = 1 /\ Only(f, Named(name))[1].value = value
    BY <1>2, SetEdits
  <1> HIDE DEF f
  <1>4. Built(e, f)
    BY <1>3 DEF Built, Sourced
  <1>5. Built(d, f)
    BY <1>1, <1>4, BuiltChain
  <1>6. ASSUME IndicesHold(d, c) PROVE Written(d, f, M \cup {name}, c)
    <2>1. Written(d, e, M, c) /\ value = Wanted(d, c, name)
      BY <1>1, <1>6
    <2>2. EditOf(d, e, M)
      BY <2>1 DEF Written
    <2>3. Settable(e, name, value)
      BY <2>1, <2>2, <1>6, StepsHold
    <2>4. Len(FindAll(e, name)) = Len(FindAll(d, name))
      BY <2>2, SameFound
    <2>5. Len(FindAll(d, name)) <= 1 => Holds(f, name, value)
      BY <2>3, <2>4, <1>3 DEF Holds
    <2>6. EditOf(e, f, {name})
      BY <2>3, <1>3
    <2> QED
      BY <2>1, <2>5, <2>6, WrittenStep
  <1> QED
    BY <1>5, <1>6 DEF Progress, f

(* SetAll writes one list more.                                            *)
LEMMA ProgressSetAll ==
    ASSUME NEW d \in Seq(Line), NEW e, NEW M, M \subseteq Edited, NEW c \in Contacts,
           NEW name \in ListProps \ M, Progress(d, e, M, c)
    PROVE  Progress(d, SetAll(e, name, c.list[name]), M \cup {name}, c)
  <1> DEFINE v == c.list[name]
             f == SetAll(e, name, v)
  <1>0. v \in Seq(Row) /\ name \in Edited
    <2>1. c.list \in [ListProps -> Seq(Row)]
      BY ContactFields
    <2>2. name \in Edited
      BY DEF Edited
    <2> QED
      BY <2>1, <2>2
  <1>1. Built(d, e) /\ (IndicesHold(d, c) => Written(d, e, M, c))
    BY DEF Progress
  <1>2. e \in Seq(Line)
    BY <1>1 DEF Built
  <1> HIDE DEF v
  <1>3. Sourced(e, f, name, Seq(Smooth))
    BY <1>0, <1>2, SetAllSourced
  <1>e. Resizable(e, name, Len(v)) =>
          EditOf(e, f, {name}) /\ Listed(Only(e, Named(name)), Only(f, Named(name)), name, v)
    BY <1>0, <1>2, SetAllEdits
  <1> HIDE DEF f
  <1>4. Built(e, f)
    BY <1>0, <1>3 DEF Built, Sourced
  <1>5. Built(d, f)
    BY <1>1, <1>4, BuiltChain
  <1>6. ASSUME IndicesHold(d, c) PROVE Written(d, f, M \cup {name}, c)
    <2>1. Written(d, e, M, c)
      BY <1>1, <1>6
    <2>2. EditOf(d, e, M)
      BY <2>1 DEF Written
    <2>3. Resizable(e, name, Len(v))
      BY <2>2, <1>0, <1>6, StepsHold DEF v
    <2>4. Only(e, Named(name)) = Only(d, Named(name))
      BY <2>2, <1>0, SameFound
    <2>5. EditOf(e, f, {name}) /\ Listed(Only(d, Named(name)), Only(f, Named(name)), name, v)
      BY <2>3, <2>4, <1>e
    <2> QED
      BY <2>1, <2>5, WrittenStep DEF v
  <1> QED
    BY <1>5, <1>6 DEF Progress, f, v

(* The Set of a text.                                                      *)
LEMMA ProgressText ==
    ASSUME NEW d \in Seq(Line), NEW e, NEW M, M \subseteq Edited, NEW c \in Contacts,
           NEW name \in TextProps \ M, Progress(d, e, M, c)
    PROVE  Progress(d, SetText(e, c, name), M \cup {name}, c)
  <1> DEFINE v == Escape(c.text[name])
  <1>1. v \in Text
    <2>1. c.text[name] \in Text
      BY ContactFields
    <2> QED
      BY <2>1, EscapeType
  <1>2. name \in (Edited \ ListProps) \ M
    BY DEF Edited, TextProps, ListProps
  <1>3. v = Wanted(d, c, name)
    BY DEF Wanted, TextProps
  <1> HIDE DEF v
  <1>4. Progress(d, Set(e, name, v), M \cup {name}, c)
    BY <1>1, <1>2, <1>3, ProgressSet
  <1> QED
    BY <1>4 DEF SetText, v

(* Apply, as far as FN and N,                                              *)
LEMMA ProgressNames ==
    ASSUME NEW d \in Seq(Line), NEW c \in Contacts
    PROVE  Progress(d, SetNames(d, c), {"FN", "N"}, c)
  <1> DEFINE e == SetText(d, c, "FN")
             v == structuredName(c)
  <1>1. Progress(d, d, {}, c)
    BY ProgressStart
  <1>2. "FN" \in TextProps \ {}
    BY DEF TextProps
  <1>3. Progress(d, e, {} \cup {"FN"}, c)
    BY <1>1, <1>2, ProgressText
  <1>4. {} \cup {"FN"} = {"FN"} /\ {"FN"} \cup {"N"} = {"FN", "N"}
    OBVIOUS
  <1>5. "N" \in (Edited \ ListProps) \ {"FN"} /\ {"FN"} \subseteq Edited
    BY DEF Edited, TextProps, ListProps
  <1>6. v = Wanted(d, c, "N")
    BY DEF Wanted, TextProps
  <1>7. v \in Text
    BY StructuredNameType
  <1> HIDE DEF v, e
  <1>8. Progress(d, Set(e, "N", v), {"FN"} \cup {"N"}, c)
    BY <1>3, <1>4, <1>5, <1>6, <1>7, ProgressSet
  <1> QED
    BY <1>4, <1>8 DEF SetNames, e, v

(* the texts,                                                              *)
LEMMA ProgressTexts ==
    ASSUME NEW d \in Seq(Line), NEW e, NEW c \in Contacts, Progress(d, e, {"FN", "N"}, c)
    PROVE  Progress(d, SetTexts(e, c), {"FN", "N", "TITLE", "NOTE", "URL"}, c)
  <1> DEFINE A == {"FN", "N"}
             B == {"FN", "N", "TITLE"}
             C == {"FN", "N", "TITLE", "NOTE"}
             x == SetText(e, c, "TITLE")
             y == SetText(x, c, "NOTE")
             z == SetText(y, c, "URL")
  <1>1. /\ A \subseteq Edited /\ B \subseteq Edited /\ C \subseteq Edited
        /\ "TITLE" \in TextProps \ A /\ "NOTE" \in TextProps \ B /\ "URL" \in TextProps \ C
    BY DEF Edited, TextProps
  <1>2. /\ A \cup {"TITLE"} = B /\ B \cup {"NOTE"} = C
        /\ C \cup {"URL"} = {"FN", "N", "TITLE", "NOTE", "URL"}
    OBVIOUS
  <1>3. Progress(d, e, A, c)
    OBVIOUS
  <1> HIDE DEF A, B, C
  <1>4. Progress(d, x, B, c)
    BY <1>1, <1>2, <1>3, ProgressText
  <1> HIDE DEF x
  <1>5. Progress(d, y, C, c)
    BY <1>1, <1>2, <1>4, ProgressText
  <1> HIDE DEF y
  <1>6. Progress(d, z, {"FN", "N", "TITLE", "NOTE", "URL"}, c)
    BY <1>1, <1>2, <1>5, ProgressText
  <1> QED
    BY <1>6 DEF SetTexts, x, y

(* the lists,                                                              *)
LEMMA ProgressLists ==
    ASSUME NEW d \in Seq(Line), NEW e, NEW c \in Contacts,
           Progress(d, e, {"FN", "N", "TITLE", "NOTE", "URL"}, c)
    PROVE  Progress(d, SetLists(e, c), {"FN", "N", "TITLE", "NOTE", "URL", "TEL", "EMAIL"}, c)
  <1> DEFINE A == {"FN", "N", "TITLE", "NOTE", "URL"}
             B == {"FN", "N", "TITLE", "NOTE", "URL", "TEL"}
             x == SetAll(e, "TEL", c.list["TEL"])
             y == SetAll(x, "EMAIL", c.list["EMAIL"])
  <1>1. /\ A \subseteq Edited /\ B \subseteq Edited
        /\ "TEL" \in ListProps \ A /\ "EMAIL" \in ListProps \ B
    BY DEF Edited, TextProps, ListProps
  <1>2. /\ A \cup {"TEL"} = B
        /\ B \cup {"EMAIL"} = {"FN", "N", "TITLE", "NOTE", "URL", "TEL", "EMAIL"}
    OBVIOUS
  <1>3. Progress(d, e, A, c)
    OBVIOUS
  <1> HIDE DEF A, B
  <1>4. Progress(d, x, B, c)
    BY <1>1, <1>2, <1>3, ProgressSetAll
  <1> HIDE DEF x
  <1>5. Progress(d, y, B \cup {"EMAIL"}, c)
    BY <1>1, <1>4, ProgressSetAll
  <1> QED
    BY <1>2, <1>5 DEF SetLists, x

(* and to the end: every property the form knows is written.               *)
LEMMA ApplyProgress ==
    ASSUME NEW d \in Seq(Line), NEW contact \in Contacts
    PROVE  Progress(d, Apply(d, contact), Edited, normalise(contact))
  <1> DEFINE c == normalise(contact)
             x == SetLists(SetTexts(SetNames(d, c), c), c)
             A == {"FN", "N", "TITLE", "NOTE", "URL", "TEL", "EMAIL"}
             B == A \cup {"ORG"}
             r == RawValue(x, "ORG")
             v == organisationValue(c, r)
             y == SetOrg(x, c)
             now == Escape(Now)
  <1>1. c \in Contacts
    BY NormaliseType
  <1>a. Apply(d, contact) = Set(y, "REV", now)
    BY DEF Apply
  <1> HIDE DEF c
  <1>2. Progress(d, x, A, c)
    <2>1. Progress(d, SetNames(d, c), {"FN", "N"}, c)
      BY <1>1, ProgressNames
    <2>2. Progress(d, SetTexts(SetNames(d, c), c), {"FN", "N", "TITLE", "NOTE", "URL"}, c)
      BY <1>1, <2>1, ProgressTexts
    <2> QED
      BY <1>1, <2>2, ProgressLists
  <1>y. y = Set(x, "ORG", v)
    BY DEF SetOrg
  <1> HIDE DEF x, y
  <1>3. /\ A \subseteq Edited /\ "ORG" \in (Edited \ ListProps) \ A
        /\ B \subseteq Edited /\ "REV" \in (Edited \ ListProps) \ B
        /\ B \cup {"REV"} = Edited
    BY DEF Edited, TextProps, ListProps
  <1> HIDE DEF A, B
  <1>4. x \in Seq(Line)
    BY <1>2 DEF Progress, Built
  <1>5. r \in Text
    BY <1>4, RawValueType
  <1>6. IndicesHold(d, c) => r = RawValue(d, "ORG")
    <2>1. IndicesHold(d, c) => EditOf(d, x, A)
      BY <1>2 DEF Progress, Written
    <2>2. "ORG" \in Edited \ A
      BY <1>3
    <2>3. ASSUME IndicesHold(d, c) PROVE RawValue(x, "ORG") = RawValue(d, "ORG")
      <3>1. EditOf(d, x, A)
        BY <2>1, <2>3
      <3> QED
        BY <3>1, <2>2, SameFound
    <2> QED
      BY <2>3
  <1> HIDE DEF r
  <1>7. v \in Text
    BY <1>1, <1>5, OrganisationType
  <1>8. Wanted(d, c, "ORG") = organisationValue(c, RawValue(d, "ORG"))
        /\ Wanted(d, c, "REV") = now
    BY DEF Wanted, TextProps
  <1>9. IndicesHold(d, c) => v = Wanted(d, c, "ORG")
    BY <1>6, <1>8
  <1>10. now \in Text
    BY CardAssumption, EscapeType
  <1> HIDE DEF v, now
  <1>11. Progress(d, y, A \cup {"ORG"}, c)
    BY <1>2, <1>3, <1>7, <1>9, <1>y, ProgressSet
  <1>12. Progress(d, y, B, c)
    BY <1>11 DEF B
  <1>13. Progress(d, Set(y, "REV", now), B \cup {"REV"}, c)
    BY <1>3, <1>8, <1>10, <1>12, ProgressSet
  <1> QED
    BY <1>3, <1>13, <1>a DEF c

-----------------------------------------------------------------------------
(* Reading the card again                                                  *)

(* Contains and ToSet.                                                     *)
LEMMA ContainsOf ==
    ASSUME NEW A, NEW s \in Seq(A), NEW x
    PROVE  /\ Contains(s, x) <=> \E i \in 1..Len(s) : s[i] = x
           /\ x \in ToSet(s) <=> Contains(s, x)
  <1>1. DOMAIN s = 1..Len(s)
    OBVIOUS
  <1> QED
    BY <1>1 DEF Contains, ToSet

(* typeParam returns a type of the line, and an offered one if there is    *)
(* one.                                                                    *)
LEMMA TypeParamIs ==
    ASSUME NEW types \in Seq(Word)
    PROVE  /\ typeParam(types) = "" \/ Contains(types, typeParam(types))
           /\ \A t : (Contains(TypeOptions, t) /\ Contains(types, t)) =>
                Contains(TypeOptions, typeParam(types)) /\ Contains(types, typeParam(types))
           /\ types = <<>> => typeParam(types) = ""
           /\ types # <<>> => Contains(types, typeParam(types))
  <1> DEFINE O == ToSet(TypeOptions)
             known == Only(types, O)
             p == typeParam(types)
  <1>1. known \in Seq(Word) /\ known \in Seq(Word \cap O) /\ Len(known) = Len(Where(types, O))
    BY OnlyType
  <1>2. p = CASE known # <<>> -> known[1]
              [] known = <<>> /\ types # <<>> -> types[1]
              [] types = <<>> -> ""
    BY DEF typeParam
  <1>3. types = <<>> => known = <<>>
    BY OnlyEmpty
  <1>4. known = <<>> <=> \A i \in 1..Len(types) : types[i] \notin O
    BY OnlyFinds
  <1>w. WhereIs(types, O, Where(types, O))
    BY WhereAll
  <1>5. known # <<>> => \E i \in 1..Len(types) : types[i] = known[1] /\ known[1] \in O
    <2> DEFINE w == Where(types, O)
    <2>1. ASSUME known # <<>> PROVE 1 \in 1..Len(w)
      <3> HIDE DEF known, w, O
      <3> QED
        BY <1>1, <2>1 DEF w
    <2>2. \A k \in 1..Len(w) : w[k] \in 1..Len(types) /\ types[w[k]] \in O /\ known[k] = types[w[k]]
      BY OnlyAt
    <2> HIDE DEF known, w, O
    <2> QED
      BY <2>1, <2>2
  <1>o. \A t : t \in O <=> Contains(TypeOptions, t)
    BY Options
  <1> HIDE DEF known, O, p
  <1>c. \A t : Contains(types, t) <=> \E i \in 1..Len(types) : types[i] = t
    BY ContainsOf
  <1>6. types # <<>> => Contains(types, types[1])
    <2>1. types # <<>> => 1 \in 1..Len(types)
      OBVIOUS
    <2> QED
      BY <2>1, <1>c
  <1>7. CASE known # <<>>
    <2>1. p = known[1] /\ types # <<>>
      BY <1>2, <1>3, <1>7, Zenon
    <2>2. Contains(types, p) /\ Contains(TypeOptions, p)
      BY <2>1, <1>5, <1>7, <1>c, <1>o
    <2> QED
      BY <2>1, <2>2 DEF p
  <1>8. CASE known = <<>>
    <2>1. \A t : ~(Contains(TypeOptions, t) /\ Contains(types, t))
      BY <1>4, <1>8, <1>c, <1>o
    <2>2. CASE types = <<>>
      <3>1. p = ""
        BY <1>2, <1>8, <2>2, Zenon
      <3> QED
        BY <3>1, <2>1, <2>2 DEF p
    <2>3. CASE types # <<>>
      <3>1. p = types[1]
        BY <1>2, <1>8, <2>3, Zenon
      <3> QED
        BY <3>1, <2>1, <2>3, <1>6 DEF p
    <2> QED
      BY <2>2, <2>3
  <1> QED
    BY <1>7, <1>8

(* The type of a line with a single TYPE.                                  *)
LEMMA TypeParamOne ==
    ASSUME NEW t \in Word
    PROVE  typeParam(<<t>>) = t
  <1> DEFINE s == <<t>>
  <1>1. s \in Seq(Word) /\ s # <<>> /\ Len(s) = 1 /\ s[1] = t
    OBVIOUS
  <1> HIDE DEF s
  <1>2. Contains(s, typeParam(s))
    BY <1>1, TypeParamIs
  <1>3. \E i \in 1..Len(s) : s[i] = typeParam(s)
    BY <1>1, <1>2, ContainsOf
  <1>4. typeParam(s) = t
    BY <1>1, <1>3
  <1> QED
    BY <1>4 DEF s

(* No CR comes out of a value without CR.                                  *)
LEMMA UnescapeSmooth ==
    ASSUME NEW t \in Seq(Smooth)
    PROVE  Plain(Unescape(t)) = Unescape(t)
  <1> DEFINE E == {}
             P == {s \in Text : Scanned(s, E).part \in Seq(Smooth) /\ Scanned(s, E).parts = <<>>}
             e == <<>>
  <1>1. e \in P
    <2>1. e \in Text
      BY Texts
    <2>2. Scanned(e, E) = ScanStart
      BY ScannedEmpty
    <2>3. Scanned(e, E).part = <<>> /\ Scanned(e, E).parts = <<>>
      BY <2>2 DEF ScanStart, Scanning
    <2>4. <<>> \in Seq(Smooth)
      OBVIOUS
    <2> QED
      BY <2>1, <2>3, <2>4
  <1>2. ASSUME NEW s \in Seq(Smooth), NEW c \in Smooth, s \in P PROVE Append(s, c) \in P
    <2> DEFINE a == Scanned(s, E)
               b == Scanned(Append(s, c), E)
    <2>1. s \in Text /\ a.part \in Seq(Smooth) /\ a.parts = <<>>
      BY <1>2
    <2>2. c \in Byte /\ "LF" \in Smooth
      BY AlphabetAssumption DEF Smooth
    <2>3. a \in ScanState /\ b = ScanByte(a, c, E) /\ Append(s, c) \in Text
      BY <2>1, <2>2, ScannedAppend, Texts
    <2>4. Meant(c) \in Smooth
      BY <2>2 DEF Meant
    <2>6. c \notin E
      OBVIOUS
    <2> HIDE DEF a, b, E
    <2>5. /\ a.escaped => b = Scanning(a.parts, Append(a.part, Meant(c)), FALSE)
          /\ (~a.escaped /\ c = "\\") => b = Scanning(a.parts, a.part, TRUE)
          /\ (~a.escaped /\ c # "\\" /\ c \notin E) => b = Scanning(a.parts, Append(a.part, c), FALSE)
      BY <2>2, <2>3, ScanByteIs, Zenon
    <2>7. Append(a.part, Meant(c)) \in Seq(Smooth) /\ Append(a.part, c) \in Seq(Smooth)
      BY <2>1, <2>4
    <2>a. \A x, y, f : Scanning(x, y, f).part = y /\ Scanning(x, y, f).parts = x
      BY DEF Scanning
    <2>8. b.part \in Seq(Smooth) /\ b.parts = <<>>
      <3>1. CASE a.escaped
        <4>1. b = Scanning(a.parts, Append(a.part, Meant(c)), FALSE)
          BY <3>1, <2>5, Zenon
        <4>2. b.part = Append(a.part, Meant(c)) /\ b.parts = a.parts
          BY <4>1, <2>a
        <4> QED
          BY <4>2, <2>1, <2>7
      <3>2. CASE ~a.escaped /\ c = "\\"
        <4>1. b = Scanning(a.parts, a.part, TRUE)
          BY <3>2, <2>5, Zenon
        <4>2. b.part = a.part /\ b.parts = a.parts
          BY <4>1 DEF Scanning
        <4> QED
          BY <4>2, <2>1
      <3>3. CASE ~a.escaped /\ c # "\\"
        <4>1. b = Scanning(a.parts, Append(a.part, c), FALSE)
          BY <3>3, <2>5, <2>6, Zenon
        <4>2. b.part = Append(a.part, c) /\ b.parts = a.parts
          BY <4>1, <2>a
        <4> QED
          BY <4>2, <2>1, <2>7
      <3> QED
        BY <3>1, <3>2, <3>3
    <2> QED
      BY <2>3, <2>8 DEF b
  <1>3. t \in P
    <2> HIDE DEF P
    <2> QED
      BY <1>1, <1>2, SequenceInduction DEF e
  <1> DEFINE z == Scanned(t, E)
  <1>4. t \in Text /\ z.part \in Seq(Smooth) /\ z.parts = <<>>
    BY <1>3
  <1>5. Unescape(t) = Append(z.parts, IF z.escaped THEN Append(z.part, "\\") ELSE z.part)[1]
    BY DEF Unescape, Scan
  <1> HIDE DEF z
  <1>6. "\\" \in Smooth
    BY AlphabetAssumption DEF Smooth
  <1> DEFINE q == IF z.escaped THEN Append(z.part, "\\") ELSE z.part
  <1>7. q \in Seq(Smooth)
    <2>1. Append(z.part, "\\") \in Seq(Smooth)
      BY <1>4, <1>6
    <2> QED
      BY <1>4, <2>1, Zenon
  <1>8. Unescape(t) = q
    <2> HIDE DEF q
    <2>1. Append(<<>>, q)[1] = q
      BY <1>7
    <2> QED
      BY <1>4, <1>5, <2>1 DEF q
  <1> HIDE DEF q
  <1>9. q \in Seq(Byte) /\ \A i \in 1..Len(q) : q[i] \in Smooth
    BY <1>7, SmoothTexts, ElementOfSeq DEF Text
  <1>10. Only(q, Smooth) = q
    BY <1>9, OnlyAllOf
  <1> QED
    BY <1>8, <1>10 DEF Plain, Smooth

-----------------------------------------------------------------------------
(* The invariant                                                           *)

(* The lines of a card the server has stored.                              *)
Sound(d) ==
    /\ d \in Seq(Line)
    /\ \A i \in 1..Len(d) :
         /\ d[i].by = "server" => d[i].name \in Edited \cup {"VERSION", "UID"}
         /\ d[i].name \in ListProps => d[i].value \in Seq(Smooth)

(* The numbers and addresses of a card hold no CR, be they the client's or *)
(* Escape's: what the form leaves alone reads as it was entered.           *)
CardInv ==
    /\ TypeOK
    /\ card # NoCard => Sound(card)

(* Apply keeps a card sound.                                               *)
LEMMA ApplySound ==
    ASSUME NEW d, Sound(d), NEW contact \in Contacts
    PROVE  Sound(Apply(d, contact))
  <1> DEFINE e == Apply(d, contact)
  <1>1. d \in Seq(Line)
    BY DEF Sound
  <1>2. Built(d, e)
    BY <1>1, ApplyProgress DEF Progress
  <1> HIDE DEF e
  <1>3. e \in Seq(Line)
    BY <1>2 DEF Built
  <1>4. ASSUME NEW k \in 1..Len(e)
        PROVE  /\ e[k].by = "server" => e[k].name \in Edited \cup {"VERSION", "UID"}
               /\ e[k].name \in ListProps => e[k].value \in Seq(Smooth)
    <2>1. CASE \E j \in 1..Len(d) : e[k] = d[j]
      BY <2>1 DEF Sound
    <2>2. CASE e[k].name \in Edited /\ (e[k].name \in ListProps => e[k].value \in Seq(Smooth))
      BY <2>2
    <2> QED
      BY <2>1, <2>2, <1>2 DEF Built
  <1> QED
    BY <1>3, <1>4 DEF Sound, e

(* A card of a client is sound,                                            *)
LEMMA ClientSound ==
    ASSUME NEW d \in Card
    PROVE  Sound(d)
  <1> DEFINE C == ClientLine
  <1>1. d \in Seq(C)
    BY CardAssumption
  <1>2. \A l \in C : l \in Line /\ l.by = "client" /\ \A i \in DOMAIN l.value : l.value[i] # "CR"
    BY DEF ClientLine
  <1> HIDE DEF C
  <1>3. d \in Seq(Line)
    <2>1. C \subseteq Line
      BY <1>2
    <2> QED
      BY <1>1, <2>1, SeqMonotonic, Zenon
  <1>4. ASSUME NEW i \in 1..Len(d)
        PROVE  d[i].by # "server" /\ d[i].value \in Seq(Smooth)
    <2>1. d[i] \in C
      BY <1>1, ElementOfSeq
    <2> DEFINE v == d[i].value
    <2>2. d[i] \in Line /\ d[i].by = "client" /\ \A j \in DOMAIN v : v[j] # "CR"
      BY <2>1, <1>2
    <2>3. v \in Seq(Byte)
      BY <2>2, LineFields DEF Text
    <2> HIDE DEF v
    <2>4. Len(v) \in Nat /\ DOMAIN v = 1..Len(v) /\ \A j \in 1..Len(v) : v[j] \in Byte
      BY <2>3
    <2>5. \A j \in 1..Len(v) : v[j] \in Smooth
      BY <2>2, <2>4 DEF Smooth
    <2>6. v \in [1..Len(v) -> Smooth]
      BY <2>3, <2>4, <2>5
    <2>7. v \in Seq(Smooth)
      BY <2>4, <2>6
    <2> QED
      BY <2>2, <2>7 DEF v
  <1> QED
    BY <1>3, <1>4 DEF Sound

(* and so is the one that New starts with.                                 *)
LEMMA BlankSound ==
    Sound(Blank)
  <1> DEFINE v == NewLine("VERSION", <<>>, <<"3">>)
             u == NewLine("UID", <<>>, <<"u">>)
  <1>1. Blank = <<v, u>>
    BY DEF Blank
  <1>2. "VERSION" \in Word /\ "UID" \in Word /\ "3" \in Byte /\ "u" \in Byte
    BY CardAssumption
  <1>3. <<"3">> \in Text /\ <<"u">> \in Text
    BY <1>2 DEF Text
  <1> DEFINE t == <<>>
             x == <<"3">>
             y == <<"u">>
  <1>4. t \in Seq(Word) /\ v = NewLine("VERSION", t, x) /\ u = NewLine("UID", t, y)
        /\ x \in Text /\ y \in Text
    BY <1>3
  <1> HIDE DEF v, u, t, x, y
  <1>5. v \in Line /\ v.name = "VERSION"
    BY <1>2, <1>4, NewLineType
  <1>6. u \in Line /\ u.name = "UID"
    BY <1>2, <1>4, NewLineType
  <1>7. /\ Blank \in Seq(Line) /\ Len(Blank) = 2 /\ Blank[1] = v /\ Blank[2] = u
    BY <1>1, <1>5, <1>6
  <1>8. "VERSION" \notin ListProps /\ "UID" \notin ListProps
    BY DEF ListProps
  <1>9. \A i \in 1..Len(Blank) : i = 1 \/ i = 2
    BY <1>7
  <1> QED
    BY <1>5, <1>6, <1>7, <1>8, <1>9 DEF Sound

(* A sound card satisfies the invariant.                                   *)
LEMMA SoundType ==
    ASSUME Sound(card), reply \in {"none", "stored", "refused"}
    PROVE  CardInv
  <1>1. card \in Seq(Line) /\ DOMAIN card = 1..Len(card)
    BY DEF Sound
  <1> QED
    BY <1>1 DEF CardInv, TypeOK, Sound

(* Every request keeps the invariant.                                      *)
LEMMA NextCard ==
    ASSUME CardInv, [Next]_vars
    PROVE  CardInv'
  <1>0. TypeOK /\ (card # NoCard => card \in Seq(Line) /\ Sound(card))
    BY DEF CardInv, TypeOK
  <1>r. CASE Refuse
    <2>1. CardInv' <=> (CardInv /\ TRUE)
      BY <1>0, <1>r DEF Refuse, CardInv, TypeOK, Sound
    <2> QED
      BY <2>1
  <1>s. ASSUME NEW d, Store(d), Sound(d) PROVE CardInv'
    <2>1. card' = d /\ reply' = "stored"
      BY <1>s DEF Store
    <2>2. Sound(card)' /\ (reply \in {"none", "stored", "refused"})'
      BY <2>1, <1>s DEF Sound
    <2> QED
      BY <2>2, SoundType, PTL
  <1>1. ASSUME NEW doc \in Card, PutAddressObject(doc) PROVE CardInv'
    BY <1>1, <1>r, <1>s, ClientSound DEF PutAddressObject
  <1>2. CASE DeleteAddressObject
    BY <1>2 DEF DeleteAddressObject, Store, CardInv, TypeOK
  <1>t. ASSUME NEW d, storeContact(d), Sound(d) PROVE CardInv'
    BY <1>t, <1>r, <1>s DEF storeContact
  <1>u. ASSUME NEW form \in Contacts, UpdateContact(form) PROVE CardInv'
    <2> DEFINE c == contactFromForm(form)
    <2>1. c \in Contacts
      BY ContactFromFormType
    <2>2. card # NoCard /\ (storeContact(Apply(card, c)) \/ Refuse)
      BY <1>u DEF UpdateContact
    <2> HIDE DEF c
    <2>3. Sound(Apply(card, c))
      BY <2>1, <2>2, <1>0, ApplySound
    <2> QED
      BY <2>2, <2>3, <1>t, <1>r
  <1>3. ASSUME NEW form \in Contact, UpdateContact(form) PROVE CardInv'
    BY <1>3, <1>u, CardAssumption
  <1>4. ASSUME NEW form \in Contact, CreateContact(form) PROVE CardInv'
    <2> DEFINE c == contactFromForm(form)
    <2>1. c \in Contacts
      BY ContactFromFormType, CardAssumption
    <2>2. storeContact(Apply(Blank, c)) \/ Refuse
      BY <1>4 DEF CreateContact
    <2> HIDE DEF c
    <2>3. Sound(Apply(Blank, c))
      BY <2>1, BlankSound, ApplySound
    <2> QED
      BY <2>2, <2>3, <1>t, <1>r
  <1>5. CASE SaveAsShown
    <2>1. card # NoCard /\ UpdateContact(Shown(card))
      BY <1>5 DEF SaveAsShown
    <2>2. Shown(card) \in Contacts
      BY <2>1, <1>0, ShownType
    <2> QED
      BY <2>1, <2>2, <1>u
  <1>6. CASE UNCHANGED vars
    BY <1>6 DEF vars, CardInv, TypeOK, Sound
  <1> QED
    BY <1>1, <1>2, <1>3, <1>4, <1>5, <1>6 DEF Next

(* The invariant.                                                          *)
LEMMA CardsInvariant ==
    Spec => []CardInv
  <1>1. Init => CardInv
    BY DEF Init, CardInv, TypeOK
  <1>2. CardInv /\ [Next]_vars => CardInv'
    BY NextCard
  <1> QED
    BY <1>1, <1>2, PTL DEF Spec

(* Whatever is put, entered and removed, a card stays a sequence of        *)
(* lines, and the server has only ever written properties the form knows:  *)
(* Set, SetAll and Remove never touch another line's content, even with    *)
(* the indices SetAll has collected before it removes lines.               *)
THEOREM CardType ==
    Spec => []TypeOK
  <1>1. CardInv => TypeOK
    BY DEF CardInv
  <1> QED
    BY <1>1, CardsInvariant, PTL

(* What a saved form has stored,                                           *)
LEMMA SavedForm ==
    ASSUME CardInv, NEW form \in Forms, Saved(form)
    PROVE  /\ card \in Seq(Line) /\ Sound(card) /\ form \in Contacts
           /\ IndicesHold(card, normalise(contactFromForm(form)))
           /\ contactFromForm(form) \in Contacts
           /\ card' = Apply(card, contactFromForm(form))
  <1> DEFINE c == contactFromForm(form)
             e == Apply(card, c)
  <1>1. UpdateContact(form) /\ reply' = "stored" /\ IndicesHold(card, normalise(c))
    BY DEF Saved, Stored
  <1>2. card # NoCard /\ (storeContact(e) \/ Refuse)
    BY <1>1 DEF UpdateContact
  <1>3. card \in Seq(Line) /\ Sound(card)
    BY <1>2 DEF CardInv, TypeOK
  <1>4. form \in Contacts
    BY <1>3, FormType
  <1> HIDE DEF e
  <1>5. card' = e
    BY <1>1, <1>2 DEF storeContact, Store, Refuse
  <1> QED
    BY <1>1, <1>3, <1>4, <1>5, ContactFromFormType DEF e

(* and that all of it was written.                                         *)
LEMMA SavedWrites ==
    ASSUME CardInv, NEW form \in Forms, Saved(form)
    PROVE  Written(card, card', Edited, normalise(contactFromForm(form)))
  <1>1. /\ card \in Seq(Line) /\ contactFromForm(form) \in Contacts
        /\ IndicesHold(card, normalise(contactFromForm(form)))
        /\ card' = Apply(card, contactFromForm(form))
    BY SavedForm
  <1>2. Progress(card, Apply(card, contactFromForm(form)), Edited, normalise(contactFromForm(form)))
    BY <1>1, ApplyProgress
  <1> QED
    BY <1>1, <1>2 DEF Progress

(* "The edit is applied to the stored bytes" (updateContact): however many *)
(* lines, groups and rows there are, whenever the indices of SetAll hold,  *)
(* the lines of other properties stay, in order and as they are, and those *)
(* of a group go exactly when the property of the group goes.              *)
THEOREM OtherLines ==
    Spec => OtherLinesStay
  <1> DEFINE A == \A form \in Forms : Saved(form) =>
                    /\ Untouched(card', Groups(card)) = Untouched(card, Groups(card))
                    /\ \A g \in Groups(card) :
                         Satellites(card', g) =
                           IF g \in Groups(card') THEN Satellites(card, g) ELSE <<>>
  <1>1. ASSUME CardInv PROVE A
    <2> SUFFICES ASSUME NEW form \in Forms, Saved(form)
                 PROVE  /\ Untouched(card', Groups(card)) = Untouched(card, Groups(card))
                        /\ \A g \in Groups(card) :
                             Satellites(card', g) =
                               IF g \in Groups(card') THEN Satellites(card, g) ELSE <<>>
      OBVIOUS
    <2>1. card \in Seq(Line)
      BY <1>1, SavedForm
    <2>2. EditOf(card, card', Edited)
      BY <1>1, SavedWrites DEF Written
    <2>3. Groups(card) \in SUBSET Word
      BY <2>1, GroupsAreWords
    <2>4. Untouched(card', Groups(card)) = Untouched(card, Groups(card))
      BY <2>2, <2>3 DEF EditOf
    <2>5. ASSUME NEW g \in Groups(card)
          PROVE  Satellites(card', g) =
                   IF g \in Groups(card') THEN Satellites(card, g) ELSE <<>>
      <3>1. g \in Word \ {""}
        BY <2>1, <2>3, GroupsOf
      <3>2. GroupStep(card, card', g)
        BY <2>2, <3>1 DEF EditOf
      <3> QED
        BY <3>2 DEF GroupStep
    <2> QED
      BY <2>4, <2>5
  <1>2. CardInv => [A]_vars
    BY <1>1
  <1> QED
    BY <1>2, CardsInvariant, PTL DEF OtherLinesStay

(* A line after its row comes back with what the form has selected.        *)
LEMMA SelectedRow ==
    ASSUME NEW l \in Line, NEW row \in Row, l.value \in Seq(Smooth), NEW old \in Row,
           old.value = Unescape(l.value), old.type = typeParam(l.types), row = Selected(old)
    PROVE  /\ Rewritten(l, row).group = l.group
           /\ Unescape(Rewritten(l, row).value) = Unescape(l.value)
           /\ Contains(TypeOptions, old.type) => Rewritten(l, row) = l
  <1>1. /\ Rewritten(l, row).group = l.group
        /\ (Rewritten(l, row) = l /\ Unescape(l.value) = row.value)
           \/ Rewritten(l, row).value = Escape(row.value)
        /\ ((row.type = "" \/ Contains(l.types, row.type)) /\ Unescape(l.value) = row.value)
           => Rewritten(l, row) = l
    BY RewrittenLine
  <1>2. row.value = old.value /\ (Contains(TypeOptions, old.type) => row.type = old.type)
    BY DEF Selected, Row
  <1>3. Unescape(Rewritten(l, row).value) = Unescape(l.value)
    <2>1. row.value \in Text
      BY DEF Row
    <2>2. Unescape(Escape(row.value)) = Plain(row.value)
      BY <2>1, UnescapeEscape
    <2>3. Plain(Unescape(l.value)) = Unescape(l.value)
      BY UnescapeSmooth
    <2> QED
      BY <2>2, <2>3, <1>1, <1>2
  <1>4. ASSUME Contains(TypeOptions, old.type) PROVE Rewritten(l, row) = l
    <2>1. l.types \in Seq(Word)
      BY LineFields
    <2>2. old.type = "" \/ Contains(l.types, old.type)
      BY <2>1, TypeParamIs
    <2> QED
      BY <2>2, <1>1, <1>2, <1>4
  <1> QED
    BY <1>1, <1>3, <1>4

(* "Occurrences are matched to the existing lines in order" and            *)
(* "Unchanged: leave the original bytes in place" (SetAll): for lists of   *)
(* any length, a row that comes back as the page has shown and selected it *)
(* keeps its place, its group and its value, and its line if the page      *)
(* offers a TYPE of it, while the rows around it are edited, added or      *)
(* removed.                                                                *)
THEOREM UnchangedRows ==
    Spec => UnchangedRowsKeepTheirBytes
  <1> DEFINE A == \A form \in Forms, name \in ListProps : Saved(form) =>
                    LET sent == contactFromForm(form).list[name]
                        was  == Only(card, Named(name))
                        is   == Only(card', Named(name))
                        old  == Values(card, name)
                    IN  \A k \in DOMAIN sent \cap DOMAIN was :
                          sent[k] = Selected(old[k]) =>
                            /\ is[k].group = was[k].group
                            /\ Unescape(is[k].value) = Unescape(was[k].value)
                            /\ Contains(TypeOptions, old[k].type) => is[k] = was[k]
  <1>1. ASSUME CardInv PROVE A
    <2> SUFFICES ASSUME NEW form \in Forms, NEW name \in ListProps, Saved(form),
                        NEW k \in DOMAIN contactFromForm(form).list[name]
                                   \cap DOMAIN Only(card, Named(name)),
                        contactFromForm(form).list[name][k] = Selected(Values(card, name)[k])
                 PROVE  /\ Only(card', Named(name))[k].group = Only(card, Named(name))[k].group
                        /\ Unescape(Only(card', Named(name))[k].value)
                             = Unescape(Only(card, Named(name))[k].value)
                        /\ Contains(TypeOptions, Values(card, name)[k].type) =>
                             Only(card', Named(name))[k] = Only(card, Named(name))[k]
      OBVIOUS
    <2> DEFINE c == contactFromForm(form)
               v == c.list[name]
               S == Named(name)
               o == Only(card, S)
               p == Only(card', S)
               old == Values(card, name)[k]
    <2>1. card \in Seq(Line) /\ Sound(card) /\ c \in Contacts
      BY <1>1, SavedForm
    <2>2. Written(card, card', Edited, normalise(c))
      BY <1>1, SavedWrites
    <2>3. v \in Seq(Row) /\ normalise(c).list[name] = v
      BY <2>1, NormaliseType, ContactFields
    <2>4. name \in Edited \cap ListProps
      BY DEF Edited
    <2>5. Listed(o, p, name, v)
      BY <2>2, <2>3, <2>4 DEF Written
    <2>6. o \in Seq(Line) /\ Len(o) = Len(Where(card, S))
      BY <2>1, OnlyType, Zenon
    <2>7. k \in DOMAIN v /\ k \in DOMAIN o /\ v[k] = Selected(old)
      OBVIOUS
    <2>8. k \in 1..Len(v) /\ k \in 1..Len(o)
      <3> HIDE DEF v, o
      <3> QED
        BY <2>3, <2>6, <2>7
    <2>9. Values(card, name) \in Seq(Row) /\ Len(Values(card, name)) = Len(o)
          /\ old.value = Unescape(o[k].value) /\ old.type = typeParam(o[k].types)
      BY <2>1, <2>8, ValuesType
    <2>10. o[k].value \in Seq(Smooth)
      <3> DEFINE i == Where(card, S)[k]
      <3>1. k \in 1..Len(Where(card, S))
        BY <2>6, <2>8
      <3>2. i \in 1..Len(card) /\ card[i] \in Named(name) /\ o[k] = card[i]
        BY <3>1, <2>1, OnlyAt
      <3> HIDE DEF i, o, S
      <3>3. card[i].name = name
        BY <3>2 DEF Named
      <3> QED
        BY <3>2, <3>3, <2>1 DEF Sound
    <2> HIDE DEF c, v, S, o, p
    <2>11. p[k] = Rewritten(o[k], v[k])
      BY <2>5, <2>8 DEF Listed
    <2>12. o[k] \in Line /\ v[k] \in Row /\ old \in Row
      BY <2>3, <2>6, <2>8, <2>9
    <2> HIDE DEF old
    <2>13. /\ p[k].group = o[k].group
           /\ Unescape(p[k].value) = Unescape(o[k].value)
           /\ Contains(TypeOptions, old.type) => p[k] = o[k]
      BY <2>7, <2>9, <2>10, <2>11, <2>12, SelectedRow
    <2> QED
      BY <2>13 DEF o, p, S, old
  <1>2. CardInv => [A]_vars
    <2> HIDE DEF A
    <2> QED
      BY <1>1
  <1> QED
    BY <1>2, CardsInvariant, PTL DEF UnchangedRowsKeepTheirBytes

(* A sequence of one element is not empty.                                 *)
LEMMA OneIsSome ==
    ASSUME NEW A, NEW s \in Seq(A), Len(s) = 1
    PROVE  s # <<>>
  OBVIOUS

(* The one line of a name is what RawValue reads.                          *)
LEMMA HoldsReads ==
    ASSUME NEW d \in Seq(Line), NEW name, NEW value, Holds(d, name, value)
    PROVE  RawValue(d, name) = value
  <1> DEFINE o == Only(d, Named(name))
  <1>1. /\ o = <<>> => RawValue(d, name) = <<>>
        /\ o # <<>> => RawValue(d, name) = o[1].value
    BY RawValueType
  <1>2. IF value = <<>> THEN o = <<>> ELSE Len(o) = 1 /\ o[1].value = value
    BY DEF Holds
  <1>t. o \in Seq(Line)
    BY OnlyType
  <1> HIDE DEF o
  <1>3. Len(o) = 1 => o # <<>>
    BY <1>t, OneIsSome, Zenon
  <1> QED
    BY <1>1, <1>2, <1>3

(* No text is one empty part.                                              *)
LEMMA SplitEmpty ==
    SplitStructured(<<>>) = <<<<>>>>
  <1> DEFINE e == <<>>
             S == {";"}
  <1>1. Scanned(e, S) = ScanStart
    BY ScannedEmpty
  <1>2. /\ Scanned(e, S).parts = <<>> /\ Scanned(e, S).part = <<>>
        /\ Scanned(e, S).escaped = FALSE
    <2> DEFINE x == <<>>
    <2>1. x \in Seq(Text) /\ x \in Text
      BY DEF Text
    <2>2. Scanned(e, S) = Scanning(x, x, FALSE)
      BY <1>1 DEF ScanStart
    <2> HIDE DEF x, e, S
    <2>3. /\ Scanning(x, x, FALSE).parts = x /\ Scanning(x, x, FALSE).part = x
          /\ Scanning(x, x, FALSE).escaped = FALSE
      BY <2>1, ScanningType
    <2> QED
      BY <2>2, <2>3, Zenon DEF x
  <1> DEFINE z == Scanned(e, S)
  <1>3. SplitStructured(e) = Append(z.parts, IF z.escaped THEN Append(z.part, "\\") ELSE z.part)
    BY DEF SplitStructured, Scan
  <1> HIDE DEF z
  <1>4. SplitStructured(e) = Append(z.parts, z.part)
    BY <1>2, <1>3, Zenon DEF z
  <1>5. SplitStructured(e) = Append(<<>>, <<>>)
    BY <1>2, <1>4, Zenon DEF z
  <1> QED
    BY <1>5

(* The names as they are read.                                             *)
LEMMA NamesReadBack ==
    ASSUME NEW c \in Contacts, NEW n, n = SplitStructured(structuredName(c))
    PROVE  Part(n, 1) = Plain(c.family) /\ Part(n, 2) = Plain(c.given)
  <1>1. c.family \in Text /\ c.given \in Text
    BY ContactFields
  <1>2. CASE c.family = <<>> /\ c.given = <<>>
    <2>1. structuredName(c) = <<>>
      BY <1>2 DEF structuredName
    <2>2. n = <<<<>>>>
      BY <2>1, SplitEmpty
    <2>3. Part(n, 1) = <<>> /\ Part(n, 2) = <<>>
      BY <2>2 DEF Part
    <2> QED
      BY <1>2, <2>3, PlainEmpty
  <1>3. CASE ~(c.family = <<>> /\ c.given = <<>>)
    <2> DEFINE r == <<c.given, <<>>, <<>>, <<>>>>
    <2>1. r \in Seq(Text) /\ Len(r) = 4 /\ r[1] = c.given
      BY <1>1, Texts
    <2>2. structuredName(c) = Joined(c.family, r)
      BY <1>3 DEF structuredName
    <2> HIDE DEF r
    <2>3. n = Plains(c.family, r)
      BY <1>1, <2>1, <2>2, SplitJoined
    <2>4. Len(n) = 5 /\ n[1] = Plain(c.family) /\ n[2] = Plain(r[1])
      <3>1. n = [k \in 1..(Len(r) + 1) |-> IF k = 1 THEN Plain(c.family) ELSE Plain(r[k - 1])]
        BY <2>3 DEF Plains
      <3>2. Len(r) + 1 = 5
        BY <2>1
      <3>3. n \in Seq(Text)
        <4>1. \A q \in Text : Plains(c.family, r) \in Seq(Text)
          BY <1>1, <2>1, PlainsAppend
        <4> QED
          BY <4>1, <2>3, Texts
      <3>4. DOMAIN n = 1..5 /\ n[1] = Plain(c.family) /\ n[2] = Plain(r[1])
        BY <3>1, <3>2
      <3>5. Len(n) = 5
        BY <3>3, <3>4
      <3> QED
        BY <3>4, <3>5
    <2> QED
      BY <2>1, <2>4 DEF Part
  <1> QED
    BY <1>2, <1>3

(* The organisation is the first part of what organisationValue has        *)
(* joined.                                                                 *)
LEMMA OrganisationReadsBack ==
    ASSUME NEW c \in Contacts, NEW v \in Text
    PROVE  SplitStructured(organisationValue(c, v))[1] = Plain(c.org)
  <1>1. c.org \in Text
    BY ContactFields
  <1>2. CASE c.org = <<>>
    <2>1. organisationValue(c, v) = <<>>
      BY <1>2 DEF organisationValue
    <2>2. SplitStructured(organisationValue(c, v)) = <<<<>>>>
      BY <2>1, SplitEmpty
    <2> QED
      BY <1>2, <2>2, PlainEmpty
  <1>3. CASE c.org # <<>>
    <2> DEFINE s == SplitStructured(v)
               r == Tail(s)
    <2>1. s \in Seq(Text) /\ Len(s) >= 1
      BY SplitType
    <2>2. organisationValue(c, v) = Joined(c.org, r)
      BY <1>3 DEF organisationValue
    <2> HIDE DEF s
    <2>3. r \in Seq(Text) /\ Len(r) \in Nat
      BY <2>1
    <2> HIDE DEF r
    <2>4. SplitStructured(Joined(c.org, r)) = Plains(c.org, r)
      BY <1>1, <2>3, SplitJoined
    <2>5. Plains(c.org, r)[1] = Plain(c.org)
      <3>1. 1 \in 1..(Len(r) + 1)
        BY <2>3
      <3> QED
        BY <3>1 DEF Plains
    <2> QED
      BY <2>2, <2>4, <2>5
  <1> QED
    BY <1>2, <1>3

(* The TYPEs of a line are read as at most one that the form offers.       *)
OneOffered(types) ==
    \A t, u \in ToSet(TypeOptions) \cap ToSet(types) : t = u

(* A rewritten line shows the row,                                         *)
LEMMA RowReadsBack ==
    ASSUME NEW l \in Line, NEW row \in Row, l.value \in Seq(Smooth), OneOffered(l.types),
           Contains(TypeOptions, row.type)
    PROVE  /\ Unescape(Rewritten(l, row).value) = Plain(row.value)
           /\ typeParam(Rewritten(l, row).types) = row.type
  <1> DEFINE r == Rewritten(l, row)
             has == row.type = "" \/ Contains(l.types, row.type)
  <1>1. /\ (r = l /\ Unescape(l.value) = row.value) \/ r.value = Escape(row.value)
        /\ IF has THEN r.types = l.types ELSE r.types = <<row.type>>
    BY RewrittenLine, Zenon
  <1>2. row.value \in Text /\ row.type \in Word /\ row.type # ""
    BY Options DEF Row
  <1> HIDE DEF r
  <1>3. Unescape(r.value) = Plain(row.value)
    <2>1. CASE r = l /\ Unescape(l.value) = row.value
      BY <2>1, UnescapeSmooth
    <2>2. CASE r.value = Escape(row.value)
      BY <2>2, <1>2, UnescapeEscape
    <2> QED
      BY <2>1, <2>2, <1>1
  <1>4. typeParam(r.types) = row.type
    <2>0. l.types \in Seq(Word)
      BY LineFields
    <2>1. CASE Contains(l.types, row.type)
      <3>1. r.types = l.types
        BY <2>1, <1>1
      <3>2. Contains(TypeOptions, typeParam(l.types)) /\ Contains(l.types, typeParam(l.types))
        BY <2>0, <2>1, TypeParamIs
      <3>3. \A t : t \in ToSet(l.types) <=> Contains(l.types, t)
        BY <2>0, ContainsOf
      <3>4. \A t : t \in ToSet(TypeOptions) <=> Contains(TypeOptions, t)
        BY Options
      <3> QED
        BY <3>1, <3>2, <3>3, <3>4, <2>1 DEF OneOffered
    <2>2. CASE ~Contains(l.types, row.type)
      <3>1. r.types = <<row.type>>
        BY <2>2, <1>1, <1>2
      <3> QED
        BY <3>1, <1>2, TypeParamOne
    <2> QED
      BY <2>1, <2>2
  <1> QED
    BY <1>3, <1>4 DEF r

(* and so does a new one.                                                  *)
LEMMA NewRowReadsBack ==
    ASSUME NEW name \in Word, NEW row \in Row, Contains(TypeOptions, row.type)
    PROVE  /\ Unescape(RowLine(name, row).value) = Plain(row.value)
           /\ typeParam(RowLine(name, row).types) = row.type
  <1>1. row.value \in Text /\ row.type \in Word /\ row.type # ""
    BY Options DEF Row
  <1>2. RowLine(name, row).value = Escape(row.value) /\ RowLine(name, row).types = <<row.type>>
    BY <1>1, RowLineType, Zenon
  <1>3. Unescape(Escape(row.value)) = Plain(row.value) /\ typeParam(<<row.type>>) = row.type
    BY <1>1, UnescapeEscape, TypeParamOne
  <1> QED
    BY <1>2, <1>3

(* Rows that are left blank are dropped; the others keep a type that is    *)
(* offered.                                                                *)
LEMMA SentOffered ==
    ASSUME NEW form \in Contacts, Offered(form), NEW name \in ListProps,
           NEW k \in 1..Len(contactFromForm(form).list[name])
    PROVE  Contains(TypeOptions, contactFromForm(form).list[name][k].type)
  <1> DEFINE rows == form.list[name]
             trim == [j \in DOMAIN rows |-> [rows[j] EXCEPT !.value = TrimSpace(rows[j].value)]]
             P == {p \in Row : p.value # <<>>}
             o == contactFromForm(form).list[name]
             w == Where(trim, P)
  <1>1. o = Only(trim, P)
    BY DEF contactFromForm
  <1>2. rows \in Seq(Row)
    BY ContactFields
  <1>3. \A j \in 1..Len(rows) : Contains(TypeOptions, rows[j].type)
    <2>1. DOMAIN rows = 1..Len(rows)
      BY <1>2
    <2> QED
      BY <2>1 DEF Offered
  <1>k. k \in 1..Len(o)
    OBVIOUS
  <1> HIDE DEF rows, P, o
  <1>4. ASSUME NEW j \in 1..Len(rows)
        PROVE  /\ [rows[j] EXCEPT !.value = TrimSpace(rows[j].value)] \in Row
               /\ [rows[j] EXCEPT !.value = TrimSpace(rows[j].value)].type = rows[j].type
    <2>1. rows[j] \in Row
      BY <1>2
    <2>2. TrimSpace(rows[j].value) \in Text
      BY <2>1, TrimSpaceType DEF Row
    <2> QED
      BY <2>1, <2>2, RowFields, Zenon
  <1>5. /\ trim \in Seq(Row) /\ Len(trim) = Len(rows)
        /\ \A j \in 1..Len(rows) : trim[j].type = rows[j].type
    <2>1. DOMAIN rows = 1..Len(rows) /\ Len(rows) \in Nat
      BY <1>2
    <2>2. trim \in [1..Len(rows) -> Row]
      BY <1>4, <2>1
    <2>3. \A j \in 1..Len(rows) : trim[j].type = rows[j].type
      BY <1>4, <2>1
    <2> HIDE DEF trim
    <2> QED
      BY <2>1, <2>2, <2>3
  <1> HIDE DEF trim
  <1>6. Len(Only(trim, P)) = Len(w)
    BY <1>5, OnlyType
  <1>7. w[k] \in 1..Len(trim) /\ o[k] = trim[w[k]]
    <2>1. k \in 1..Len(Where(trim, P))
      BY <1>1, <1>6, <1>k
    <2> QED
      BY <1>1, <1>5, <2>1, OnlyAt
  <1> QED
    BY <1>3, <1>5, <1>7 DEF o

(* Texts are read back,                                                    *)
LEMMA TextReadsBack ==
    ASSUME NEW d \in Seq(Line), NEW e, NEW c \in Contacts, Written(d, e, Edited, c), Tidy(d),
           NEW name \in TextProps
    PROVE  Value(e, name) = Plain(c.text[name])
  <1>1. e \in Seq(Line)
    BY DEF Written, EditOf
  <1>2. name \in Edited \ ListProps
    BY DEF Edited, TextProps, ListProps
  <1>3. Len(FindAll(d, name)) <= 1
    BY DEF Tidy
  <1>4. Holds(e, name, Wanted(d, c, name))
    BY <1>2, <1>3 DEF Written
  <1>5. Wanted(d, c, name) = Escape(c.text[name])
    BY DEF Wanted, TextProps
  <1>6. RawValue(e, name) = Escape(c.text[name])
    BY <1>1, <1>4, <1>5, HoldsReads
  <1>7. c.text[name] \in Text
    BY ContactFields
  <1> QED
    BY <1>6, <1>7, UnescapeEscape DEF Value

(* N and ORG hold what was written,                                        *)
LEMMA PartsReadBack ==
    ASSUME NEW d \in Seq(Line), NEW e, NEW c \in Contacts, Written(d, e, Edited, c), Tidy(d)
    PROVE  /\ RawValue(e, "N") = structuredName(c)
           /\ RawValue(e, "ORG") = organisationValue(c, RawValue(d, "ORG"))
  <1>1. e \in Seq(Line)
    BY DEF Written, EditOf
  <1>2. {"N", "ORG"} \subseteq Edited \ ListProps
    BY DEF Edited, TextProps, ListProps
  <1>3. Len(FindAll(d, "N")) <= 1 /\ Len(FindAll(d, "ORG")) <= 1
    BY DEF Tidy
  <1>4. Holds(e, "N", Wanted(d, c, "N")) /\ Holds(e, "ORG", Wanted(d, c, "ORG"))
    BY <1>2, <1>3 DEF Written
  <1>5. /\ Wanted(d, c, "N") = structuredName(c)
        /\ Wanted(d, c, "ORG") = organisationValue(c, RawValue(d, "ORG"))
    BY DEF Wanted, TextProps
  <1> QED
    BY <1>1, <1>4, <1>5, HoldsReads

(* Every row has a type the form offers.                                   *)
AllOffered(rows) == \A k \in 1..Len(rows) : Contains(TypeOptions, rows[k].type)

PlainRows(rows) == [k \in DOMAIN rows |-> [rows[k] EXCEPT !.value = Plain(rows[k].value)]]

(* and lists are read back.                                                *)
LEMMA ListReadsBack ==
    ASSUME NEW d \in Seq(Line), Sound(d), NEW e, NEW c \in Contacts, Written(d, e, Edited, c),
           Tidy(d), NEW name \in ListProps, AllOffered(c.list[name])
    PROVE  Values(e, name) = PlainRows(c.list[name])
  <1> DEFINE rows == c.list[name]
             o == Only(d, Named(name))
             p == Only(e, Named(name))
             v == Values(e, name)
             x == PlainRows(rows)
  <1>1. e \in Seq(Line)
    BY DEF Written, EditOf
  <1>2. name \in Edited /\ name \in Word
    <2>1. name \in Edited
      BY DEF Edited
    <2> QED
      BY <2>1, EditedNames
  <1>3. Listed(o, p, name, rows)
    BY <1>2 DEF Written
  <1>4. rows \in Seq(Row) /\ AllOffered(rows)
    BY ContactFields
  <1>5. /\ v \in Seq(Row) /\ Len(v) = Len(p)
        /\ \A k \in 1..Len(p) : v[k].value = Unescape(p[k].value) /\ v[k].type = typeParam(p[k].types)
    BY <1>1, ValuesType
  <1>6. o \in Seq(Line) /\ Len(o) = Len(Where(d, Named(name)))
    BY OnlyType, Zenon
  <1>7. ASSUME NEW k \in 1..Len(o)
        PROVE  o[k] \in Line /\ o[k].value \in Seq(Smooth) /\ OneOffered(o[k].types)
    <2> DEFINE i == Where(d, Named(name))[k]
    <2>1. k \in 1..Len(Where(d, Named(name)))
      BY <1>6
    <2>2. i \in 1..Len(d) /\ d[i] \in Named(name) /\ o[k] = d[i]
      BY <2>1, OnlyAt
    <2> HIDE DEF i, o
    <2>3. d[i].name = name /\ d[i] \in Line
      BY <2>2 DEF Named
    <2>4. i \in DOMAIN d
      BY <2>2
    <2>5. OneOffered(d[i].types)
      BY <2>3, <2>4 DEF Tidy, OneOffered
    <2>6. d[i].value \in Seq(Smooth)
      BY <2>2, <2>3 DEF Sound
    <2> QED
      BY <2>2, <2>3, <2>5, <2>6
  <1> HIDE DEF rows, o, p, v
  <1>8. DOMAIN rows = 1..Len(rows) /\ Len(rows) \in Nat /\ Len(p) = Len(rows)
        /\ \A k \in 1..Len(rows) : rows[k] \in Row
    BY <1>3, <1>4 DEF Listed
  <1>9. ASSUME NEW k \in 1..Len(rows)
        PROVE  Unescape(p[k].value) = Plain(rows[k].value) /\ typeParam(p[k].types) = rows[k].type
    <2>1. rows[k] \in Row /\ Contains(TypeOptions, rows[k].type)
      BY <1>4, <1>8 DEF AllOffered
    <2>2. p[k] = IF k <= Len(o) THEN Rewritten(o[k], rows[k]) ELSE RowLine(name, rows[k])
      BY <1>3 DEF Listed
    <2>3. CASE k <= Len(o)
      <3>1. k \in 1..Len(o)
        BY <2>3, <1>6
      <3>2. o[k] \in Line /\ o[k].value \in Seq(Smooth) /\ OneOffered(o[k].types)
        BY <3>1, <1>7
      <3>3. p[k] = Rewritten(o[k], rows[k])
        BY <2>2, <2>3
      <3> QED
        BY <2>1, <3>2, <3>3, RowReadsBack
    <2>4. CASE ~(k <= Len(o))
      <3>1. p[k] = RowLine(name, rows[k])
        BY <2>2, <2>4
      <3> QED
        BY <2>1, <3>1, <1>2, NewRowReadsBack
    <2> QED
      BY <2>3, <2>4
  <1>10. ASSUME NEW k \in 1..Len(rows)
         PROVE  v[k] = [rows[k] EXCEPT !.value = Plain(rows[k].value)]
    <2>1. rows[k] \in Row /\ v[k] \in Row
      BY <1>5, <1>8
    <2>2. v[k].value = Plain(rows[k].value) /\ v[k].type = rows[k].type
      BY <1>5, <1>8, <1>9
    <2> QED
      BY <2>1, <2>2 DEF Row
  <1>11. x = [k \in 1..Len(rows) |-> [rows[k] EXCEPT !.value = Plain(rows[k].value)]]
    BY <1>8 DEF PlainRows
  <1>12. v = [k \in 1..Len(rows) |-> v[k]]
    <2>1. v \in [1..Len(rows) -> Row]
      BY <1>5, <1>8
    <2> QED
      BY <2>1
  <1>13. v = x
    <2> HIDE DEF x
    <2> QED
      BY <1>10, <1>11, <1>12
  <1> QED
    BY <1>13 DEF v, rows

(* What was entered is what the form shows next: for every form, text and  *)
(* card that the form can show whole, escaping and splitting are inverse up to the CR of the browser,   *)
(* and the k-th row is the k-th line again.                                *)
THEOREM ReadsBack ==
    Spec => FormReadsBack
  <1> DEFINE A == \A form \in Forms :
                    (Saved(form) /\ Tidy(card) /\ Offered(form)) => ReadContact(card') = Entered(form)
  <1>1. ASSUME CardInv PROVE A
    <2> SUFFICES ASSUME NEW form \in Forms, Saved(form), Tidy(card), Offered(form)
                 PROVE  ReadContact(card') = Entered(form)
      OBVIOUS
    <2> DEFINE b == contactFromForm(form)
               c == normalise(b)
               e == card'
               n == SplitStructured(RawValue(e, "N"))
               g == SplitStructured(RawValue(e, "ORG"))
    <2>1. /\ card \in Seq(Line) /\ Sound(card) /\ form \in Contacts /\ Tidy(card)
          /\ b \in Contacts
      BY <1>1, SavedForm
    <2>2. Written(card, e, Edited, c)
      BY <1>1, SavedWrites
    <2>3. c \in Contacts /\ c.list = b.list
      BY <2>1, NormaliseType
    <2>o. \A name \in ListProps : AllOffered(c.list[name])
      BY <2>1, <2>3, SentOffered DEF AllOffered
    <2>r. ReadContact(e) =
            ContactOf([name \in TextProps |-> Value(e, name)],
                      [name \in ListProps |-> Values(e, name)], Part(n, 1), Part(n, 2), g[1])
      BY DEF ReadContact, ContactOf
    <2>e. Entered(form) =
            ContactOf([name \in TextProps |-> Plain(c.text[name])],
                      [name \in ListProps |-> PlainRows(c.list[name])],
                      Plain(c.family), Plain(c.given), Plain(c.org))
      BY DEF Entered, ContactOf, PlainRows
    <2> HIDE DEF c, b, e
    <2>4. \A name \in TextProps : Value(e, name) = Plain(c.text[name])
      BY <2>1, <2>2, <2>3, TextReadsBack
    <2>5. \A name \in ListProps : Values(e, name) = PlainRows(c.list[name])
      BY <2>1, <2>2, <2>3, <2>o, ListReadsBack
    <2>6. RawValue(e, "N") = structuredName(c)
          /\ RawValue(e, "ORG") = organisationValue(c, RawValue(card, "ORG"))
      BY <2>1, <2>2, <2>3, PartsReadBack
    <2>7. Part(n, 1) = Plain(c.family) /\ Part(n, 2) = Plain(c.given)
      BY <2>3, <2>6, NamesReadBack
    <2>8. g[1] = Plain(c.org)
      <3>1. RawValue(card, "ORG") \in Text
        BY <2>1, RawValueType
      <3> QED
        BY <3>1, <2>3, <2>6, OrganisationReadsBack
    <2> HIDE DEF n, g
    <2>9. [name \in TextProps |-> Value(e, name)] = [name \in TextProps |-> Plain(c.text[name])]
      BY <2>4
    <2>10. [name \in ListProps |-> Values(e, name)] = [name \in ListProps |-> PlainRows(c.list[name])]
      BY <2>5
    <2> QED
      BY <2>r, <2>e, <2>7, <2>8, <2>9, <2>10, Zenon DEF e
  <1>2. CardInv => [A]_vars
    <2> HIDE DEF A
    <2> QED
      BY <1>1
  <1> QED
    BY <1>2, CardsInvariant, PTL DEF FormReadsBack

-----------------------------------------------------------------------------
(* Folding                                                                 *)

(* The octets of a physical line that begins after s, the space before     *)
(* them, and the line up to t.                                             *)
Width(s) == IF s = 0 THEN FoldLimit ELSE FoldLimit - 1

Glued(sp, b, s, t) == (IF s = 0 THEN <<>> ELSE <<sp>>) \o SubSeq(b, s + 1, t)

Physical(b, s, t) == Glued(" ", b, s, t)

Full(b, s) == s + Width(s) < Len(b)

End(b, s) == Cut(b, s, Width(s))

(* The body of fold's recursion.                                           *)
RestStep(b, f, s) ==
    IF s + Width(s) >= Len(b) THEN <<Physical(b, s, Len(b))>>
    ELSE <<Physical(b, s, End(b, s))>> \o f[End(b, s)]

(* A full line always has a place to be cut at.                            *)
Foldable(b) ==
    \A s \in 0..Len(b) :
      Full(b, s) => \E t \in (s + 1)..(s + Width(s)) : b[t + 1] \notin Continuation

(* A physical line has room for four bytes at least, besides the space.    *)
LEMMA WidthType ==
    ASSUME NEW s
    PROVE  Width(s) \in Nat /\ Width(s) >= 4
  BY FoldAssumption DEF Width

(* A set of numbers up to m has a greatest one.                            *)
LEMMA Greatest ==
    ASSUME NEW m \in Nat, NEW P \in SUBSET (0..m), P # {}
    PROVE  \E x \in P : \A y \in P : y <= x
  <1> DEFINE T == {n \in Nat : \A Q \in SUBSET (0..n) : Q # {} => \E x \in Q : \A y \in Q : y <= x}
  <1>1. 0 \in T
    <2> SUFFICES ASSUME NEW Q \in SUBSET (0..0), Q # {}
                 PROVE  \E x \in Q : \A y \in Q : y <= x
      OBVIOUS
    <2>1. PICK x \in Q : TRUE
      OBVIOUS
    <2>2. \A y \in Q : y = 0
      OBVIOUS
    <2> QED
      BY <2>1, <2>2
  <1>2. ASSUME NEW n \in Nat, n \in T PROVE n + 1 \in T
    <2> SUFFICES ASSUME NEW Q \in SUBSET (0..(n + 1)), Q # {}
                 PROVE  \E x \in Q : \A y \in Q : y <= x
      OBVIOUS
    <2>1. CASE n + 1 \in Q
      BY <2>1
    <2>2. CASE n + 1 \notin Q
      <3>1. Q \in SUBSET (0..n)
        BY <2>2
      <3> QED
        BY <3>1, <1>2
    <2> QED
      BY <2>1, <2>2
  <1>3. m \in T
    <2> HIDE DEF T
    <2> QED
      BY <1>1, <1>2, Induction
  <1> QED
    BY <1>3

(* A full line is cut after its first byte, at the latest where it is      *)
(* full, and not inside a character.                                       *)
LEMMA EndIs ==
    ASSUME NEW X, NEW b \in Seq(X), Foldable(b), NEW s \in 0..Len(b), Full(b, s)
    PROVE  /\ End(b, s) \in (s + 1)..(s + Width(s)) /\ End(b, s) \in 0..(Len(b) - 1)
           /\ b[End(b, s) + 1] \notin Continuation
  <1> DEFINE w == Width(s)
             P == {t \in (s + 1)..(s + w) : b[t + 1] \notin Continuation}
             e == End(b, s)
             good(t) == /\ t = s \/ b[t + 1] \notin Continuation
                        /\ \A u \in (t + 1)..(s + w) : b[u + 1] \in Continuation
  <1>1. w \in Nat /\ s \in Nat /\ Len(b) \in Nat
    BY WidthType
  <1>2. s + w < Len(b)
    BY DEF Full
  <1>3. P # {}
    BY DEF Foldable
  <1>4. e = CHOOSE t \in s..(s + w) : good(t)
    BY DEF End, Cut
  <1> HIDE DEF w, e
  <1>5. P \in SUBSET (0..(s + w)) /\ s + w \in Nat
    BY <1>1
  <1>6. PICK x \in P : \A y \in P : y <= x
    <2> HIDE DEF P
    <2> QED
      BY <1>3, <1>5, Greatest
  <1>7. x \in s..(s + w) /\ good(x)
    <2>1. x \in (s + 1)..(s + w) /\ b[x + 1] \notin Continuation
      BY <1>6
    <2>2. ASSUME NEW u \in (x + 1)..(s + w) PROVE b[u + 1] \in Continuation
      <3>1. u \in (s + 1)..(s + w) /\ ~(u <= x)
        BY <1>1, <2>1
      <3> QED
        BY <3>1, <1>6
    <2> QED
      BY <1>1, <2>1, <2>2
  <1>8. e \in s..(s + w) /\ good(e)
    <2> HIDE DEF good
    <2> QED
      BY <1>4, <1>7
  <1>9. e # s
    <2>1. x \in (s + 1)..(s + w) /\ b[x + 1] \notin Continuation
      BY <1>6
    <2> QED
      BY <1>8, <2>1
  <1>10. e \in (s + 1)..(s + w) /\ e \in 0..(Len(b) - 1) /\ b[e + 1] \notin Continuation
    BY <1>1, <1>2, <1>8, <1>9
  <1> QED
    BY <1>10 DEF e, w

(* The first physical line has no space before it.                         *)
LEMMA GluedFirst ==
    ASSUME NEW X, NEW sp, NEW b \in Seq(X), NEW t \in 0..Len(b)
    PROVE  Glued(sp, b, 0, t) = SubSeq(b, 1, t)
  <1> DEFINE u == SubSeq(b, 1, t)
  <1>1. u \in Seq(X)
    OBVIOUS
  <1>2. Glued(sp, b, 0, t) = <<>> \o u
    BY DEF Glued
  <1> HIDE DEF u
  <1>3. <<>> \o u = u
    BY <1>1
  <1> QED
    BY <1>2, <1>3 DEF u

(* A sequence with one element before it.                                  *)
LEMMA Prefixed ==
    ASSUME NEW X, NEW q \in Seq(X), NEW u \in Seq(X), Len(q) = 1
    PROVE  /\ q \o u \in Seq(X) /\ Len(q \o u) = 1 + Len(u) /\ (q \o u)[1] = q[1]
           /\ Len(u) \in Nat /\ \A i \in 1..Len(u) : (q \o u)[i + 1] = u[i]
  <1> DEFINE p == q \o u
  <1>1. Len(u) \in Nat /\ p \in Seq(X) /\ Len(p) = Len(q) + Len(u)
    <2>1. Len(u) \in Nat
      OBVIOUS
    <2>2. q \o u \in Seq(X) /\ Len(q \o u) = Len(q) + Len(u)
      BY ConcatProperties, Zenon
    <2> QED
      BY <2>1, <2>2
  <1>2. \A i \in 1..Len(p) : p[i] = IF i <= Len(q) THEN q[i] ELSE u[i - Len(q)]
    BY ConcatProperties
  <1> HIDE DEF p
  <1>3. p[1] = q[1]
    BY <1>1, <1>2
  <1>4. ASSUME NEW i \in 1..Len(u) PROVE p[i + 1] = u[i]
    <2>1. i + 1 \in 1..Len(p) /\ ~(i + 1 <= 1) /\ (i + 1) - 1 = i
      BY <1>1
    <2> QED
      BY <1>2, <2>1
  <1> QED
    BY <1>1, <1>3, <1>4 DEF p

(* What lines are made of.                                                 *)
Alphabet == Byte \cup Word \cup {":"}

(* A continuation: the space, and then the bytes.                          *)
LEMMA GluedNext ==
    ASSUME NEW sp \in Alphabet, NEW b \in Seq(Alphabet), NEW s \in 1..Len(b), NEW t \in s..Len(b), s < t
    PROVE  /\ Glued(sp, b, s, t) \in Seq(Alphabet)
           /\ Len(Glued(sp, b, s, t)) = 1 + (t - s)
           /\ Glued(sp, b, s, t)[1] = sp
           /\ Glued(sp, b, s, t)[2] = b[s + 1]
           /\ Tail(Glued(sp, b, s, t)) = SubSeq(b, s + 1, t)
  <1> DEFINE u == SubSeq(b, s + 1, t)
             p == Glued(sp, b, s, t)
  <1>1. s \in Nat /\ t \in Nat /\ Len(b) \in Nat /\ s # 0
    OBVIOUS
  <1>2. u \in Seq(Alphabet) /\ Len(u) = t - s /\ u[1] = b[s + 1]
    BY <1>1
  <1>3. p = <<sp>> \o u
    BY <1>1 DEF Glued
  <1> HIDE DEF u, p
  <1>4. p \in Seq(Alphabet) /\ Len(p) = 1 + Len(u) /\ p[1] = sp /\ Tail(p) = u
    <2> DEFINE q == <<sp>>
    <2>1. q \in Seq(Alphabet) /\ Len(q) = 1 /\ q[1] = sp /\ p = q \o u
      BY <1>3
    <2> HIDE DEF q
    <2>2. p \in Seq(Alphabet) /\ Len(p) = 1 + Len(u) /\ p[1] = sp
      BY <1>2, <2>1, Prefixed, ZenonT(30)
    <2>3. Len(u) \in Nat /\ \A i \in 1..Len(u) : p[i + 1] = u[i]
      BY <1>2, <2>1, Prefixed, ZenonT(30)
    <2>4. Tail(p) \in Seq(Alphabet) /\ Len(Tail(p)) = Len(u) /\ \A i \in 1..Len(u) : Tail(p)[i] = p[i + 1]
      BY <1>2, <2>2, <2>3
    <2>5. Tail(p) = u
      BY <1>2, <2>3, <2>4, SeqEqual
    <2> QED
      BY <2>2, <2>5
  <1>5. p[2] = u[1]
    <2>1. Len(u) \in Nat /\ Len(u) >= 1
      BY <1>1, <1>2
    <2> QED
      BY <1>2, <1>3, <2>1
  <1> QED
    BY <1>2, <1>4, <1>5 DEF u, p

(* The same of the lines fold makes: the first,                            *)
LEMMA PhysicalFirst ==
    ASSUME NEW b \in Seq(Alphabet), NEW t \in 0..Len(b)
    PROVE  /\ Physical(b, 0, t) = SubSeq(b, 1, t)
           /\ Physical(b, 0, t) \in Seq(Alphabet) /\ Len(Physical(b, 0, t)) = t
  <1>1. Physical(b, 0, t) = SubSeq(b, 1, t)
    BY GluedFirst DEF Physical
  <1>2. SubSeq(b, 1, t) \in Seq(Alphabet) /\ Len(SubSeq(b, 1, t)) = t
    OBVIOUS
  <1> QED
    BY <1>1, <1>2

(* a continuation,                                                         *)
LEMMA PhysicalNext ==
    ASSUME NEW b \in Seq(Alphabet), NEW s \in 1..Len(b), NEW t \in s..Len(b), s < t
    PROVE  /\ Physical(b, s, t) \in Seq(Alphabet)
           /\ Len(Physical(b, s, t)) = 1 + (t - s)
           /\ Physical(b, s, t)[1] = " "
           /\ Physical(b, s, t)[2] = b[s + 1]
           /\ Tail(Physical(b, s, t)) = SubSeq(b, s + 1, t)
  <1>1. " " \in Alphabet
    BY AlphabetAssumption DEF Alphabet
  <1> DEFINE sp == " "
  <1> HIDE DEF sp
  <1>2. sp \in Alphabet
    BY <1>1 DEF sp
  <1>3. Physical(b, s, t) = Glued(sp, b, s, t)
    BY DEF Physical, sp
  <1>4. /\ Glued(sp, b, s, t) \in Seq(Alphabet)
        /\ Len(Glued(sp, b, s, t)) = 1 + (t - s)
        /\ Glued(sp, b, s, t)[1] = sp
        /\ Glued(sp, b, s, t)[2] = b[s + 1]
        /\ Tail(Glued(sp, b, s, t)) = SubSeq(b, s + 1, t)
    BY <1>2, GluedNext
  <1>5. Glued(sp, b, s, t)[1] = " "
    BY <1>4 DEF sp
  <1> QED
    BY <1>3, <1>4, <1>5

(* and either.                                                             *)
LEMMA PhysicalType ==
    ASSUME NEW b \in Seq(Alphabet), NEW s \in 0..Len(b), NEW t \in s..Len(b), s < t
    PROVE  Physical(b, s, t) \in Seq(Alphabet)
  <1>1. CASE s = 0
    <2>1. t \in 0..Len(b)
      OBVIOUS
    <2> QED
      BY <1>1, <2>1, PhysicalFirst
  <1>2. CASE s # 0
    <2>1. s \in 1..Len(b)
      BY <1>2
    <2> QED
      BY <2>1, PhysicalNext
  <1> QED
    BY <1>1, <1>2

(* f and g agree after s.                                                  *)
Agree(f, g, s, N) == \A t \in (s + 1)..N : f[t] = g[t]

(* What fold makes from s on only depends on the later positions.          *)
LEMMA RestStepLocal ==
    ASSUME NEW X, NEW b \in Seq(X), Foldable(b), NEW f, NEW g, NEW s \in 0..Len(b),
           Agree(f, g, s, Len(b))
    PROVE  RestStep(b, f, s) = RestStep(b, g, s)
  <1>1. Len(b) \in Nat /\ s \in Nat /\ Width(s) \in Nat
    BY WidthType
  <1>2. CASE s + Width(s) >= Len(b)
    BY <1>2 DEF RestStep
  <1>3. CASE ~(s + Width(s) >= Len(b))
    <2>1. Full(b, s)
      BY <1>1, <1>3 DEF Full
    <2>2. End(b, s) \in (s + 1)..(s + Width(s)) /\ End(b, s) \in 0..(Len(b) - 1)
      BY <2>1, EndIs
    <2>3. End(b, s) \in (s + 1)..Len(b)
      BY <1>1, <2>2
    <2>4. f[End(b, s)] = g[End(b, s)]
      BY <2>3 DEF Agree
    <2> QED
      BY <2>4 DEF RestStep
  <1> QED
    BY <1>2, <1>3

(* The recursion of fold, solved from start m on.                          *)
Solves(b, f, m) == \A s \in m..Len(b) : f[s] = RestStep(b, f, s)

(* It has a solution: position after position, from the last.              *)
LEMMA RestExists ==
    ASSUME NEW X, NEW b \in Seq(X), Foldable(b)
    PROVE  \E f : f = [s \in 0..Len(b) |-> RestStep(b, f, s)]
  <1> DEFINE N == Len(b)
             Fun(f) == f = [s \in 0..N |-> f[s]]
             T == {m \in Nat : m <= N => \E f : Fun(f) /\ Solves(b, f, N - m)}
  <1>1. N \in Nat
    OBVIOUS
  <1> HIDE DEF N
  <1>2. 0 \in T
    <2> DEFINE f == [s \in 0..N |-> RestStep(b, <<>>, s)]
    <2>1. Fun(f)
      OBVIOUS
    <2>2. f[N] = RestStep(b, <<>>, N)
      BY <1>1
    <2> HIDE DEF f
    <2>3. Agree(<<>>, f, N, Len(b))
      BY <1>1 DEF Agree, N
    <2>4. RestStep(b, <<>>, N) = RestStep(b, f, N)
      <3>1. N \in 0..Len(b)
        BY <1>1 DEF N
      <3> DEFINE z == <<>>
      <3> HIDE DEF z
      <3>2. Agree(z, f, N, Len(b))
        BY <2>3 DEF z
      <3>3. RestStep(b, z, N) = RestStep(b, f, N)
        BY <3>1, <3>2, RestStepLocal
      <3> QED
        BY <3>3 DEF z
    <2>5. Solves(b, f, N)
      <3>1. \A s \in N..Len(b) : s = N
        BY <1>1 DEF N
      <3> QED
        BY <2>2, <2>4, <3>1 DEF Solves
    <2>6. N - 0 = N
      BY <1>1
    <2>7. Solves(b, f, N - 0)
      BY <2>5, <2>6
    <2>8. \E g : Fun(g) /\ Solves(b, g, N - 0)
      <3> HIDE DEF Fun
      <3> QED
        BY <2>1, <2>7
    <2> HIDE DEF Fun
    <2> QED
      BY <2>8
  <1>3. ASSUME NEW m \in Nat, m \in T PROVE m + 1 \in T
    <2> SUFFICES ASSUME m + 1 <= N
                 PROVE  \E f : Fun(f) /\ Solves(b, f, N - (m + 1))
      <3> HIDE DEF Fun
      <3> QED
        BY <1>3
    <2>1. PICK f : Fun(f) /\ Solves(b, f, N - m)
      <3>1. m <= N
        BY <1>1
      <3> HIDE DEF Fun
      <3> QED
        BY <1>3, <3>1
    <2> DEFINE k == N - (m + 1)
               g == [s \in 0..N |-> IF s = k THEN RestStep(b, f, k) ELSE f[s]]
    <2>2. k \in 0..N /\ k + 1 = N - m /\ k \in 0..Len(b)
      BY <1>1 DEF N
    <2> HIDE DEF k
    <2>3. g[k] = RestStep(b, f, k) /\ \A s \in 0..N : s # k => g[s] = f[s]
      BY <2>2
    <2>4. Fun(g)
      OBVIOUS
    <2> HIDE DEF g, Fun
    <2>5. ASSUME NEW s \in k..Len(b)
          PROVE  g[s] = RestStep(b, g, s)
      <3>1. s \in 0..Len(b) /\ s \in 0..N
        BY <1>1, <2>2 DEF N
      <3>2. Agree(f, g, s, Len(b))
        <4> SUFFICES ASSUME NEW t \in (s + 1)..Len(b) PROVE f[t] = g[t]
          BY DEF Agree
        <4>1. t \in 0..N /\ t # k
          BY <1>1, <2>2 DEF N
        <4> QED
          BY <4>1, <2>3
      <3>3. RestStep(b, f, s) = RestStep(b, g, s)
        BY <3>1, <3>2, RestStepLocal
      <3>4. g[s] = RestStep(b, f, s)
        <4>1. CASE s = k
          BY <4>1, <2>3
        <4>2. CASE s # k
          <5>1. s \in (N - m)..Len(b)
            BY <1>1, <2>2, <4>2
          <5>2. f[s] = RestStep(b, f, s)
            BY <5>1, <2>1 DEF Solves
          <5> QED
            BY <4>2, <5>2, <3>1, <2>3
        <4> QED
          BY <4>1, <4>2
      <3> QED
        BY <3>3, <3>4
    <2>6. Solves(b, g, k)
      BY <2>5 DEF Solves
    <2> QED
      BY <2>4, <2>6 DEF k
  <1>4. N \in T
    <2> HIDE DEF T
    <2> QED
      BY <1>1, <1>2, <1>3, Induction
  <1>5. PICK f : Fun(f) /\ Solves(b, f, N - N)
    <2> HIDE DEF Fun
    <2> QED
      BY <1>1, <1>4
  <1>6. \A s \in 0..N : f[s] = RestStep(b, f, s)
    <2>1. N - N = 0
      BY <1>1
    <2> QED
      BY <1>5, <2>1 DEF Solves, N
  <1>7. f = [s \in 0..N |-> RestStep(b, f, s)]
    BY <1>5, <1>6
  <1> QED
    BY <1>7 DEF N

(* What fold computes solves its recursion.                                *)
LEMMA FoldRest ==
    ASSUME NEW X, NEW b \in Seq(X), Foldable(b)
    PROVE  \E f : fold(b) = f[0] /\ Solves(b, f, 0)
  <1> DEFINE body(f) == [s \in 0..Len(b) |-> RestStep(b, f, s)]
             out == CHOOSE f : f = body(f)
  <1>1. fold(b) = out[0]
    BY DEF fold, RestStep, Physical, Glued, End, Width
  <1>2. \E f : f = body(f)
    BY RestExists
  <1>3. out = body(out)
    <2> HIDE DEF body
    <2> QED
      BY <1>2
  <1> HIDE DEF out
  <1>4. Solves(b, out, 0)
    BY <1>3 DEF Solves
  <1> QED
    BY <1>1, <1>4

(* L is b from position s on, cut at the positions c.                      *)
CutAt(b, s, L, c) ==
    /\ c \in [0..Len(L) -> 0..Len(b)] /\ c[0] = s /\ c[Len(L)] = Len(b)
    /\ \A k \in 1..Len(L) :
         /\ c[k - 1] < c[k] /\ c[k] <= c[k - 1] + Width(c[k - 1])
         /\ L[k] = Physical(b, c[k - 1], c[k])
         /\ k > 1 => b[c[k - 1] + 1] \notin Continuation

Cuts(b, s, L) ==
    L \in Seq(Seq(Alphabet)) /\ Len(L) >= 1 /\ \E c : CutAt(b, s, L, c)

(* The rest that fits into a line is its last piece.                       *)
LEMMA CutsLast ==
    ASSUME NEW b \in Seq(Alphabet), NEW s \in 0..(Len(b) - 1), s + Width(s) >= Len(b)
    PROVE  Cuts(b, s, <<Physical(b, s, Len(b))>>)
  <1> DEFINE p == Physical(b, s, Len(b))
             L == <<p>>
             c == [k \in 0..1 |-> IF k = 0 THEN s ELSE Len(b)]
  <1>1. Len(b) \in Nat /\ s \in Nat /\ s < Len(b) /\ Width(s) \in Nat
    BY WidthType
  <1>2. p \in Seq(Alphabet)
    <2>1. s \in 0..Len(b) /\ Len(b) \in s..Len(b)
      BY <1>1
    <2> QED
      BY <1>1, <2>1, PhysicalType
  <1> HIDE DEF p
  <1>3. L \in Seq(Seq(Alphabet)) /\ Len(L) = 1 /\ L[1] = p
    BY <1>2
  <1> HIDE DEF L
  <1>4. c \in [0..1 -> 0..Len(b)] /\ c[0] = s /\ c[1] = Len(b)
    BY <1>1
  <1> HIDE DEF c
  <1>5. ASSUME NEW k \in 1..1
        PROVE  /\ c[k - 1] < c[k] /\ c[k] <= c[k - 1] + Width(c[k - 1])
               /\ L[k] = Physical(b, c[k - 1], c[k])
               /\ ~(k > 1)
    <2>1. k = 1 /\ k - 1 = 0
      OBVIOUS
    <2>2. c[k - 1] = s /\ c[k] = Len(b) /\ L[k] = p
      BY <1>3, <1>4, <2>1
    <2> QED
      BY <1>1, <2>1, <2>2 DEF p
  <1>6. CutAt(b, s, L, c)
    BY <1>3, <1>4, <1>5 DEF CutAt
  <1>7. Cuts(b, s, L)
    BY <1>3, <1>6 DEF Cuts
  <1> QED
    BY <1>7 DEF L, p

(* A full line is a piece before the pieces of the rest.                   *)
LEMMA CutsNext ==
    ASSUME NEW b \in Seq(Alphabet), NEW s \in 0..(Len(b) - 1), NEW e \in (s + 1)..(s + Width(s)),
           e \in 0..(Len(b) - 1), b[e + 1] \notin Continuation, NEW R, Cuts(b, e, R)
    PROVE  Cuts(b, s, <<Physical(b, s, e)>> \o R)
  <1> DEFINE p == Physical(b, s, e)
             L == <<p>> \o R
  <1>1. Len(b) \in Nat /\ s \in Nat /\ s < Len(b) /\ Width(s) \in Nat /\ e \in Nat
    BY WidthType
  <1>2. p \in Seq(Alphabet)
    <2>1. s \in 0..Len(b) /\ e \in s..Len(b) /\ s < e
      BY <1>1
    <2> QED
      BY <2>1, PhysicalType
  <1>3. PICK d : CutAt(b, e, R, d)
    BY DEF Cuts
  <1>4. R \in Seq(Seq(Alphabet)) /\ Len(R) \in Nat /\ Len(R) >= 1
    BY DEF Cuts
  <1> HIDE DEF p
  <1>5. L \in Seq(Seq(Alphabet)) /\ Len(L) = 1 + Len(R) /\ L[1] = p /\ \A i \in 1..Len(R) : L[i + 1] = R[i]
    <2> DEFINE q == <<p>>
    <2>1. q \in Seq(Seq(Alphabet)) /\ Len(q) = 1 /\ q[1] = p /\ L = q \o R
      BY <1>2
    <2> HIDE DEF q, L
    <2>2. /\ q \o R \in Seq(Seq(Alphabet)) /\ Len(q \o R) = 1 + Len(R) /\ (q \o R)[1] = q[1]
          /\ Len(R) \in Nat /\ \A i \in 1..Len(R) : (q \o R)[i + 1] = R[i]
      BY <1>4, <2>1, Prefixed, SMTT(30)
    <2> QED
      BY <2>1, <2>2, Zenon
  <1> HIDE DEF L
  <1> DEFINE N == Len(R)
             c == [k \in 0..(1 + N) |-> IF k = 0 THEN s ELSE d[k - 1]]
  <1>6. d \in [0..N -> 0..Len(b)] /\ d[0] = e /\ d[N] = Len(b)
    BY <1>3 DEF CutAt
  <1>7. ASSUME NEW k \in 1..N
        PROVE  /\ d[k - 1] < d[k] /\ d[k] <= d[k - 1] + Width(d[k - 1])
               /\ R[k] = Physical(b, d[k - 1], d[k])
               /\ k > 1 => b[d[k - 1] + 1] \notin Continuation
    BY <1>3 DEF CutAt
  <1>8. N \in Nat /\ N >= 1 /\ Len(L) = 1 + N
    BY <1>4, <1>5
  <1>9. c \in [0..(1 + N) -> 0..Len(b)] /\ c[0] = s /\ \A k \in 1..(1 + N) : c[k] = d[k - 1]
    <2>1. \A k \in 0..(1 + N) : k # 0 => k - 1 \in 0..N /\ d[k - 1] \in 0..Len(b)
      BY <1>6, <1>8, SMTT(30)
    <2>2. s \in 0..Len(b)
      BY <1>1
    <2> QED
      BY <2>1, <2>2, <1>8
  <1> HIDE DEF c, N
  <1>10. c[1 + N] = Len(b)
    <2>1. 1 + N \in 1..(1 + N) /\ (1 + N) - 1 = N
      BY <1>8
    <2> QED
      BY <1>6, <1>9, <2>1
  <1>11. ASSUME NEW k \in 1..(1 + N)
         PROVE  /\ c[k - 1] < c[k] /\ c[k] <= c[k - 1] + Width(c[k - 1])
                /\ L[k] = Physical(b, c[k - 1], c[k])
                /\ k > 1 => b[c[k - 1] + 1] \notin Continuation
    <2>1. CASE k = 1
      <3>1. 1 \in 1..(1 + N) /\ 1 - 1 = 0
        BY <1>8
      <3>2. c[k - 1] = s /\ c[k] = e /\ L[k] = p
        BY <1>5, <1>6, <1>9, <2>1, <3>1
      <3> QED
        BY <1>1, <2>1, <3>2 DEF p
    <2>2. CASE k # 1
      <3> DEFINE j == k - 1
      <3>1. j \in 1..N /\ k = j + 1 /\ j - 1 \in 0..N /\ j \in 1..(1 + N)
        BY <1>8, <2>2
      <3> HIDE DEF j
      <3>2. c[k] = d[j] /\ c[j] = d[j - 1] /\ k - 1 = j
        BY <1>9, <3>1 DEF j
      <3>3. L[k] = R[j]
        BY <1>5, <3>1 DEF N
      <3>4. b[d[j - 1] + 1] \notin Continuation
        <4>1. CASE j = 1
          BY <4>1, <1>6
        <4>2. CASE j # 1
          <5>1. j > 1
            BY <3>1, <4>2
          <5> QED
            BY <5>1, <3>1, <1>7
        <4> QED
          BY <4>1, <4>2
      <3>5. /\ d[j - 1] < d[j] /\ d[j] <= d[j - 1] + Width(d[j - 1])
            /\ R[j] = Physical(b, d[j - 1], d[j])
        BY <3>1, <1>7
      <3> QED
        BY <3>2, <3>3, <3>4, <3>5
    <2> QED
      BY <2>1, <2>2
  <1>12. CutAt(b, s, L, c)
    BY <1>8, <1>9, <1>10, <1>11 DEF CutAt
  <1>13. Cuts(b, s, L)
    BY <1>5, <1>8, <1>12, SMTT(30) DEF Cuts
  <1> QED
    BY <1>13 DEF L, p

(* What fold makes of b are the pieces of b between the cuts.              *)
LEMMA FoldCuts ==
    ASSUME NEW b \in Seq(Alphabet), Foldable(b), Len(b) > 0
    PROVE  Cuts(b, 0, fold(b))
  <1>1. PICK f : fold(b) = f[0] /\ Solves(b, f, 0)
    BY FoldRest, Zenon
  <1> DEFINE N == Len(b)
             T == {m \in Nat : \A s \in 0..(N - 1) : s >= N - 1 - m => Cuts(b, s, f[s])}
  <1>2. N \in Nat /\ N > 0
    OBVIOUS
  <1>3. ASSUME NEW s \in 0..(N - 1), \A t \in (s + 1)..(N - 1) : Cuts(b, t, f[t])
        PROVE  Cuts(b, s, f[s])
    <2>1. s \in 0..Len(b) /\ s \in Nat /\ Width(s) \in Nat
      BY <1>2, WidthType
    <2>2. f[s] = RestStep(b, f, s)
      BY <2>1, <1>1 DEF Solves
    <2>3. CASE s + Width(s) >= Len(b)
      <3>1. f[s] = <<Physical(b, s, Len(b))>>
        BY <2>2, <2>3 DEF RestStep
      <3> QED
        BY <3>1, <2>3, CutsLast
    <2>4. CASE ~(s + Width(s) >= Len(b))
      <3> DEFINE e == End(b, s)
      <3>1. Full(b, s)
        BY <1>2, <2>1, <2>4 DEF Full
      <3>2. e \in (s + 1)..(s + Width(s)) /\ e \in 0..(Len(b) - 1) /\ b[e + 1] \notin Continuation
        BY <2>1, <3>1, EndIs
      <3>3. f[s] = <<Physical(b, s, e)>> \o f[e]
        BY <2>2, <2>4 DEF RestStep
      <3> HIDE DEF e
      <3>4. e \in (s + 1)..(N - 1)
        BY <1>2, <2>1, <3>2
      <3>5. Cuts(b, e, f[e])
        BY <1>3, <3>4
      <3> QED
        BY <3>2, <3>3, <3>5, CutsNext
    <2> QED
      BY <2>3, <2>4
  <1> HIDE DEF N
  <1>4. 0 \in T
    <2> SUFFICES ASSUME NEW s \in 0..(N - 1), s >= N - 1 - 0 PROVE Cuts(b, s, f[s])
      OBVIOUS
    <2>1. \A t \in (s + 1)..(N - 1) : Cuts(b, t, f[t])
      BY <1>2
    <2> QED
      BY <2>1, <1>3
  <1>5. ASSUME NEW m \in Nat, m \in T PROVE m + 1 \in T
    <2> SUFFICES ASSUME NEW s \in 0..(N - 1), s >= N - 1 - (m + 1) PROVE Cuts(b, s, f[s])
      OBVIOUS
    <2>1. ASSUME NEW t \in (s + 1)..(N - 1) PROVE Cuts(b, t, f[t])
      <3>1. t \in 0..(N - 1) /\ t >= N - 1 - m
        BY <1>2
      <3> QED
        BY <1>5, <3>1
    <2> QED
      BY <2>1, <1>3
  <1>6. N \in T
    <2> HIDE DEF T
    <2> QED
      BY <1>2, <1>4, <1>5, Induction
  <1>7. Cuts(b, 0, f[0])
    <2>1. 0 \in 0..(N - 1) /\ 0 >= N - 1 - N
      BY <1>2
    <2> QED
      BY <1>6, <2>1
  <1> QED
    BY <1>1, <1>7

(* One line more in unfold.                                                *)
Piece(L, n) == IF n > 1 /\ L[n][1] = " " THEN Tail(L[n]) ELSE L[n]

(* unfold takes off exactly the spaces fold has put there.                 *)
LEMMA PieceIs ==
    ASSUME NEW b \in Seq(Alphabet), NEW L, Len(L) \in Nat, NEW c, CutAt(b, 0, L, c),
           NEW n \in 1..Len(L)
    PROVE  /\ c[n - 1] \in 0..Len(b) /\ c[n] \in 0..Len(b) /\ c[n - 1] < c[n]
           /\ Piece(L, n) = SubSeq(b, c[n - 1] + 1, c[n])
  <1> DEFINE s == c[n - 1]
             t == c[n]
  <1>1. n - 1 \in 0..Len(L) /\ n \in 0..Len(L) /\ Len(b) \in Nat
    OBVIOUS
  <1>2. s \in 0..Len(b) /\ t \in 0..Len(b) /\ s < t /\ L[n] = Physical(b, s, t)
    BY <1>1 DEF CutAt
  <1>3. CASE n = 1
    <2>1. s = 0 /\ ~(n > 1)
      BY <1>3 DEF CutAt
    <2>2. Piece(L, n) = Physical(b, 0, t)
      BY <1>2, <2>1 DEF Piece
    <2> HIDE DEF s, t
    <2>3. Physical(b, 0, t) = SubSeq(b, 1, t)
      BY <1>2, PhysicalFirst
    <2>4. s + 1 = 1
      BY <2>1
    <2>5. Piece(L, n) = SubSeq(b, s + 1, t)
      BY <2>2, <2>3, <2>4
    <2> QED
      BY <1>2, <2>5 DEF s, t
  <1>4. CASE n # 1
    <2>1. n - 1 \in 1..Len(L) /\ (n - 1) - 1 \in 0..Len(L) /\ n > 1
      BY <1>4
    <2>2. c[(n - 1) - 1] < c[n - 1] /\ c[(n - 1) - 1] \in 0..Len(b)
      BY <2>1 DEF CutAt
    <2> HIDE DEF t
    <2>3. s \in 1..Len(b) /\ t \in s..Len(b)
      BY <1>1, <1>2, <2>2
    <2> HIDE DEF s
    <2>4. Physical(b, s, t)[1] = " " /\ Tail(Physical(b, s, t)) = SubSeq(b, s + 1, t)
      BY <1>2, <2>3, PhysicalNext
    <2>5. Piece(L, n) = SubSeq(b, s + 1, t)
      BY <1>2, <2>1, <2>4 DEF Piece
    <2> QED
      BY <1>2, <2>5 DEF s, t
  <1> QED
    BY <1>3, <1>4

(* The bytes up to s and those from s to t are those up to t.              *)
LEMMA SubSeqJoins ==
    ASSUME NEW X, NEW b \in Seq(X), NEW s \in 0..Len(b), NEW t \in 0..Len(b), s < t
    PROVE  SubSeq(b, 1, t) = SubSeq(b, 1, s) \o SubSeq(b, s + 1, t)
  <1> DEFINE u == SubSeq(b, 1, t)
             v == SubSeq(b, 1, s)
             w == SubSeq(b, s + 1, t)
  <1>1. Len(b) \in Nat /\ s \in Nat /\ t \in Nat
    OBVIOUS
  <1>2. u \in Seq(X) /\ Len(u) = t /\ \A i \in 1..t : u[i] = b[i]
    BY <1>1
  <1>3. v \in Seq(X) /\ Len(v) = s /\ \A i \in 1..s : v[i] = b[i]
    BY <1>1
  <1>4. w \in Seq(X) /\ Len(w) = t - s /\ \A i \in 1..(t - s) : w[i] = b[s + i]
    BY <1>1
  <1> HIDE DEF u, v, w
  <1>5. v \o w \in Seq(X) /\ Len(v \o w) = t
    <2>1. v \o w \in Seq(X) /\ Len(v \o w) = Len(v) + Len(w)
      BY <1>3, <1>4, ConcatProperties, Zenon
    <2> QED
      BY <1>1, <1>3, <1>4, <2>1
  <1>6. \A i \in 1..t : (v \o w)[i] = IF i <= s THEN v[i] ELSE w[i - s]
    <2>1. Len(v) + Len(w) = t
      BY <1>1, <1>3, <1>4
    <2> QED
      BY <2>1, <1>3, <1>4, ConcatProperties
  <1>7. ASSUME NEW i \in 1..t PROVE u[i] = (v \o w)[i]
    <2>1. CASE i <= s
      BY <1>1, <1>2, <1>3, <1>6, <2>1, SMTT(30)
    <2>2. CASE ~(i <= s)
      <3>1. i - s \in 1..(t - s) /\ s + (i - s) = i
        BY <1>1, <2>2
      <3> QED
        BY <1>2, <1>4, <1>6, <2>2, <3>1
    <2> QED
      BY <2>1, <2>2
  <1>8. u = v \o w
    BY <1>2, <1>5, <1>7, SeqEqual
  <1> QED
    BY <1>8 DEF u, v, w

(* Unfolding puts the pieces together again.                               *)
LEMMA UnfoldCuts ==
    ASSUME NEW b \in Seq(Alphabet), NEW L, Cuts(b, 0, L)
    PROVE  unfold(L) = b
  <1> DEFINE N == Len(L)
             e == <<>>
             body(f) == [n \in 0..N |-> IF n = 0 THEN e ELSE f[n - 1] \o Piece(L, n)]
             out == CHOOSE f : f = body(f)
  <1>1. unfold(L) = out[N]
    BY DEF unfold, Piece
  <1>2. N \in Nat /\ N >= 1
    BY DEF Cuts
  <1>3. PICK c : CutAt(b, 0, L, c)
    BY DEF Cuts
  <1>4. c[0] = 0 /\ c[N] = Len(b) /\ \A n \in 0..N : c[n] \in 0..Len(b)
    BY <1>2, <1>3 DEF CutAt
  <1> DEFINE g == [n \in 0..N |-> SubSeq(b, 1, c[n])]
  <1>5. g[0] = e
    <2>1. 0 \in 0..N
      BY <1>2
    <2>2. SubSeq(b, 1, 0) = <<>>
      OBVIOUS
    <2> HIDE DEF N
    <2> QED
      BY <1>4, <2>1, <2>2
  <1>6. \A n \in 0..N : g[n] = SubSeq(b, 1, c[n])
    OBVIOUS
  <1>7. g[N] = b
    <2>1. N \in 0..N
      BY <1>2
    <2>2. SubSeq(b, 1, Len(b)) = b
      OBVIOUS
    <2> QED
      BY <1>4, <1>6, <2>1, <2>2
  <1>8. g = [n \in 0..N |-> g[n]]
    OBVIOUS
  <1> HIDE DEF g, e
  <1>9. ASSUME NEW n \in 1..N PROVE g[n] = g[n - 1] \o Piece(L, n)
    <2>1. n \in 0..N /\ n - 1 \in 0..N
      BY <1>2
    <2>2. /\ c[n - 1] \in 0..Len(b) /\ c[n] \in 0..Len(b) /\ c[n - 1] < c[n]
          /\ Piece(L, n) = SubSeq(b, c[n - 1] + 1, c[n])
      BY <1>2, <1>3, PieceIs
    <2>3. SubSeq(b, 1, c[n]) = SubSeq(b, 1, c[n - 1]) \o SubSeq(b, c[n - 1] + 1, c[n])
      BY <2>2, SubSeqJoins
    <2> QED
      BY <2>1, <2>2, <2>3, <1>6
  <1> HIDE DEF N
  <1>10. g = body(g)
    <2>1. \A n \in 0..N : n # 0 => n \in 1..N
      BY <1>2
    <2>2. \A n \in 0..N : g[n] = IF n = 0 THEN e ELSE g[n - 1] \o Piece(L, n)
      BY <2>1, <1>5, <1>9
    <2> QED
      BY <1>8, <2>2
  <1>11. out = body(out)
    <2> HIDE DEF body
    <2> QED
      BY <1>10
  <1> HIDE DEF out
  <1>12. out[0] = e /\ \A n \in 1..N : out[n] = out[n - 1] \o Piece(L, n)
    <2>1. 0 \in 0..N /\ \A n \in 1..N : n \in 0..N /\ n # 0
      BY <1>2
    <2> QED
      BY <2>1, <1>11
  <1>13. Follows(out, g, N)
    BY <1>5, <1>9, <1>12 DEF Follows
  <1>14. out[N] = g[N]
    BY <1>2, <1>13, SameSteps
  <1> QED
    BY <1>1, <1>7, <1>14

(* No line is longer than the limit, and no continuation begins inside a   *)
(* character.                                                              *)
LEMMA CutLines ==
    ASSUME NEW b \in Seq(Alphabet), NEW L, Cuts(b, 0, L), NEW k \in DOMAIN L
    PROVE  Len(L[k]) <= FoldLimit /\ (k > 1 => L[k][2] \notin Continuation)
  <1>1. PICK c : CutAt(b, 0, L, c)
    BY DEF Cuts
  <1>2. L \in Seq(Seq(Alphabet)) /\ Len(L) \in Nat /\ k \in 1..Len(L)
    BY DEF Cuts
  <1> DEFINE s == c[k - 1]
             t == c[k]
  <1>3. s \in 0..Len(b) /\ t \in 0..Len(b) /\ s < t
    BY <1>1, <1>2, PieceIs
  <1>4. L[k] = Physical(b, s, t) /\ t <= s + Width(s) /\ (k > 1 => b[s + 1] \notin Continuation)
    BY <1>1, <1>2 DEF CutAt
  <1>5. k > 1 => s # 0
    <2> SUFFICES ASSUME k > 1 PROVE s # 0
      OBVIOUS
    <2>1. k - 1 \in 1..Len(L)
      BY <1>2
    <2>2. c[(k - 1) - 1] \in 0..Len(b) /\ c[(k - 1) - 1] < c[k - 1]
      BY <1>1, <1>2, <2>1, PieceIs
    <2> QED
      BY <1>3, <2>2
  <1>6. k = 1 => s = 0
    BY <1>1 DEF CutAt
  <1> HIDE DEF s, t
  <1>7. CASE s = 0
    <2>1. Len(L[k]) = t
      BY <1>3, <1>4, <1>7, PhysicalFirst
    <2>2. Width(s) = FoldLimit
      BY <1>7 DEF Width
    <2> QED
      BY <1>3, <1>4, <1>5, <1>7, <2>1, <2>2, FoldAssumption
  <1>8. CASE s # 0
    <2>1. s \in 1..Len(b) /\ t \in s..Len(b)
      BY <1>3, <1>8
    <2>2. Len(L[k]) = 1 + (t - s) /\ L[k][2] = b[s + 1]
      BY <1>3, <1>4, <2>1, PhysicalNext
    <2>3. Width(s) = FoldLimit - 1
      BY <1>8 DEF Width
    <2> QED
      BY <1>3, <1>4, <2>2, <2>3, FoldAssumption
  <1> QED
    BY <1>7, <1>8

(* A line of UTF-8 always has a place to be cut at: four bytes that        *)
(* continue a character do not follow each other.                          *)
LEMMA LineFoldable ==
    ASSUME NEW name \in Word, NEW v \in Text, UTF8(v)
    PROVE  LET b == <<name, ":">> \o v
           IN  b \in Seq(Alphabet) /\ Len(b) > 0 /\ Foldable(b)
  <1> DEFINE q == <<name, ":">>
             b == q \o v
  <1>1. q \in Seq(Alphabet) /\ Len(q) = 2 /\ q[2] = ":"
    BY DEF Alphabet
  <1>2. v \in Seq(Alphabet) /\ Len(v) \in Nat
    <2>1. Byte \subseteq Alphabet
      BY DEF Alphabet
    <2>2. v \in Seq(Byte)
      BY DEF Text
    <2>3. \A i \in 1..Len(v) : v[i] \in Alphabet
      BY <2>1, <2>2
    <2> QED
      BY <2>2, <2>3
  <1> HIDE DEF q
  <1>3. b \in Seq(Alphabet) /\ Len(b) = 2 + Len(v)
    <2>1. b \in Seq(Alphabet) /\ Len(b) = Len(q) + Len(v)
      BY <1>1, <1>2, ConcatProperties, Zenon
    <2> QED
      BY <1>1, <2>1
  <1>4. b[2] = ":" /\ \A i \in 1..Len(v) : b[i + 2] = v[i]
    <2>1. \A i \in 1..(Len(q) + Len(v)) : b[i] = IF i <= Len(q) THEN q[i] ELSE v[i - Len(q)]
      BY <1>1, <1>2, ConcatProperties
    <2> HIDE DEF b
    <2>2. b[2] = ":"
      BY <1>1, <1>2, <2>1
    <2>3. ASSUME NEW i \in 1..Len(v) PROVE b[i + 2] = v[i]
      <3>1. i + 2 \in 1..(Len(q) + Len(v)) /\ ~(i + 2 <= Len(q)) /\ (i + 2) - Len(q) = i
        BY <1>1, <1>2
      <3> QED
        BY <2>1, <3>1
    <2> QED
      BY <2>2, <2>3
  <1> HIDE DEF b
  <1>5. ASSUME NEW s \in 0..Len(b), Full(b, s),
               \A t \in (s + 1)..(s + Width(s)) : b[t + 1] \in Continuation
        PROVE  FALSE
    <2>1. s \in Nat /\ Width(s) \in Nat /\ Width(s) >= 4 /\ s + Width(s) < 2 + Len(v)
      BY <1>2, <1>3, <1>5, WidthType DEF Full
    <2>2. s # 0
      <3> SUFFICES ASSUME s = 0 PROVE FALSE
        OBVIOUS
      <3>1. 1 \in (s + 1)..(s + Width(s)) /\ 1 + 1 = 2
        BY <2>1
      <3>2. b[2] \in Continuation
        BY <1>5, <3>1
      <3> QED
        BY <3>2, <1>4, FoldAssumption
    <2>3. ASSUME NEW i \in s..(s + 3) PROVE i \in 1..Len(v) /\ v[i] \in Continuation
      <3>1. i \in 1..Len(v) /\ i + 1 \in (s + 1)..(s + Width(s)) /\ (i + 1) + 1 = i + 2
        BY <1>2, <2>1, <2>2
      <3>2. b[(i + 1) + 1] \in Continuation
        BY <1>5, <3>1
      <3> QED
        BY <1>4, <3>1, <3>2
    <2>4. s + 3 \in DOMAIN v /\ v[s + 3] \in Continuation
      <3>1. s + 3 \in s..(s + 3)
        BY <2>1
      <3>2. s + 3 \in 1..Len(v) /\ v[s + 3] \in Continuation
        BY <3>1, <2>3
      <3> QED
        BY <1>2, <3>2
    <2>5. PICK j \in 1..3 : j < s + 3 /\ v[(s + 3) - j] \in Lead
      BY <2>4 DEF UTF8
    <2>6. (s + 3) - j \in s..(s + 3)
      BY <2>1, <2>5
    <2>7. v[(s + 3) - j] \in Continuation
      BY <2>3, <2>6
    <2> QED
      BY <2>5, <2>7, FoldAssumption
  <1>6. Foldable(b)
    BY <1>5 DEF Foldable
  <1>7. Len(b) > 0
    BY <1>2, <1>3
  <1>8. b \in Seq(Alphabet) /\ Len(b) > 0 /\ Foldable(b)
    BY <1>3, <1>6, <1>7
  <1> QED
    BY <1>8 DEF b, q

(* What the server writes and folds is read back as it was, fits into the  *)
(* limit, and is never cut inside a character (fold, nextLogicalLine and   *)
(* unfold), however long a line is and wherever its characters fall.       *)
THEOREM CleanFolds == Spec => []FoldsCleanly
  <1>1. TypeOK => FoldsCleanly
    <2> SUFFICES ASSUME TypeOK, card # NoCard, NEW i \in DOMAIN card, UTF8(card[i].value)
                 PROVE  LET bytes == <<card[i].name, ":">> \o card[i].value
                            lines == fold(bytes)
                        IN  /\ unfold(lines) = bytes
                            /\ \A k \in DOMAIN lines :
                                 /\ Len(lines[k]) <= FoldLimit
                                 /\ k > 1 => lines[k][2] \notin Continuation
      BY DEF FoldsCleanly
    <2> DEFINE b == <<card[i].name, ":">> \o card[i].value
    <2>1. card \in Seq(Line)
      BY DEF TypeOK
    <2>2. card[i] \in Line
      BY <2>1
    <2>3. card[i].name \in Word /\ card[i].value \in Text
      BY <2>2 DEF Line
    <2>4. b \in Seq(Alphabet) /\ Len(b) > 0 /\ Foldable(b)
      BY <2>3, LineFoldable
    <2> HIDE DEF b
    <2>5. Cuts(b, 0, fold(b))
      BY <2>4, FoldCuts
    <2>6. unfold(fold(b)) = b
      BY <2>4, <2>5, UnfoldCuts
    <2>7. \A k \in DOMAIN fold(b) :
            Len(fold(b)[k]) <= FoldLimit /\ (k > 1 => fold(b)[k][2] \notin Continuation)
      BY <2>4, <2>5, CutLines
    <2> QED
      BY <2>6, <2>7 DEF b
  <1> QED
    BY <1>1, CardType, PTL
=============================================================================
