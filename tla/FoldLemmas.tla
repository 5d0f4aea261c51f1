----------------------------- MODULE FoldLemmas -----------------------------
(***************************************************************************)
(* What a fold over a sequence computes. FoldLeft of SequencesExt is a     *)
(* function on the sets of positions, defined by recursion; that there is  *)
(* such a function, and what it is at 1 .. n, is shown here by induction   *)
(* over sets of numbers.                                                   *)
(***************************************************************************)
EXTENDS Naturals, Sequences, FiniteSetsExt, WellFoundedInduction, TLAPS

\* Every set of numbers that is not empty has a least one.
LEMMA LeastNumber ==
    ASSUME NEW T, T \subseteq Nat, T # {}
    PROVE  \E x \in T : \A y \in T : x <= y
<1>1. PICK R : R = {ss \in Nat \X Nat : ss[1] < ss[2]}
  OBVIOUS
<1>2. IsWellFoundedOn(R, Nat)
  BY <1>1, NatLessThanWellFounded, Zenon DEF OpToRel
<1>3. PICK x \in T : \A y \in T : <<y, x>> \notin R
  BY <1>2, WFMin, Zenon
<1>4. \A y \in T : ~(y < x)
  BY <1>1, <1>3
<1> QED
  BY <1>3, <1>4

\* A set that has 0, and with a number the next one, has all of them.
LEMMA NumbersByInduction ==
    ASSUME NEW S, 0 \in S, \A n \in Nat : n \in S => n + 1 \in S
    PROVE  \A n \in Nat : n \in S
<1> DEFINE T == {n \in Nat : n \notin S}
<1>1. SUFFICES ASSUME T # {} PROVE FALSE
  OBVIOUS
<1>2. PICK x \in T : \A y \in T : x <= y
  BY <1>1, LeastNumber
<1>3. x - 1 \in Nat /\ x - 1 \in S
  BY <1>2
<1> QED
  BY <1>2, <1>3

\* Max of a set of positions is its greatest member.
LEMMA GreatestPosition ==
    ASSUME NEW n \in Nat, NEW s \in SUBSET (1 .. n), s # {}
    PROVE  Max(s) \in s /\ \A y \in s : Max(s) >= y
<1> DEFINE T == {m \in Nat : \A y \in s : y <= m}
<1>1. n \in T
  OBVIOUS
<1>2. PICK x \in T : \A y \in T : x <= y
  <2> HIDE DEF T
  <2>1. T \subseteq Nat
    BY DEF T
  <2> QED
    BY <1>1, <2>1, LeastNumber
<1>3. x \in s
  <2> SUFFICES ASSUME x \notin s PROVE FALSE
    OBVIOUS
  <2>1. PICK y \in s : TRUE
    OBVIOUS
  <2>2. x - 1 \in T
    BY <2>1, <1>2
  <2> QED
    BY <1>2, <2>2
<1>4. \E m \in s : \A y \in s : m >= y
  BY <1>2, <1>3
<1> QED
  BY <1>4 DEF Max

\* Min of a set of numbers is its least member.
LEMMA LeastOf ==
    ASSUME NEW T, T \subseteq Nat, T # {}
    PROVE  Min(T) \in T /\ \A y \in T : Min(T) <= y
BY LeastNumber DEF Min

\* Taking the greatest of some positions of a sequence.
LEMMA TakeGreatest ==
    ASSUME NEW M, NEW q \in Seq(M), NEW s \in SUBSET DOMAIN q, s # {}
    PROVE  q[Max(s)] \in M /\ s \ {Max(s)} \in SUBSET DOMAIN q
<1>1. DOMAIN q = 1 .. Len(q) /\ Len(q) \in Nat
  OBVIOUS
<1>2. Max(s) \in s
  BY <1>1, GreatestPosition
<1> QED
  BY <1>2

-----------------------------------------------------------------------------
(* Functions on the sets of positions 1 .. n that take away the greatest   *)
(* position and apply F to what the others come to and to that position.   *)

Steps(A, M) == [A \X M -> A]

PositionTables(A, a0, F, n) ==
    {it \in [SUBSET (1 .. n) -> A] :
        \A s \in SUBSET (1 .. n) :
            it[s] = IF s = {} THEN a0 ELSE F[<<it[s \ {Max(s)}], Max(s)>>]}

\* There is such a function.
LEMMA TableExists ==
    ASSUME NEW A, NEW a0 \in A, NEW N \in Nat, NEW F \in Steps(A, 1 .. N)
    PROVE  PositionTables(A, a0, F, N) # {}
<1> USE DEF Steps
<1> DEFINE Tables(n) == PositionTables(A, a0, F, n)
           S == {n \in Nat : n <= N => Tables(n) # {}}
<1>1. 0 \in S
  <2>1. SUBSET (1 .. 0) = {{}}
    OBVIOUS
  <2>2. [s \in SUBSET (1 .. 0) |-> a0] \in [SUBSET (1 .. 0) -> A]
    OBVIOUS
  <2>3. [s \in SUBSET (1 .. 0) |-> a0] \in Tables(0)
    BY <2>1, <2>2 DEF PositionTables
  <2> QED
    BY <2>3
<1>2. ASSUME NEW n \in Nat, n \in S PROVE n + 1 \in S
  <2> HIDE DEF Tables
  <2> SUFFICES ASSUME n + 1 <= N PROVE Tables(n + 1) # {}
    BY <1>2
  <2>0. Tables(n) # {}
    BY <1>2
  <2>1. PICK it \in Tables(n) : TRUE
    BY <2>0
  <2> USE DEF Tables, PositionTables
  <2> DEFINE last(s) == F[<<it[s \ {n + 1}], n + 1>>]
             jt == [s \in SUBSET (1 .. n + 1) |-> IF n + 1 \in s THEN last(s) ELSE it[s]]
  <2>2. ASSUME NEW s \in SUBSET (1 .. n + 1)
        PROVE  s \ {n + 1} \in SUBSET (1 .. n)
    OBVIOUS
  <2>3. \A s \in SUBSET (1 .. n + 1) : n + 1 \notin s => s \in SUBSET (1 .. n)
    OBVIOUS
  <2>4. \A s \in SUBSET (1 .. n + 1) : last(s) \in A
    BY <2>2
  <2>5. jt \in [SUBSET (1 .. n + 1) -> A]
    BY <2>3, <2>4
  <2>6. ASSUME NEW s \in SUBSET (1 .. n + 1)
        PROVE  jt[s] = IF s = {} THEN a0 ELSE F[<<jt[s \ {Max(s)}], Max(s)>>]
    <3>1. CASE n + 1 \in s
      <4>1. Max(s) = n + 1
        <5>1. n + 1 \in Nat /\ s # {}
          BY <3>1
        <5>2. Max(s) \in s /\ Max(s) >= n + 1
          BY <5>1, <3>1, GreatestPosition
        <5>3. Max(s) \in 1 .. n + 1
          BY <5>2
        <5> QED
          BY <5>2, <5>3
      <4>2. jt[s \ {n + 1}] = it[s \ {n + 1}]
        BY <2>2
      <4> QED
        BY <3>1, <4>1, <4>2
    <3>2. CASE n + 1 \notin s
      <4>1. s \in SUBSET (1 .. n) /\ jt[s] = it[s]
        BY <3>2, <2>3
      <4>2. CASE s = {}
        BY <4>1, <4>2, <2>1
      <4>3. CASE s # {}
        <5>1. s \ {Max(s)} \in SUBSET (1 .. n + 1) /\ n + 1 \notin s \ {Max(s)}
          BY <3>2
        <5>2. jt[s \ {Max(s)}] = it[s \ {Max(s)}]
          BY <5>1
        <5> QED
          BY <4>1, <4>3, <5>2, <2>1
      <4> QED
        BY <4>2, <4>3
    <3> QED
      BY <3>1, <3>2
  <2>7. jt \in Tables(n + 1)
    BY <2>5, <2>6
  <2> QED
    BY <2>7
<1>3. \A n \in Nat : n \in S
  <2> HIDE DEF S
  <2> QED
    BY <1>1, <1>2, NumbersByInduction
<1>4. Tables(N) # {}
  <2> HIDE DEF Tables
  <2> QED
    BY <1>3
<1> QED
  BY <1>4

\* What behaves like one wherever it is in A.
LikePositionTable(A, a0, F, n, it) ==
    /\ it[{}] = a0
    /\ \A s \in SUBSET (1 .. n) :
          s # {} /\ it[s \ {Max(s)}] \in A => it[s] = F[<<it[s \ {Max(s)}], Max(s)>>]

\* It steps through the positions from the first to the last: at 1 .. k it is
\* what k steps come to.
LEMMA TableRuns ==
    ASSUME NEW A, NEW a0 \in A, NEW N \in Nat, NEW F \in Steps(A, 1 .. N),
           NEW it, LikePositionTable(A, a0, F, N, it)
    PROVE  /\ \A k \in 0 .. N : it[1 .. k] \in A
           /\ it[1 .. 0] = a0
           /\ \A k \in 1 .. N : it[1 .. k] = F[<<it[1 .. k - 1], k>>]
<1> USE DEF Steps, LikePositionTable
<1> DEFINE S == {n \in Nat : n <= N => it[1 .. n] \in A}
<1>1. 1 .. 0 = {}
  OBVIOUS
<1>2. 0 \in S
  BY <1>1
<1>3. ASSUME NEW n \in Nat, n + 1 <= N, it[1 .. n] \in A
      PROVE  it[1 .. n + 1] = F[<<it[1 .. n], n + 1>>]
  <2>1. 1 .. n + 1 \in SUBSET (1 .. N) /\ n + 1 \in 1 .. n + 1 /\ n + 1 \in Nat
    BY <1>3
  <2>2. Max(1 .. n + 1) = n + 1
    <3> DEFINE s == 1 .. n + 1
    <3>1. s \in SUBSET (1 .. n + 1) /\ s # {} /\ n + 1 \in s
      BY <2>1
    <3>2. Max(s) \in s /\ Max(s) >= n + 1
      <4> HIDE DEF s
      <4> QED
        BY <2>1, <3>1, GreatestPosition
    <3> QED
      BY <3>2
  <2>3. (1 .. n + 1) \ {n + 1} = 1 .. n
    OBVIOUS
  <2> QED
    BY <1>3, <2>1, <2>2, <2>3
<1>4. ASSUME NEW n \in Nat, n \in S PROVE n + 1 \in S
  <2> SUFFICES ASSUME n + 1 <= N PROVE it[1 .. n + 1] \in A
    OBVIOUS
  <2>1. it[1 .. n] \in A /\ n + 1 \in 1 .. N
    BY <1>4
  <2> QED
    BY <2>1, <1>3
<1>5. \A n \in Nat : n \in S
  <2> HIDE DEF S
  <2> QED
    BY <1>2, <1>4, NumbersByInduction
<1>6. \A n \in 0 .. N : it[1 .. n] \in A
  BY <1>5
<1>7. \A k \in 1 .. N : it[1 .. k] = F[<<it[1 .. k - 1], k>>]
  <2> TAKE k \in 1 .. N
  <2>1. k - 1 \in Nat /\ (k - 1) + 1 = k /\ k - 1 \in 0 .. N
    OBVIOUS
  <2> QED
    BY <2>1, <1>3, <1>6
<1> QED
  BY <1>1, <1>6, <1>7

-----------------------------------------------------------------------------
(* What steps of a function G, one per member of a sequence q, come to.    *)

Runs(A, G, v, q) ==
    {w \in [0 .. Len(q) -> A] :
        w[0] = v /\ \A k \in 1 .. Len(q) : w[k] = G[<<w[k - 1], q[k]>>]}

Outcome(A, G, v, q) == (CHOOSE w \in Runs(A, G, v, q) : TRUE)[Len(q)]

\* The tables of which FoldLeft takes the entry at all positions.
FoldTables(A, G, v, q) ==
    {it \in [SUBSET DOMAIN q -> A] :
        \A s \in SUBSET DOMAIN q :
            it[s] = IF s = {} THEN v ELSE G[<<it[s \ {Max(s)}], q[Max(s)]>>]}

\* There is one.
LEMMA FoldTableExists ==
    ASSUME NEW A, NEW M, NEW G \in Steps(A, M), NEW v \in A, NEW q \in Seq(M)
    PROVE  FoldTables(A, G, v, q) # {}
<1> DEFINE N == Len(q)
           F == [x \in A \X (1 .. N) |-> G[<<x[1], q[x[2]]>>]]
<1>1. N \in Nat /\ DOMAIN q = 1 .. N /\ F \in Steps(A, 1 .. N)
  BY DEF Steps
<1>2. PositionTables(A, v, F, N) # {}
  <2> HIDE DEF N, F
  <2> QED
    BY <1>1, TableExists
<1>3. PICK it \in PositionTables(A, v, F, N) : TRUE
  <2> HIDE DEF N, F
  <2> QED
    BY <1>2
<1>4. ASSUME NEW s \in SUBSET (1 .. N), s # {}
      PROVE  F[<<it[s \ {Max(s)}], Max(s)>>] = G[<<it[s \ {Max(s)}], q[Max(s)]>>]
  <2>1. Max(s) \in s
    <3> HIDE DEF N
    <3> QED
      BY <1>1, <1>4, GreatestPosition
  <2>2. it[s \ {Max(s)}] \in A /\ Max(s) \in 1 .. N
    <3> HIDE DEF N, F
    <3> QED
      BY <1>3, <2>1 DEF PositionTables
  <2> QED
    BY <2>2
<1>5. it \in FoldTables(A, G, v, q)
  <2> HIDE DEF N, F
  <2> QED
    BY <1>1, <1>3, <1>4 DEF PositionTables, FoldTables
<1> QED
  BY <1>5

\* What behaves like such a table wherever it is in A.
LikeFoldTable(A, G, v, q, it) ==
    /\ it[{}] = v
    /\ \A s \in SUBSET DOMAIN q :
          s # {} /\ it[s \ {Max(s)}] \in A => it[s] = G[<<it[s \ {Max(s)}], q[Max(s)]>>]

\* It goes through a run.
LEMMA FoldTableRuns ==
    ASSUME NEW A, NEW M, NEW G \in Steps(A, M), NEW v \in A, NEW q \in Seq(M),
           NEW it, LikeFoldTable(A, G, v, q, it)
    PROVE  [k \in 0 .. Len(q) |-> it[1 .. k]] \in Runs(A, G, v, q)
<1> DEFINE N == Len(q)
           F == [x \in A \X (1 .. N) |-> G[<<x[1], q[x[2]]>>]]
           w == [k \in 0 .. N |-> it[1 .. k]]
<1>1. N \in Nat /\ DOMAIN q = 1 .. N /\ F \in Steps(A, 1 .. N)
  BY DEF Steps
<1>2. ASSUME NEW s \in SUBSET (1 .. N), s # {}, it[s \ {Max(s)}] \in A
      PROVE  it[s] = F[<<it[s \ {Max(s)}], Max(s)>>]
  <2>1. Max(s) \in s
    <3> HIDE DEF N
    <3> QED
      BY <1>1, <1>2, GreatestPosition
  <2>2. Max(s) \in 1 .. N
    BY <1>2, <2>1
  <2> QED
    BY <1>1, <1>2, <2>2 DEF LikeFoldTable
<1>3. LikePositionTable(A, v, F, N, it)
  <2> HIDE DEF F, N
  <2> QED
    BY <1>2 DEF LikePositionTable, LikeFoldTable
<1>4. /\ \A k \in 0 .. N : it[1 .. k] \in A
      /\ it[1 .. 0] = v
      /\ \A k \in 1 .. N : it[1 .. k] = F[<<it[1 .. k - 1], k>>]
  <2> HIDE DEF N, F
  <2> QED
    BY <1>1, <1>3, TableRuns
<1>5. \A k \in 1 .. N : F[<<it[1 .. k - 1], k>>] = G[<<it[1 .. k - 1], q[k]>>]
  <2> TAKE k \in 1 .. N
  <2>1. k - 1 \in 0 .. N
    BY <1>1
  <2>2. it[1 .. k - 1] \in A
    BY <1>4, <2>1
  <2> QED
    BY <2>2
<1>6. w \in [0 .. N -> A] /\ w[0] = v
  BY <1>1, <1>4
<1>7. ASSUME NEW k \in 1 .. N PROVE w[k] = G[<<w[k - 1], q[k]>>]
  <2>1. w[k] = it[1 .. k] /\ w[k - 1] = it[1 .. k - 1]
    BY <1>1
  <2> HIDE DEF w, F
  <2> QED
    BY <1>4, <1>5, <2>1
<1> QED
  BY <1>6, <1>7 DEF Runs

\* There is a run.
LEMMA RunExists ==
    ASSUME NEW A, NEW M, NEW G \in Steps(A, M), NEW v \in A, NEW q \in Seq(M)
    PROVE  Runs(A, G, v, q) # {}
<1>1. PICK it \in FoldTables(A, G, v, q) : TRUE
  BY FoldTableExists
<1>2. LikeFoldTable(A, G, v, q, it)
  BY <1>1 DEF FoldTables, LikeFoldTable
<1> QED
  BY <1>2, FoldTableRuns

\* There is no other run.
LEMMA OneRun ==
    ASSUME NEW A, NEW G, NEW v, NEW q, Len(q) \in Nat, NEW w \in Runs(A, G, v, q)
    PROVE  Outcome(A, G, v, q) = w[Len(q)]
<1> DEFINE x == CHOOSE r \in Runs(A, G, v, q) : TRUE
           S == {n \in Nat : n <= Len(q) => x[n] = w[n]}
<1>1. x \in Runs(A, G, v, q)
  OBVIOUS
<1>2. 0 \in S
  BY <1>1 DEF Runs
<1>3. ASSUME NEW n \in Nat, n \in S PROVE n + 1 \in S
  <2> SUFFICES ASSUME n + 1 <= Len(q) PROVE x[n + 1] = w[n + 1]
    OBVIOUS
  <2> HIDE DEF x
  <2>1. n + 1 \in 1 .. Len(q) /\ (n + 1) - 1 = n /\ x[n] = w[n]
    BY <1>3
  <2> QED
    BY <1>1, <2>1 DEF Runs
<1>4. \A n \in Nat : n \in S
  <2> HIDE DEF S
  <2> QED
    BY <1>2, <1>3, NumbersByInduction
<1> QED
  BY <1>4 DEF Outcome

\* So what FoldLeft takes is the outcome of the steps.
LEMMA FoldTableOutcome ==
    ASSUME NEW A, NEW M, NEW G \in Steps(A, M), NEW v \in A, NEW q \in Seq(M),
           NEW it, LikeFoldTable(A, G, v, q, it)
    PROVE  it[DOMAIN q] = Outcome(A, G, v, q)
<1> DEFINE w == [k \in 0 .. Len(q) |-> it[1 .. k]]
<1>1. w[Len(q)] = it[DOMAIN q] /\ Len(q) \in Nat
  OBVIOUS
<1>2. w \in Runs(A, G, v, q)
  BY FoldTableRuns
<1> HIDE DEF w
<1> QED
  BY <1>1, <1>2, OneRun

\* The outcome is in A.
LEMMA OutcomeType ==
    ASSUME NEW A, NEW M, NEW G \in Steps(A, M), NEW v \in A, NEW q \in Seq(M)
    PROVE  Outcome(A, G, v, q) \in A
<1>1. PICK w \in Runs(A, G, v, q) : TRUE
  BY RunExists
<1>2. Outcome(A, G, v, q) = w[Len(q)]
  BY <1>1, OneRun
<1> QED
  BY <1>1, <1>2 DEF Runs

\* It is v for no members.
LEMMA OutcomeEmpty ==
    ASSUME NEW A, NEW M, NEW G \in Steps(A, M), NEW v \in A
    PROVE  Outcome(A, G, v, <<>>) = v
<1>1. << >> \in Seq(M) /\ Len(<< >>) = 0
  OBVIOUS
<1>2. PICK w \in Runs(A, G, v, <<>>) : TRUE
  BY <1>1, RunExists
<1>3. Outcome(A, G, v, <<>>) = w[Len(<<>>)]
  BY <1>1, <1>2, OneRun
<1> QED
  BY <1>1, <1>2, <1>3 DEF Runs

\* It takes one step more for a member more at the end.
LEMMA OutcomeAppend ==
    ASSUME NEW A, NEW M, NEW G \in Steps(A, M), NEW v \in A, NEW q \in Seq(M),
           NEW m \in M
    PROVE  Outcome(A, G, v, Append(q, m)) = G[<<Outcome(A, G, v, q), m>>]
<1> DEFINE p == Append(q, m)
           n == Len(q)
<1>1. p \in Seq(M) /\ Len(p) = n + 1 /\ p[n + 1] = m /\ \A k \in 1 .. n : p[k] = q[k]
  OBVIOUS
<1>2. PICK w \in Runs(A, G, v, q) : TRUE
  BY RunExists
<1>3. w[n] = Outcome(A, G, v, q) /\ w[n] \in A /\ n \in Nat
  <2>1. w[n] = Outcome(A, G, v, q)
    BY <1>2, OneRun
  <2> QED
    BY <1>2, <2>1 DEF Runs
<1> DEFINE x == [k \in 0 .. n + 1 |-> IF k = n + 1 THEN G[<<w[n], m>>] ELSE w[k]]
<1>4. x \in Runs(A, G, v, p)
  <2> HIDE DEF p
  <2>1. x \in [0 .. n + 1 -> A] /\ x[0] = v
    <3>1. w \in [0 .. n -> A] /\ w[0] = v /\ G[<<w[n], m>>] \in A
      BY <1>2, <1>3 DEF Runs, Steps
    <3> QED
      BY <1>3, <3>1
  <2>2. ASSUME NEW k \in 1 .. n + 1 PROVE x[k] = G[<<x[k - 1], p[k]>>]
    <3>1. CASE k = n + 1
      BY <3>1, <1>1, <1>3
    <3>2. CASE k # n + 1
      <4>1. k \in 1 .. n /\ k - 1 \in 0 .. n /\ k - 1 # n + 1
        BY <3>2, <1>3
      <4>2. w[k] = G[<<w[k - 1], q[k]>>] /\ p[k] = q[k]
        BY <4>1, <1>1, <1>2 DEF Runs
      <4>3. x[k] = w[k] /\ x[k - 1] = w[k - 1]
        BY <4>1, <3>2
      <4> QED
        BY <4>2, <4>3
    <3> QED
      BY <3>1, <3>2
  <2> QED
    BY <2>1, <2>2, <1>1 DEF Runs
<1>5. Outcome(A, G, v, p) = x[n + 1]
  <2> HIDE DEF x, p
  <2> QED
    BY <1>1, <1>4, OneRun
<1> QED
  BY <1>3, <1>5

\* The first of the steps may be taken beforehand.
LEMMA OutcomeTail ==
    ASSUME NEW A, NEW M, NEW G \in Steps(A, M), NEW v \in A, NEW q \in Seq(M),
           q # <<>>
    PROVE  Outcome(A, G, G[<<v, Head(q)>>], Tail(q)) = Outcome(A, G, v, q)
<1> DEFINE p == Tail(q)
           n == Len(p)
           u == G[<<v, Head(q)>>]
<1>1. /\ p \in Seq(M) /\ n \in Nat /\ Len(q) = n + 1
      /\ Head(q) = q[1] /\ q[1] \in M /\ u \in A
      /\ \A k \in 1 .. n : p[k] = q[k + 1]
  BY DEF Steps
<1>2. PICK w \in Runs(A, G, v, q) : TRUE
  BY RunExists
<1>3. w \in [0 .. n + 1 -> A] /\ w[1] = u /\ w[n + 1] = Outcome(A, G, v, q)
  <2> HIDE DEF p
  <2>1. 1 \in 1 .. Len(q) /\ 1 - 1 = 0
    BY <1>1
  <2>2. Outcome(A, G, v, q) = w[Len(q)]
    BY <1>2, OneRun
  <2>3. w \in [0 .. Len(q) -> A] /\ w[0] = v /\ w[1] = G[<<w[1 - 1], q[1]>>]
    BY <1>2, <2>1 DEF Runs
  <2> QED
    BY <1>1, <2>2, <2>3
<1> DEFINE x == [k \in 0 .. n |-> w[k + 1]]
<1>4. x \in Runs(A, G, u, p)
  <2> HIDE DEF p, u
  <2>1. x \in [0 .. n -> A] /\ x[0] = u
    BY <1>1, <1>3
  <2>2. ASSUME NEW k \in 1 .. n PROVE x[k] = G[<<x[k - 1], p[k]>>]
    <3>1. k + 1 \in 1 .. Len(q) /\ (k + 1) - 1 = k /\ (k - 1) + 1 = k /\ k - 1 \in 0 .. n
      BY <1>1
    <3> QED
      BY <1>1, <1>2, <3>1 DEF Runs
  <2> QED
    BY <2>1, <2>2 DEF Runs
<1>5. Outcome(A, G, u, p) = x[n]
  <2> HIDE DEF x, p, u
  <2> QED
    BY <1>1, <1>4, OneRun
<1> QED
  BY <1>1, <1>3, <1>5
=============================================================================
