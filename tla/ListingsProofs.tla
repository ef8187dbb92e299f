--------------------------- MODULE ListingsProofs ---------------------------
(***************************************************************************)
(* Theorems about Versions, ServerParser and Listings, for versions of any *)
(* shape, pages of any length and every payload. compareVersions is the    *)
(* order a reader expects; every comparison a list is sorted with is one   *)
(* that sort.SliceStable may be given.                                     *)
(***************************************************************************)
EXTENDS Listings, FiniteSetTheorems, TLAPS

-----------------------------------------------------------------------------
(* Loops. A loop over a list is a function of the number of rounds: it       *)
(* exists, and what holds before a round and is kept by it holds at the end. *)

LEMMA NatOrder ==
  \E R : IsWellFoundedOn(R, Nat) /\ \A x, y \in Nat : <<y, x>> \in R <=> y < x
  <1>1. IsWellFoundedOn(OpToRel(<, Nat), Nat)
    BY NatLessThanWellFounded
  <1>2. \A x, y \in Nat : <<y, x>> \in OpToRel(<, Nat) <=> y < x
    BY DEF OpToRel
  <1>3. QED
    BY <1>1, <1>2

LEMMA FirstExists ==
  ASSUME NEW S, S \subseteq Nat, S # {}
  PROVE  First(S) \in S /\ \A j \in S : First(S) <= j
  <1>1. PICK R : IsWellFoundedOn(R, Nat) /\ \A x, y \in Nat : <<y, x>> \in R <=> y < x
    BY NatOrder
  <1>2. PICK x \in S : \A y \in S : ~(<<y, x>> \in R)
    BY <1>1, WFMin
  <1>3. ASSUME NEW y \in S PROVE x <= y
    <2>1. x \in Nat /\ y \in Nat
      OBVIOUS
    <2>2. <<y, x>> \in R <=> y < x
      BY <1>1, <2>1
    <2>3. ~(y < x)
      BY <1>2, <2>2
    <2>4. QED
      BY <2>1, <2>3
  <1>4. QED
    BY <1>3 DEF First

LEMMA EveryRound ==
  ASSUME NEW N \in Nat, NEW S, 0 \in S,
         \A n \in 0 .. N - 1 : n \in S => n + 1 \in S
  PROVE  0 .. N \subseteq S
  <1> DEFINE T == (0 .. N) \ S
  <1>1. CASE T = {}
    BY <1>1
  <1>2. CASE T # {}
    <2>0. T \subseteq Nat
      OBVIOUS
    <2>1. PICK x \in T : \A y \in T : x <= y
      <3> HIDE DEF T
      <3>1. QED
        BY <1>2, <2>0, FirstExists
    <2>2. x \in 0 .. N /\ x \notin S /\ x # 0
      BY <2>1
    <2>3. x - 1 \in 0 .. N - 1 /\ ~(x <= x - 1) /\ (x - 1) + 1 = x
      BY <2>2
    <2>4. x - 1 \in S
      BY <2>1, <2>3
    <2>5. QED
      BY <2>2, <2>3, <2>4
  <1>3. QED
    BY <1>1, <1>2

\* f[n] is the state after n rounds of step from a.
IsLoop(f, N, D, a, step) ==
    /\ f \in [0 .. N -> D]
    /\ f[0] = a
    /\ \A n \in 1 .. N : f[n] = step[<<n, f[n - 1]>>]

LEMMA LoopExists ==
  ASSUME NEW N \in Nat, NEW D, NEW a \in D, NEW step \in [(1 .. N) \X D -> D]
  PROVE  \E f : IsLoop(f, N, D, a, step)
  <1> DEFINE Upto(f, m) == /\ f \in [0 .. m -> D]
                           /\ f[0] = a
                           /\ \A n \in 1 .. m : f[n] = step[<<n, f[n - 1]>>]
             S == {m \in 0 .. N : \E f : Upto(f, m)}
  <1>1. 0 \in S
    <2>1. Upto([n \in 0 .. 0 |-> a], 0)
      OBVIOUS
    <2>2. QED
      <3> HIDE DEF Upto
      <3>1. QED
        BY <2>1
  <1>2. ASSUME NEW m \in 0 .. N - 1, m \in S PROVE m + 1 \in S
    <2>1. PICK f : Upto(f, m)
      BY <1>2
    <2> DEFINE g == [n \in 0 .. m + 1 |-> IF n <= m THEN f[n] ELSE step[<<m + 1, f[m]>>]]
    <2>2. f[m] \in D /\ m + 1 \in 1 .. N
      BY <2>1
    <2>3. step[<<m + 1, f[m]>>] \in D
      BY <2>2
    <2>4. g \in [0 .. m + 1 -> D]
      BY <2>1, <2>3
    <2>5. g[0] = a
      BY <2>1
    <2>6. ASSUME NEW n \in 1 .. m + 1 PROVE g[n] = step[<<n, g[n - 1]>>]
      <3>1. n - 1 \in 0 .. m /\ g[n - 1] = f[n - 1]
        OBVIOUS
      <3>2. CASE n <= m
        BY <2>1, <3>1, <3>2
      <3>3. CASE n = m + 1
        <4>1. n \in 0 .. m + 1 /\ ~(n <= m) /\ n - 1 = m
          BY <3>3
        <4>2. g[n] = step[<<m + 1, f[m]>>]
          BY <4>1
        <4>3. g[n - 1] = f[m]
          BY <3>1, <4>1
        <4> HIDE DEF g
        <4>4. QED
          BY <3>3, <4>2, <4>3
      <3>4. QED
        BY <3>2, <3>3
    <2>7. Upto(g, m + 1) /\ m + 1 \in 0 .. N
      <3> HIDE DEF g
      <3>1. QED
        BY <2>4, <2>5, <2>6
    <2>8. QED
      <3> HIDE DEF g, Upto
      <3>1. QED
        BY <2>7
  <1>3. N \in S
    <2> HIDE DEF S
    <2>1. 0 .. N \subseteq S
      BY <1>1, <1>2, EveryRound
    <2>2. QED
      BY <2>1
  <1>4. PICK f : Upto(f, N)
    BY <1>3
  <1>5. QED
    BY <1>4 DEF IsLoop

-----------------------------------------------------------------------------
(* Parts *)

\* order is the sign of Above.
LEMMA OrderSign ==
  ASSUME NEW x \in Parts, NEW y \in Parts
  PROVE  /\ order(x, y) = 1 <=> Above(x, y)
         /\ order(x, y) = -1 <=> Above(y, x)
         /\ order(x, y) = 0 <=> x = y
         /\ order(x, y) \in {-1, 0, 1}
  BY DEF order, Above, Parts

LEMMA AboveLaws ==
  ASSUME NEW x \in Parts, NEW y \in Parts, NEW z \in Parts
  PROVE  /\ Above(x, y) /\ Above(y, z) => Above(x, z)
         /\ ~(Above(x, y) /\ Above(y, x))
         /\ x # y => Above(x, y) \/ Above(y, x)
  BY DEF Above, Parts

LEMMA ZeroPart ==
  /\ Zero \in Parts
  /\ \A x \in Parts : ~(~x.number \/ x.n # 0) => x = Zero
  /\ \A x \in Parts : ~x.number \/ x.n # 0 =>
        IF x.number THEN Above(x, Zero) ELSE Above(Zero, x)
  BY DEF Zero, Parts, Above

LEMMA PaddedType == ASSUME NEW p \in Seq(Parts), NEW i PROVE Padded(p, i) \in Parts
  <1>1. CASE i \in DOMAIN p
    BY <1>1 DEF Padded
  <1>2. CASE i \notin DOMAIN p
    BY <1>2, ZeroPart DEF Padded
  <1>3. QED
    BY <1>1, <1>2

-----------------------------------------------------------------------------
(* compareParts against Newer *)

\* What trailingVersionOrder says of the parts from a place on.
Trails(p, from, t) ==
    \/ t = 0 /\ \A i \in from .. Len(p) : p[i] = Zero
    \/ \E i \in from .. Len(p) :
          /\ \A j \in from .. i - 1 : p[j] = Zero
          /\ \/ t = 1 /\ Above(p[i], Zero)
             \/ t = -1 /\ Above(Zero, p[i])

LEMMA TrailingSign ==
  ASSUME NEW p \in Seq(Parts), NEW from \in Nat \ {0}
  PROVE  Trails(p, from, trailingVersionOrder(p, from))
  <1> DEFINE S == {i \in from .. Len(p) : ~p[i].number \/ p[i].n # 0}
  <1>1. ASSUME NEW i \in from .. Len(p) PROVE p[i] \in Parts /\ (i \notin S => p[i] = Zero)
    <2>1. p[i] \in Parts
      OBVIOUS
    <2>2. QED
      BY <2>1, ZeroPart
  <1>2. CASE S = {}
    BY <1>1, <1>2 DEF trailingVersionOrder, Trails
  <1>3. CASE S # {}
    <2>0. S \subseteq Nat
      OBVIOUS
    <2>1. First(S) \in S /\ \A j \in S : First(S) <= j
      <3> HIDE DEF S
      <3>1. QED
        BY <1>3, <2>0, FirstExists
    <2>2. ASSUME NEW j \in from .. First(S) - 1 PROVE p[j] = Zero
      <3>1. First(S) \in from .. Len(p)
        BY <2>1
      <3>2. j \in from .. Len(p) /\ j < First(S)
        BY <3>1
      <3>3. j \notin S
        BY <2>1, <3>1, <3>2
      <3>4. QED
        BY <1>1, <3>2, <3>3
    <2>3. trailingVersionOrder(p, from) = IF p[First(S)].number THEN 1 ELSE -1
      BY <1>3 DEF trailingVersionOrder
    <2>4. IF p[First(S)].number THEN Above(p[First(S)], Zero) ELSE Above(Zero, p[First(S)])
      BY <1>1, <2>1, ZeroPart
    <2>5. First(S) \in from .. Len(p)
      BY <2>1
    <2>6. QED
      <3> HIDE DEF S
      <3>1. QED
        BY <2>2, <2>3, <2>4, <2>5 DEF Trails
  <1>4. QED
    BY <1>2, <1>3

\* One version is the other one up to the end of the shorter: the rest decides.
LEMMA TailDecides ==
  ASSUME NEW a \in Seq(Parts), NEW b \in Seq(Parts), Len(a) <= Len(b),
         \A j \in 1 .. Len(a) : Padded(a, j) = Padded(b, j),
         NEW t, Trails(b, Len(a) + 1, t)
  PROVE  \/ t = 0 /\ \A i \in DOMAIN b : Padded(a, i) = Padded(b, i)
         \/ t = 1 /\ \E i \in DOMAIN b : NewerAt(b, a, i)
         \/ t = -1 /\ \E i \in DOMAIN b : NewerAt(a, b, i)
  <1>1. \A j \in Len(a) + 1 .. Len(b) : Padded(b, j) = b[j] /\ Padded(a, j) = Zero
    BY DEF Padded
  <1>2. CASE t = 0 /\ \A i \in Len(a) + 1 .. Len(b) : b[i] = Zero
    BY <1>1, <1>2
  <1>3. ASSUME NEW i \in Len(a) + 1 .. Len(b),
               \A j \in Len(a) + 1 .. i - 1 : b[j] = Zero,
               (t = 1 /\ Above(b[i], Zero)) \/ (t = -1 /\ Above(Zero, b[i]))
        PROVE  (t = 1 /\ NewerAt(b, a, i)) \/ (t = -1 /\ NewerAt(a, b, i))
    <2>1. ASSUME NEW j \in 1 .. i - 1 PROVE Padded(a, j) = Padded(b, j)
      BY <1>1, <1>3
    <2>2. QED
      BY <1>1, <1>3, <2>1 DEF NewerAt
  <1>4. CASE ~(t = 0 /\ \A i \in Len(a) + 1 .. Len(b) : b[i] = Zero)
    <2>1. PICK i \in Len(a) + 1 .. Len(b) :
             /\ \A j \in Len(a) + 1 .. i - 1 : b[j] = Zero
             /\ (t = 1 /\ Above(b[i], Zero)) \/ (t = -1 /\ Above(Zero, b[i]))
      BY <1>4 DEF Trails
    <2>2. (t = 1 /\ NewerAt(b, a, i)) \/ (t = -1 /\ NewerAt(a, b, i))
      BY <1>3, <2>1
    <2>3. i \in DOMAIN b
      OBVIOUS
    <2>4. QED
      BY <2>2, <2>3
  <1>5. QED
    BY <1>2, <1>4

\* compareParts finds the first place where the padded versions differ, and
\* judges them there.
LEMMA CompareFirst ==
  ASSUME NEW a \in Seq(Parts), NEW b \in Seq(Parts)
  PROVE  \/ /\ compareParts(a, b) = 0
            /\ \A i \in DOMAIN a \cup DOMAIN b : Padded(a, i) = Padded(b, i)
         \/ compareParts(a, b) = 1 /\ Newer(a, b)
         \/ compareParts(a, b) = -1 /\ Newer(b, a)
  <1> DEFINE S == {i \in DOMAIN a \cap DOMAIN b : order(a[i], b[i]) # 0}
  <1>1. ASSUME NEW i \in DOMAIN a \cap DOMAIN b
        PROVE  /\ a[i] \in Parts /\ b[i] \in Parts
               /\ Padded(a, i) = a[i] /\ Padded(b, i) = b[i]
               /\ i \notin S => a[i] = b[i]
    <2>1. a[i] \in Parts /\ b[i] \in Parts
      OBVIOUS
    <2>2. QED
      BY <2>1, OrderSign DEF Padded
  <1>2. CASE S # {}
    <2>0. S \subseteq Nat
      OBVIOUS
    <2>1. First(S) \in S /\ \A j \in S : First(S) <= j
      <3> HIDE DEF S
      <3>1. QED
        BY <1>2, <2>0, FirstExists
    <2>2. First(S) \in DOMAIN a \cap DOMAIN b /\ order(a[First(S)], b[First(S)]) # 0
      BY <2>1
    <2>3. ASSUME NEW j \in 1 .. First(S) - 1 PROVE Padded(a, j) = Padded(b, j)
      <3>1. /\ j \in DOMAIN a \cap DOMAIN b
            /\ j \in Nat /\ First(S) \in Nat /\ j < First(S)
        BY <2>2
      <3>2. j \notin S
        <4> HIDE DEF S
        <4>1. QED
          BY <2>1, <3>1
      <3>3. QED
        BY <1>1, <3>1, <3>2
    <2>4. compareParts(a, b) = order(a[First(S)], b[First(S)])
      BY <1>2 DEF compareParts
    <2>5. QED
      <3> DEFINE f == First(S)
      <3>1. /\ a[f] \in Parts /\ b[f] \in Parts
            /\ Padded(a, f) = a[f] /\ Padded(b, f) = b[f]
        BY <1>1, <2>2
      <3> HIDE DEF f
      <3>2. NewerAt(a, b, f) \/ NewerAt(b, a, f)
        BY <2>2, <2>3, <3>1, OrderSign DEF NewerAt, f
      <3>3. QED
        BY <2>2, <2>3, <2>4, <3>1, OrderSign DEF NewerAt, Newer, f
  <1>3. CASE S = {}
    <2>1. \A j \in DOMAIN a \cap DOMAIN b : Padded(a, j) = Padded(b, j)
      BY <1>1, <1>3
    <2>2. CASE Len(a) > Len(b)
      <3>1. compareParts(a, b) = trailingVersionOrder(a, Len(b) + 1)
        BY <1>3, <2>2 DEF compareParts
      <3>2. Trails(a, Len(b) + 1, compareParts(a, b))
        BY <3>1, TrailingSign
      <3>3. \A j \in 1 .. Len(b) : Padded(b, j) = Padded(a, j)
        BY <2>1, <2>2
      <3>4. QED
        BY <2>2, <3>2, <3>3, TailDecides DEF Newer
    <2>3. CASE Len(a) <= Len(b)
      <3>1. compareParts(a, b) = -trailingVersionOrder(b, Len(a) + 1)
        BY <1>3, <2>3 DEF compareParts
      <3>2. Trails(b, Len(a) + 1, trailingVersionOrder(b, Len(a) + 1))
        BY TrailingSign
      <3>3. \A j \in 1 .. Len(a) : Padded(a, j) = Padded(b, j)
        BY <2>1, <2>3
      <3>4. QED
        BY <2>3, <3>1, <3>2, <3>3, TailDecides DEF Newer
    <2>4. QED
      BY <2>2, <2>3
  <1>4. QED
    BY <1>2, <1>3

-----------------------------------------------------------------------------
(* Theorems *)

LEMMA NewerWellDefined ==
  ASSUME NEW a \in Seq(Parts), NEW b \in Seq(Parts), Newer(a, b)
  PROVE  /\ ~Newer(b, a)
         /\ ~\A i \in DOMAIN a \cup DOMAIN b : Padded(a, i) = Padded(b, i)
  <1>1. PICK i \in DOMAIN a \cup DOMAIN b : NewerAt(a, b, i)
    BY DEF Newer
  <1>2. i \in Nat \ {0}
    OBVIOUS
  <1>3. Above(Padded(a, i), Padded(b, i)) /\ Padded(a, i) # Padded(b, i)
    BY <1>1, PaddedType, AboveLaws DEF NewerAt
  <1>4. ASSUME NEW k \in DOMAIN a \cup DOMAIN b, NewerAt(b, a, k) PROVE FALSE
    <2>1. k \in Nat \ {0}
      OBVIOUS
    <2>2. Padded(a, k) # Padded(b, k)
      BY <1>4, PaddedType, AboveLaws DEF NewerAt
    <2>3. ~(i < k)
      BY <1>2, <1>3, <1>4, <2>1 DEF NewerAt
    <2>4. ~(k < i)
      BY <1>1, <1>2, <2>1, <2>2 DEF NewerAt
    <2>5. k = i
      BY <1>2, <2>1, <2>3, <2>4
    <2>6. QED
      BY <1>3, <1>4, <2>5, PaddedType, AboveLaws DEF NewerAt
  <1>5. QED
    BY <1>1, <1>3, <1>4 DEF Newer

\* compareVersions says newer, older or equal exactly when the padded parts,
\* read from left to right, do: the loop over the common parts and the rule for
\* the rest are one lexicographic order, in which a prerelease comes before its
\* release and 1.20 is 1.20.0.
THEOREM CompareIsExpected ==
  ASSUME NEW a \in Seq(Parts), NEW b \in Seq(Parts)
  PROVE  /\ compareParts(a, b) > 0 <=> Newer(a, b)
         /\ compareParts(a, b) < 0 <=> Newer(b, a)
  BY CompareFirst, NewerWellDefined

\* The comparison handed to the stable sort is a strict weak order, for versions
\* of any shape: irreflexive, asymmetric, transitive.
THEOREM NewestFirstIsStrict ==
  ASSUME NEW a \in Seq(Parts), NEW b \in Seq(Parts)
  PROVE  /\ compareParts(a, a) = 0
         /\ compareParts(a, b) > 0 => compareParts(b, a) < 0
  <1>1. ~Newer(a, a)
    BY NewerWellDefined
  <1>2. QED
    BY <1>1, CompareFirst, CompareIsExpected

THEOREM NewestFirstIsTransitive ==
  ASSUME NEW a \in Seq(Parts), NEW b \in Seq(Parts), NEW c \in Seq(Parts),
         compareParts(a, b) > 0, compareParts(b, c) > 0
  PROVE  compareParts(a, c) > 0
  <1>1. PICK i \in DOMAIN a \cup DOMAIN b : NewerAt(a, b, i)
    BY CompareIsExpected DEF Newer
  <1>2. PICK k \in DOMAIN b \cup DOMAIN c : NewerAt(b, c, k)
    BY CompareIsExpected DEF Newer
  <1>3. i \in Nat \ {0} /\ k \in Nat \ {0}
    OBVIOUS
  <1> DEFINE m == IF i <= k THEN i ELSE k
  <1>4. m \in Nat \ {0} /\ m <= i /\ m <= k
    BY <1>3
  <1>5. \A j \in 1 .. m - 1 : Padded(a, j) = Padded(c, j)
    BY <1>1, <1>2, <1>3 DEF NewerAt
  <1>6. Above(Padded(a, m), Padded(c, m))
    <2>1. CASE i < k
      BY <1>1, <1>2, <1>3, <2>1 DEF NewerAt
    <2>2. CASE k < i
      BY <1>1, <1>2, <1>3, <2>2 DEF NewerAt
    <2>3. CASE k = i
      BY <1>1, <1>2, <2>3, PaddedType, AboveLaws DEF NewerAt
    <2>4. QED
      BY <1>3, <2>1, <2>2, <2>3
  <1>7. m \in DOMAIN a \cup DOMAIN c
    <2>1. ~Above(Zero, Zero)
      BY DEF Above, Zero
    <2>2. QED
      BY <1>6, <2>1 DEF Padded
  <1>8. NewerAt(a, c, m)
    BY <1>5, <1>6 DEF NewerAt
  <1>9. QED
    BY <1>7, <1>8, CompareIsExpected DEF Newer

\* Two versions tie exactly when no place tells them apart.
LEMMA TieIsEqual ==
  ASSUME NEW a \in Seq(Parts), NEW b \in Seq(Parts)
  PROVE  /\ compareParts(a, b) \in Int
         /\ ~(compareParts(a, b) > 0) /\ ~(compareParts(b, a) > 0)
               <=> \A i \in Nat : Padded(a, i) = Padded(b, i)
  <1>1. CASE \A i \in DOMAIN a \cup DOMAIN b : Padded(a, i) = Padded(b, i)
    <2>1. ~Newer(a, b) /\ ~Newer(b, a)
      BY <1>1, NewerWellDefined
    <2>2. \A i \in Nat : Padded(a, i) = Padded(b, i)
      BY <1>1 DEF Padded
    <2>3. QED
      BY <2>1, <2>2, CompareFirst, CompareIsExpected
  <1>2. CASE ~\A i \in DOMAIN a \cup DOMAIN b : Padded(a, i) = Padded(b, i)
    <2>1. compareParts(a, b) \in {-1, 1} /\ (Newer(a, b) \/ Newer(b, a))
      BY <1>2, CompareFirst
    <2>2. DOMAIN a \cup DOMAIN b \subseteq Nat
      OBVIOUS
    <2>3. QED
      BY <1>2, <2>1, <2>2, CompareIsExpected
  <1>3. QED
    BY <1>1, <1>2

\* Ties are transitive: versions that compare as equal form one block of the list.
THEOREM TiesAreTransitive ==
  ASSUME NEW a \in Seq(Parts), NEW b \in Seq(Parts), NEW c \in Seq(Parts),
         ~(compareParts(a, b) > 0), ~(compareParts(b, a) > 0),
         ~(compareParts(b, c) > 0), ~(compareParts(c, b) > 0)
  PROVE  ~(compareParts(a, c) > 0) /\ ~(compareParts(c, a) > 0)
  <1>1. /\ \A i \in Nat : Padded(a, i) = Padded(b, i)
        /\ \A i \in Nat : Padded(b, i) = Padded(c, i)
    BY TieIsEqual
  <1>2. QED
    BY <1>1, TieIsEqual

-----------------------------------------------------------------------------
(* splitVersion *)

LEMMA TrimType == ASSUME NEW v \in Seq(Runs) PROVE TrimV(v) \in Seq(Runs)
  <1>1. CASE v = <<>> \/ v[1].bare = -1
    BY <1>1 DEF TrimV
  <1>2. CASE v # <<>> /\ v[1].bare # -1
    <2>1. v[1] \in Runs /\ Tail(v) \in Seq(Runs)
      BY <1>2
    <2>2. [v[1] EXCEPT !.n = v[1].bare] \in Runs
      BY <1>2, <2>1 DEF Runs
    <2>3. <<[v[1] EXCEPT !.n = v[1].bare]>> \o Tail(v) \in Seq(Runs)
      BY <2>1, <2>2
    <2>4. QED
      BY <1>2, <2>1, <2>3 DEF TrimV
  <1>3. QED
    BY <1>1, <1>2

LEMMA PartType == ASSUME NEW run \in Runs PROVE Part(run) \in Parts
  BY MaxIntAssumption DEF Part, Parts, Runs, Atoi

\* What a pass over the runs gathers is a sequence of the parts they stand for.
LEMMA GatherType ==
  ASSUME NEW t, Len(t) \in Nat, NEW parts, \A n \in 1 .. Len(t) : parts[n] \in Parts
  PROVE  Gather(t, parts) \in Seq(Parts)
  <1> DEFINE N == Len(t)
             D == Seq(Parts)
             Round(n, b) == IF t[n].kind = "other" THEN b ELSE Append(b, parts[n])
             step == [p \in (1 .. N) \X D |-> Round(p[1], p[2])]
             Loop(f) == f = [n \in 0 .. N |->
                               IF n = 0 THEN <<>>
                               ELSE IF t[n].kind = "other" THEN f[n - 1]
                                    ELSE Append(f[n - 1], parts[n])]
             out == CHOOSE f : Loop(f)
  <1>1. Gather(t, parts) = out[N]
    BY DEF Gather
  <1>2. N \in Nat /\ <<>> \in D /\ \A n \in 1 .. N : parts[n] \in Parts
    OBVIOUS
  <1>3. \A n \in 1 .. N : \A b \in D : Round(n, b) \in D
    BY <1>2
  <1> HIDE DEF N
  <1>4. \E f : Loop(f)
    <2>1. step \in [(1 .. N) \X D -> D]
      <3> HIDE DEF D, Round
      <3>1. QED
        BY <1>3
    <2>2. PICK f : IsLoop(f, N, D, <<>>, step)
      <3> HIDE DEF step, D
      <3>1. QED
        BY <1>2, <2>1, LoopExists
    <2>3. \A n \in 1 .. N : f[n - 1] \in D /\ step[<<n, f[n - 1]>>] = Round(n, f[n - 1])
      <3> SUFFICES ASSUME NEW n \in 1 .. N
                   PROVE  f[n - 1] \in D /\ step[<<n, f[n - 1]>>] = Round(n, f[n - 1])
        OBVIOUS
      <3>1. n - 1 \in 0 .. N
        BY <1>2
      <3>2. f[n - 1] \in D
        <4> HIDE DEF D, step
        <4>1. QED
          BY <2>2, <3>1 DEF IsLoop
      <3> HIDE DEF D, Round
      <3>3. QED
        BY <3>2
    <2>4. \A n \in 0 .. N : f[n] = IF n = 0 THEN <<>> ELSE Round(n, f[n - 1])
      <3> SUFFICES ASSUME NEW n \in 0 .. N
                   PROVE  f[n] = IF n = 0 THEN <<>> ELSE Round(n, f[n - 1])
        OBVIOUS
      <3>1. n = 0 \/ n \in 1 .. N
        BY <1>2
      <3> HIDE DEF step, Round, D
      <3>2. QED
        BY <2>2, <2>3, <3>1 DEF IsLoop
    <2>5. Loop(f)
      <3> HIDE DEF step, D
      <3>1. QED
        BY <2>2, <2>4 DEF IsLoop
    <2>6. QED
      BY <2>5
  <1>5. Loop(out)
    <2> HIDE DEF Loop
    <2>1. QED
      BY <1>4
  <1>6. out[0] = <<>> /\ \A n \in 1 .. N : out[n] = Round(n, out[n - 1])
    <2> HIDE DEF out
    <2>1. \A n \in 0 .. N : out[n] = IF n = 0 THEN <<>> ELSE Round(n, out[n - 1])
      BY <1>5, Zenon
    <2>2. 0 \in 0 .. N /\ \A n \in 1 .. N : n \in 0 .. N /\ n # 0
      BY <1>2
    <2> HIDE DEF Round
    <2>3. QED
      BY <2>1, <2>2
  <1> HIDE DEF out, Loop, step
  <1> DEFINE S == {n \in 0 .. N : out[n] \in D}
  <1>7. 0 \in S
    <2> HIDE DEF D, Round
    <2>1. QED
      BY <1>2, <1>6
  <1>8. ASSUME NEW n \in 0 .. N - 1, n \in S PROVE n + 1 \in S
    <2>1. n + 1 \in 1 .. N /\ n + 1 \in 0 .. N /\ (n + 1) - 1 = n
      BY <1>2
    <2>2. out[n + 1] = Round(n + 1, out[n]) /\ out[n] \in D
      BY <1>6, <1>8, <2>1
    <2> HIDE DEF Round, D
    <2>3. QED
      BY <1>3, <2>1, <2>2
  <1>9. 0 .. N \subseteq S
    <2> HIDE DEF S
    <2>1. QED
      BY <1>2, <1>7, <1>8, EveryRound
  <1>10. QED
    BY <1>1, <1>2, <1>9

\* Whatever the text, splitVersion makes a sequence of parts, and they show what
\* the text does.
LEMMA SplitType ==
  ASSUME NEW v \in Seq(Runs)
  PROVE  splitVersion(v) \in Seq(Parts) /\ splitVersion(v) = Reading(v)
  <1> DEFINE t == TrimV(v)
  <1>1. t \in Seq(Runs)
    BY TrimType
  <1> HIDE DEF t
  <1>2. Len(t) \in Nat /\ DOMAIN t = 1 .. Len(t) /\ \A n \in 1 .. Len(t) : t[n] \in Runs
    BY <1>1
  <1>3. \A n \in 1 .. Len(t) : Part(t[n]) \in Parts /\ Part(t[n]) = Shown(t[n])
    <2>1. ASSUME NEW run \in Runs PROVE Part(run) = Shown(run)
      BY MaxIntAssumption DEF Part, Shown, Atoi, Runs
    <2>2. QED
      BY <1>2, <2>1, PartType
  <1> DEFINE parts == [n \in DOMAIN t |-> Part(t[n])]
             shown == [n \in DOMAIN t |-> Shown(t[n])]
  <1>4. parts = shown /\ \A n \in 1 .. Len(t) : parts[n] \in Parts
    BY <1>2, <1>3
  <1>5. splitVersion(v) = Gather(t, parts) /\ Reading(v) = Gather(t, shown)
    BY DEF splitVersion, Reading, t
  <1> HIDE DEF parts, shown
  <1>6. Gather(t, parts) \in Seq(Parts)
    BY <1>2, <1>4, GatherType
  <1>7. QED
    BY <1>4, <1>5, <1>6

-----------------------------------------------------------------------------
(* One card of the server list *)

Servers(texts, limits, marks) ==
    [name : texts, address : texts, joinable : BOOLEAN, players : Nat, max : limits,
     version : texts, restricted : SUBSET marks, mods : Nat]

\* What one element may do to what is known of a server.
ReadKeeps(s, x, current, r) ==
    /\ s.restricted \subseteq r.restricted
    /\ x.is = "abbr" \/ (x.is = "icon" /\ current) => x.marks \subseteq r.restricted
    /\ current /\ x.is = "heading" => r.name = x.text
    /\ current /\ x.is # "heading" /\ s.name # "" => r.name = s.name

LEMMA ReadOne ==
  ASSUME NEW texts, NEW limits, NEW marks, NEW s \in Servers(texts, limits, marks), NEW x,
         x.text \in texts, x.of \in limits, x.n \in Nat, x.marks \subseteq marks,
         NEW current \in BOOLEAN, NEW r, r = readCard(current, s, x)
  PROVE  r \in Servers(texts, limits, marks) /\ ReadKeeps(s, x, current, r)
  <1> USE DEF ReadKeeps
  <1>1. CASE x.is = "players"
    <2>1. r = [s EXCEPT !.players = x.n]
      BY <1>1 DEF readCard
    <2>2. QED
      BY <1>1, <2>1 DEF Servers
  <1>2. CASE x.is = "limit" /\ current
    <2>1. r = [s EXCEPT !.players = x.n, !.max = x.of]
      BY <1>2 DEF readCard, Limit
    <2>2. QED
      BY <1>2, <2>1 DEF Servers
  <1>3. CASE x.is = "version" /\ current /\ s.version = ""
    <2>1. r = [s EXCEPT !.version = x.text]
      BY <1>3 DEF readCard
    <2>2. QED
      BY <1>3, <2>1 DEF Servers
  <1>4. CASE x.is = "join" /\ current
    <2>1. r = [s EXCEPT !.address = x.text, !.joinable = TRUE]
      BY <1>4 DEF readCard, Join
    <2>2. QED
      BY <1>4, <2>1 DEF Servers
  <1>5. CASE x.is = "join" /\ ~current
    <2>1. r = [Join(s, x) EXCEPT !.name = x.text]
      BY <1>5 DEF readCard
    <2>2. Join(s, x) \in Servers(texts, limits, marks) /\ Join(s, x).restricted = s.restricted
      BY DEF Join, Servers
    <2>3. QED
      BY <1>5, <2>1, <2>2 DEF Servers
  <1>6. CASE x.is = "heading" /\ current
    <2>1. r = [s EXCEPT !.name = x.text]
      BY <1>6 DEF readCard
    <2>2. QED
      BY <1>6, <2>1 DEF Servers
  <1>7. CASE x.is = "abbr"
    <2>1. r = [s EXCEPT !.name = IF s.name = "" THEN x.text ELSE s.name,
                        !.restricted = s.restricted \cup x.marks]
      BY <1>7 DEF readCard, Abbr
    <2> DEFINE name == IF s.name = "" THEN x.text ELSE s.name
               restricted == s.restricted \cup x.marks
    <2>2. /\ name \in texts /\ (s.name # "" => name = s.name)
          /\ restricted \in SUBSET marks
          /\ s.restricted \subseteq restricted /\ x.marks \subseteq restricted
      BY DEF Servers
    <2> HIDE DEF name, restricted
    <2>3. r \in Servers(texts, limits, marks) /\ r.name = name /\ r.restricted = restricted
      BY <2>1, <2>2 DEF Servers, name, restricted
    <2>4. QED
      BY <1>7, <2>2, <2>3
  <1>8. CASE x.is = "icon" /\ current
    <2>1. r = [s EXCEPT !.restricted = s.restricted \cup x.marks]
      BY <1>8 DEF readCard
    <2>2. QED
      BY <1>8, <2>1 DEF Servers
  <1>9. CASE x.is = "mods"
    <2>1. r = [s EXCEPT !.mods = x.n]
      BY <1>9 DEF readCard
    <2>2. QED
      BY <1>9, <2>1 DEF Servers
  <1>10. CASE /\ x.is # "players" /\ x.is # "abbr" /\ x.is # "mods"
              /\ ~(x.is = "limit" /\ current) /\ ~(x.is = "join" /\ current)
              /\ ~(x.is = "version" /\ current /\ s.version = "")
              /\ ~(x.is = "join" /\ ~current) /\ ~(x.is = "heading" /\ current)
              /\ ~(x.is = "icon" /\ current)
    <2>1. r = s
      BY <1>10 DEF readCard
    <2>2. QED
      BY <1>10, <2>1
  <1>11. QED
    BY <1>1, <1>2, <1>3, <1>4, <1>5, <1>6, <1>7, <1>8, <1>9, <1>10

\* What is known of a server after the first n elements of its card.
ReadSoFar(s, card, n) ==
    /\ s.players \in Nat
    /\ \A k \in 1 .. n :
          LET x == card.elements[k] IN
          /\ card.current /\ x.is = "heading" /\ x.text # ""
             /\ (\A j \in k + 1 .. n : card.elements[j].is # "heading") => s.name = x.text
          /\ x.is = "abbr" \/ (x.is = "icon" /\ card.current) => x.marks \subseteq s.restricted

LEMMA CardIsRead ==
  ASSUME NEW card, Len(card.elements) \in Nat, DOMAIN card.elements = 1 .. Len(card.elements),
         \A k \in DOMAIN card.elements : card.elements[k].n \in Nat,
         card.current \in BOOLEAN
  PROVE  ReadSoFar(parseServer(card), card, Len(card.elements))
  <1> DEFINE x(n) == card.elements[n]
             N == Len(card.elements)
             texts == {x(n).text : n \in 1 .. N} \cup {""}
             limits == {x(n).of : n \in 1 .. N} \cup {0}
             marks == UNION {x(n).marks : n \in 1 .. N}
             D == Servers(texts, limits, marks)
             Round(n, s) == readCard(card.current, s, x(n))
             step == [p \in (1 .. N) \X D |-> Round(p[1], p[2])]
             Loop(f) == f = [n \in 0 .. N |->
                               IF n = 0 THEN NoServer
                               ELSE readCard(card.current, f[n - 1], card.elements[n])]
             read == CHOOSE f : Loop(f)
  <1>1. parseServer(card) = read[N]
    BY DEF parseServer
  <1>2. N \in Nat /\ NoServer \in D
    BY DEF NoServer, Servers
  <1>3. ASSUME NEW n \in 1 .. N
        PROVE  /\ x(n).text \in texts /\ x(n).of \in limits /\ x(n).n \in Nat
               /\ x(n).marks \subseteq marks
    OBVIOUS
  <1> HIDE DEF texts, limits, marks, x
  <1>4. ASSUME NEW n \in 1 .. N, NEW s \in D
        PROVE  Round(n, s) \in D /\ ReadKeeps(s, x(n), card.current, Round(n, s))
    BY <1>3, <1>4, ReadOne
  <1> HIDE DEF D, N, Round
  <1>5. \E f : Loop(f)
    <2>1. step \in [(1 .. N) \X D -> D]
      BY <1>4
    <2>2. PICK f : IsLoop(f, N, D, NoServer, step)
      <3> HIDE DEF step
      <3>1. QED
        BY <1>2, <2>1, LoopExists
    <2>3. \A n \in 1 .. N : f[n - 1] \in D /\ step[<<n, f[n - 1]>>] = Round(n, f[n - 1])
      <3> SUFFICES ASSUME NEW n \in 1 .. N
                   PROVE  f[n - 1] \in D /\ step[<<n, f[n - 1]>>] = Round(n, f[n - 1])
        OBVIOUS
      <3>1. n - 1 \in 0 .. N
        BY <1>2
      <3>2. f[n - 1] \in D
        <4> HIDE DEF step
        <4>1. QED
          BY <2>2, <3>1 DEF IsLoop
      <3>3. QED
        BY <3>2
    <2>4. \A n \in 0 .. N : f[n] = IF n = 0 THEN NoServer ELSE Round(n, f[n - 1])
      <3> SUFFICES ASSUME NEW n \in 0 .. N
                   PROVE  f[n] = IF n = 0 THEN NoServer ELSE Round(n, f[n - 1])
        OBVIOUS
      <3>1. n = 0 \/ n \in 1 .. N
        BY <1>2
      <3> HIDE DEF step
      <3>2. QED
        BY <2>2, <2>3, <3>1 DEF IsLoop
    <2>5. Loop(f)
      <3> HIDE DEF step
      <3>1. QED
        BY <2>2, <2>4 DEF IsLoop, Round, x
    <2>6. QED
      BY <2>5
  <1>6. Loop(read)
    <2> HIDE DEF Loop
    <2>1. QED
      BY <1>5
  <1>7. read[0] = NoServer /\ \A n \in 1 .. N : read[n] = Round(n, read[n - 1])
    <2> HIDE DEF read
    <2>1. \A n \in 0 .. N : read[n] = IF n = 0 THEN NoServer ELSE Round(n, read[n - 1])
      BY <1>6, Zenon DEF Round, x
    <2>2. 0 \in 0 .. N /\ \A n \in 1 .. N : n \in 0 .. N /\ n # 0
      BY <1>2
    <2>3. QED
      BY <2>1, <2>2
  <1> HIDE DEF read, Loop, step
  <1> DEFINE S == {n \in 0 .. N : read[n] \in D /\ ReadSoFar(read[n], card, n)}
  <1>8. \A s \in D : s.players \in Nat
    BY DEF D, Servers
  <1>9. 0 \in S
    <2>1. ReadSoFar(NoServer, card, 0)
      BY DEF ReadSoFar, NoServer
    <2>2. QED
      BY <1>2, <1>7, <2>1
  <1>10. ASSUME NEW n \in 0 .. N - 1, n \in S PROVE n + 1 \in S
    <2> DEFINE s == read[n]
               r == read[n + 1]
    <2>1. n \in Nat /\ n + 1 \in 1 .. N /\ n + 1 \in 0 .. N /\ (n + 1) - 1 = n
      BY <1>2
    <2>2. r = Round(n + 1, s) /\ s \in D /\ ReadSoFar(s, card, n)
      BY <1>7, <1>10, <2>1
    <2> HIDE DEF s, r
    <2>3. r \in D /\ r.players \in Nat /\ ReadKeeps(s, x(n + 1), card.current, r)
      BY <1>4, <1>8, <2>1, <2>2
    <2>4. ASSUME NEW k \in 1 .. n + 1,
                 card.current, x(k).is = "heading", x(k).text # "",
                 \A j \in k + 1 .. n + 1 : x(j).is # "heading"
          PROVE  r.name = x(k).text
      <3>1. CASE k = n + 1
        BY <2>3, <2>4, <3>1 DEF ReadKeeps
      <3>2. CASE k # n + 1
        <4>1. k \in 1 .. n /\ n + 1 \in k + 1 .. n + 1 /\ k + 1 .. n \subseteq k + 1 .. n + 1
          BY <2>1, <3>2
        <4>2. s.name = x(k).text
          BY <2>2, <2>4, <4>1 DEF ReadSoFar, x
        <4>3. x(n + 1).is # "heading"
          BY <2>4, <4>1
        <4>4. QED
          BY <2>3, <2>4, <4>2, <4>3 DEF ReadKeeps
      <3>3. QED
        BY <3>1, <3>2
    <2>5. ASSUME NEW k \in 1 .. n + 1, x(k).is = "abbr" \/ (x(k).is = "icon" /\ card.current)
          PROVE  x(k).marks \subseteq r.restricted
      <3>1. CASE k = n + 1
        BY <2>3, <2>5, <3>1 DEF ReadKeeps
      <3>2. CASE k # n + 1
        <4>1. k \in 1 .. n
          BY <2>1, <3>2
        <4>2. x(k).marks \subseteq s.restricted
          BY <2>2, <2>5, <4>1 DEF ReadSoFar, x
        <4>3. QED
          BY <2>3, <4>2 DEF ReadKeeps
      <3>3. QED
        BY <3>1, <3>2
    <2>6. ReadSoFar(r, card, n + 1)
      BY <2>3, <2>4, <2>5 DEF ReadSoFar, x
    <2>7. QED
      BY <2>1, <2>3, <2>6 DEF r
  <1>11. 0 .. N \subseteq S
    <2> HIDE DEF S
    <2>1. QED
      BY <1>2, <1>9, <1>10, EveryRound
  <1>12. QED
    BY <1>1, <1>2, <1>11 DEF N

-----------------------------------------------------------------------------
(* The comparisons of the lists *)

LEMMA EntryTypes ==
  ASSUME payload \in Payloads, NEW i \in DOMAIN payload.entries
  PROVE  /\ payload.source = "releases" => splitVersion(Entry(i).id) \in Seq(Parts)
         /\ payload.source = "news" => Entry(i).date \in Nat /\ Article(Entry(i)) \in Nat
         /\ payload.source = "servers" => parseServer(Entry(i)).players \in Nat
         /\ payload.source = "mods" =>
               Entry(i).date \in Nat /\ Entry(i).downloads \in Nat /\ Entry(i).name \in Nat
  <1>1. CASE payload.source = "releases"
    BY <1>1, PayloadAssumption, SplitType DEF Entry
  <1>2. CASE payload.source = "news"
    BY <1>2, PayloadAssumption DEF Entry, Article
  <1>3. CASE payload.source = "servers"
    BY <1>3, PayloadAssumption, CardIsRead DEF Entry, ReadSoFar
  <1>4. CASE payload.source = "mods"
    BY <1>4, PayloadAssumption DEF Entry
  <1>5. QED
    BY <1>1, <1>2, <1>3, <1>4

LEMMA Sources ==
  ASSUME payload \in Payloads
  PROVE  payload.source \in {"releases", "news", "servers", "server", "mods"}
  BY PayloadAssumption

LEMMA DateAfterIsLater ==
  ASSUME NEW a \in Nat, NEW b \in Nat
  PROVE  dateAfter(a, b) <=> a > b
  BY DEF dateAfter

\* Every list is sorted with the comparison its reader expects.
LEMMA BeforeIsAhead ==
  ASSUME payload \in Payloads,
         NEW i \in DOMAIN payload.entries, NEW j \in DOMAIN payload.entries
  PROVE  Before(Entry(i), Entry(j)) <=> Ahead(Entry(i), Entry(j))
  <1> DEFINE a == Entry(i)
             b == Entry(j)
  <1>1. CASE payload.source = "releases"
    <2>1. Before(a, b) <=> compareParts(splitVersion(a.id), splitVersion(b.id)) > 0
      BY <1>1 DEF Before, compareVersions
    <2>2. Ahead(a, b) <=> Newer(splitVersion(a.id), splitVersion(b.id))
      <3>1. splitVersion(a.id) = Reading(a.id) /\ splitVersion(b.id) = Reading(b.id)
        BY <1>1, PayloadAssumption, SplitType DEF Entry
      <3>2. QED
        BY <1>1, <3>1 DEF Ahead
    <2>3. QED
      BY <1>1, <2>1, <2>2, EntryTypes, CompareIsExpected
  <1>2. CASE payload.source = "news"
    <2>1. Before(a, b) <=> IF a.date = b.date THEN Article(a) < Article(b) ELSE a.date > b.date
      BY <1>2 DEF Before
    <2>2. Ahead(a, b) <=> a.date > b.date \/ (a.date = b.date /\ Article(a) < Article(b))
      BY <1>2 DEF Ahead
    <2>3. a.date \in Nat /\ b.date \in Nat
      BY <1>2, EntryTypes
    <2> HIDE DEF a, b
    <2>4. QED
      BY <2>1, <2>2, <2>3 DEF a, b
  <1>3. CASE payload.source = "servers"
    BY <1>3 DEF Before, Ahead
  <1>4. CASE payload.source = "server"
    BY <1>4 DEF Before, Ahead
  <1>5. CASE payload.source = "mods"
    <2> DEFINE q == payload.query
    <2>1. Before(a, b) <=> sortMods(a, b)
      BY <1>5 DEF Before
    <2>2. a.date \in Nat /\ b.date \in Nat /\ a.name \in Nat /\ b.name \in Nat
      BY <1>5, EntryTypes
    <2>3. dateAfter(a.date, b.date) <=> a.date > b.date
      BY <2>2, DateAfterIsLater
    <2> HIDE DEF a, b
    <2>4. CASE q.sort \in {"downloads", "name_asc", "name_desc"}
      <3>1. CASE q.sort = "downloads"
        <4>1. sortMods(a, b) <=> a.downloads > b.downloads
          BY <3>1 DEF sortMods
        <4>2. Ahead(a, b) <=> a.downloads > b.downloads
          BY <1>5, <3>1 DEF Ahead
        <4>3. QED
          BY <2>1, <4>1, <4>2 DEF a, b
      <3>2. CASE q.sort = "name_asc"
        <4>1. sortMods(a, b) <=> a.name < b.name
          BY <3>2 DEF sortMods
        <4>2. Ahead(a, b) <=> a.name < b.name
          BY <1>5, <3>2 DEF Ahead
        <4>3. QED
          BY <2>1, <4>1, <4>2 DEF a, b
      <3>3. CASE q.sort = "name_desc"
        <4>1. sortMods(a, b) <=> a.name > b.name
          BY <3>3 DEF sortMods
        <4>2. Ahead(a, b) <=> b.name < a.name
          BY <1>5, <3>3 DEF Ahead
        <4>3. QED
          BY <2>1, <2>2, <4>1, <4>2 DEF a, b
      <3>4. QED
        BY <2>4, <3>1, <3>2, <3>3 DEF a, b
    <2>5. CASE q.sort \in {"newest", "updated"}
      <3>1. sortMods(a, b) <=> dateAfter(a.date, b.date)
        BY <2>5 DEF sortMods
      <3>2. Ahead(a, b) <=> a.date > b.date
        BY <1>5, <2>5 DEF Ahead
      <3>3. QED
        BY <2>1, <2>3, <3>1, <3>2 DEF a, b
    <2>6. CASE q.sort \notin {"downloads", "name_asc", "name_desc", "newest", "updated"}
      <3>1. sortMods(a, b) <=> q.text = 0 /\ dateAfter(a.date, b.date)
        BY <2>6 DEF sortMods
      <3>2. Ahead(a, b) <=> q.text = 0 /\ a.date > b.date
        BY <1>5, <2>6 DEF Ahead
      <3>3. QED
        BY <2>1, <2>3, <3>1, <3>2 DEF a, b
    <2>7. QED
      BY <2>4, <2>5, <2>6
  <1>6. QED
    BY <1>1, <1>2, <1>3, <1>4, <1>5, Sources

\* A comparison that may be given to a stable sort: strict, transitive, and with
\* transitive ties.
Ties(x, y) == ~Before(x, y) /\ ~Before(y, x)

StrictWeak(x, y, z) ==
    /\ ~Before(x, x)
    /\ Before(x, y) /\ Before(y, z) => Before(x, z)
    /\ Ties(x, y) /\ Ties(y, z) => Ties(x, z)

\* For any payload, on all its entries, good and bad, the comparison of its list
\* is a strict weak order: what sort.SliceStable requires, so that a sorted list
\* exists and the contract the model takes it for applies.
THEOREM SortsByStrictWeakOrder ==
  ASSUME payload \in Payloads, NEW i \in DOMAIN payload.entries,
         NEW j \in DOMAIN payload.entries, NEW k \in DOMAIN payload.entries
  PROVE  StrictWeak(Entry(i), Entry(j), Entry(k))
  <1> DEFINE x == Entry(i)
             y == Entry(j)
             z == Entry(k)
  <1>1. CASE payload.source = "releases"
    <2> DEFINE a == splitVersion(x.id)
               b == splitVersion(y.id)
               c == splitVersion(z.id)
    <2>1. a \in Seq(Parts) /\ b \in Seq(Parts) /\ c \in Seq(Parts)
      BY <1>1, EntryTypes
    <2>2. \A v, w : Before(v, w) <=> compareParts(splitVersion(v.id), splitVersion(w.id)) > 0
      BY <1>1 DEF Before, compareVersions
    <2>3. /\ Before(x, x) <=> compareParts(a, a) > 0
          /\ Before(x, y) <=> compareParts(a, b) > 0
          /\ Before(y, x) <=> compareParts(b, a) > 0
          /\ Before(y, z) <=> compareParts(b, c) > 0
          /\ Before(z, y) <=> compareParts(c, b) > 0
          /\ Before(x, z) <=> compareParts(a, c) > 0
          /\ Before(z, x) <=> compareParts(c, a) > 0
      BY <2>2
    <2> HIDE DEF a, b, c, x, y, z
    <2>4. ~(compareParts(a, a) > 0)
      BY <2>1, NewestFirstIsStrict
    <2>5. compareParts(a, b) > 0 /\ compareParts(b, c) > 0 => compareParts(a, c) > 0
      BY <2>1, NewestFirstIsTransitive
    <2>6. Ties(x, y) /\ Ties(y, z) => Ties(x, z)
      BY <2>1, <2>3, TiesAreTransitive DEF Ties
    <2>7. QED
      BY <2>3, <2>4, <2>5, <2>6 DEF StrictWeak, x, y, z
  <1>2. CASE payload.source = "news"
    <2>1. /\ x.date \in Nat /\ y.date \in Nat /\ z.date \in Nat
          /\ Article(x) \in Nat /\ Article(y) \in Nat /\ Article(z) \in Nat
      BY <1>2, EntryTypes
    <2>2. \A v, w : Before(v, w) <=>
             IF v.date = w.date THEN Article(v) < Article(w) ELSE v.date > w.date
      BY <1>2 DEF Before
    <2> HIDE DEF x, y, z
    <2>3. QED
      BY <2>1, <2>2 DEF StrictWeak, Ties, x, y, z
  <1>3. CASE payload.source = "servers"
    <2>1. /\ parseServer(x).players \in Nat /\ parseServer(y).players \in Nat
          /\ parseServer(z).players \in Nat
      BY <1>3, EntryTypes
    <2>2. \A v, w : Before(v, w) <=> parseServer(v).players > parseServer(w).players
      BY <1>3 DEF Before
    <2> HIDE DEF x, y, z
    <2>3. QED
      BY <2>1, <2>2 DEF StrictWeak, Ties, x, y, z
  <1>4. CASE payload.source = "server"
    BY <1>4 DEF StrictWeak, Ties, Before
  <1>5. CASE payload.source = "mods"
    <2>1. /\ x.date \in Nat /\ y.date \in Nat /\ z.date \in Nat
          /\ x.name \in Nat /\ y.name \in Nat /\ z.name \in Nat
          /\ x.downloads \in Nat /\ y.downloads \in Nat /\ z.downloads \in Nat
      BY <1>5, EntryTypes
    <2>2. \A v, w : Before(v, w) <=> sortMods(v, w)
      BY <1>5 DEF Before
    <2> DEFINE by == payload.query.sort
    <2> HIDE DEF x, y, z
    <2>3. CASE by = "downloads"
      <3>1. \A v, w : Before(v, w) <=> v.downloads > w.downloads
        BY <2>2, <2>3 DEF sortMods
      <3>2. QED
        BY <2>1, <3>1 DEF StrictWeak, Ties, x, y, z
    <2>4. CASE by = "name_asc"
      <3>1. \A v, w : Before(v, w) <=> v.name < w.name
        BY <2>2, <2>4 DEF sortMods
      <3>2. QED
        BY <2>1, <3>1 DEF StrictWeak, Ties, x, y, z
    <2>5. CASE by = "name_desc"
      <3>1. \A v, w : Before(v, w) <=> v.name > w.name
        BY <2>2, <2>5 DEF sortMods
      <3>2. QED
        BY <2>1, <3>1 DEF StrictWeak, Ties, x, y, z
    <2>6. CASE by \in {"newest", "updated"}
      <3>1. \A v, w : Before(v, w) <=> dateAfter(v.date, w.date)
        BY <2>2, <2>6 DEF sortMods
      <3>2. QED
        BY <2>1, <3>1, DateAfterIsLater DEF StrictWeak, Ties, x, y, z
    <2>7. CASE by \notin {"downloads", "name_asc", "name_desc", "newest", "updated"}
      <3>1. \A v, w : Before(v, w) <=> payload.query.text = 0 /\ dateAfter(v.date, w.date)
        BY <2>2, <2>7 DEF sortMods
      <3>2. QED
        BY <2>1, <3>1, DateAfterIsLater DEF StrictWeak, Ties, x, y, z
    <2>8. QED
      BY <2>3, <2>4, <2>5, <2>6, <2>7
  <1>6. QED
    BY <1>1, <1>2, <1>3, <1>4, <1>5, Sources

-----------------------------------------------------------------------------
(* The inductive invariant *)

Supported == ~(payload.source = "releases" /\ payload.query \notin Distributions)

\* All but the releases are read from the first entry to the last.
InOrder ==
    payload.source # "releases" =>
        \A i \in left : \A k \in DOMAIN payload.entries : i <= k => k \in left

\* What is wanted of the entries read is kept, each once.
Collected ==
    /\ IsFiniteSet(Listed) /\ Cardinality(Listed) = Len(items)
    /\ IF Supported THEN Listed = Wanted \ left ELSE items = <<>>

\* Until the list is sorted, its entries are in their places.
Increasing ==
    pc = "read" /\ payload.source # "releases" =>
        \A x, y \in DOMAIN items : x < y => items[x] < items[y]

Sorted ==
    pc = "listed" => \A x, y \in DOMAIN items : x < y =>
        \/ Before(Entry(items[x]), Entry(items[y]))
        \/ /\ ~Before(Entry(items[y]), Entry(items[x]))
           /\ items[x] < items[y] \/ payload.source = "releases"

Inv ==
    /\ TypeOK
    /\ pc # "read" => left = {}
    /\ pc = "invalid" => Supported /\ items = <<>>
    /\ InOrder /\ Collected /\ Increasing /\ Sorted

LEMMA PlacesAreNumbers ==
  ASSUME payload \in Payloads
  PROVE  DOMAIN payload.entries \subseteq Nat \ {0}
  BY PayloadAssumption

LEMMA UsableNews ==
  ASSUME payload.source = "news", NEW e
  PROVE  Usable(e) <=> normalize(e)
  BY DEF Usable

\* The entry read next is kept exactly when it is wanted: a duplicate is found
\* in the list, whatever unusable entries came before it.
LEMMA KeptIsWanted ==
  ASSUME Inv, Supported, NEW i \in Nexts, left # {}
  PROVE  i \in left /\ (Kept(i) <=> i \in Wanted)
  <1>1. /\ left \subseteq DOMAIN payload.entries /\ left \subseteq Nat
        /\ DOMAIN payload.entries \subseteq Nat \ {0}
    BY PlacesAreNumbers DEF Inv, TypeOK
  <1>2. i \in left /\ (payload.source # "releases" => \A j \in left : i <= j)
    <2>1. First(left) \in left /\ \A j \in left : First(left) <= j
      BY <1>1, FirstExists
    <2>2. QED
      BY <2>1 DEF Nexts
  <1>3. CASE payload.source # "news"
    BY <1>1, <1>2, <1>3 DEF Kept, Duplicate, Wanted
  <1>4. CASE payload.source = "news"
    <2> DEFINE Same(j) == normalize(Entry(j)) /\ Article(Entry(j)) = Article(Entry(i))
               J == {j \in 1 .. i - 1 : Same(j)}
    <2>1. i \in Wanted <=> Usable(Entry(i)) /\ J = {}
      BY <1>1, <1>2, <1>4 DEF Wanted
    <2>2. Listed = Wanted \ left /\ \A k \in DOMAIN items : items[k] \in Listed
      BY DEF Inv, Collected, Listed
    <2>3. ASSUME Duplicate(i) PROVE J # {}
      <3>1. PICK k \in DOMAIN items : Article(Entry(items[k])) = Article(Entry(i))
        BY <2>3 DEF Duplicate
      <3>2. items[k] \in Wanted /\ items[k] \notin left
        BY <2>2
      <3>3. items[k] \in DOMAIN payload.entries /\ normalize(Entry(items[k]))
        BY <1>4, <3>2, UsableNews DEF Wanted
      <3>4. ~(i <= items[k])
        BY <1>2, <1>4, <3>2, <3>3 DEF Inv, InOrder
      <3>5. items[k] \in 1 .. i - 1
        BY <1>1, <1>2, <3>3, <3>4
      <3>6. QED
        BY <3>1, <3>3, <3>5
    <2>4. ASSUME J # {} PROVE Duplicate(i)
      <3>0. J \subseteq Nat
        OBVIOUS
      <3>1. First(J) \in J /\ \A j \in J : First(J) <= j
        <4> HIDE DEF J
        <4>1. QED
          BY <2>4, <3>0, FirstExists
      <3> DEFINE m == First(J)
      <3>2. m \in 1 .. i - 1 /\ Same(m)
        BY <3>1
      <3>3. DOMAIN payload.entries = 1 .. Len(payload.entries) /\ Len(payload.entries) \in Nat
        BY PayloadAssumption DEF Inv, TypeOK
      <3>4. m \in DOMAIN payload.entries /\ m \notin left /\ m \in Nat /\ i \in Nat
        BY <1>1, <1>2, <1>4, <3>2, <3>3
      <3>5. ASSUME NEW j \in 1 .. m - 1, normalize(Entry(j)),
                   Article(Entry(j)) = Article(Entry(m))
            PROVE  FALSE
        <4>1. j \in 1 .. i - 1 /\ Same(j) /\ ~(m <= j)
          <5> HIDE DEF m
          <5>1. QED
            BY <3>2, <3>4, <3>5
        <4>2. QED
          BY <3>1, <4>1
      <3> HIDE DEF m, J
      <3>6. m \in Wanted
        BY <1>4, <3>2, <3>4, <3>5, UsableNews DEF Wanted
      <3>7. m \in Listed
        BY <2>2, <3>4, <3>6
      <3>8. PICK k \in DOMAIN items : items[k] = m
        BY <3>7 DEF Listed
      <3>9. QED
        BY <1>4, <3>2, <3>8 DEF Duplicate
    <2>5. QED
      BY <1>2, <2>1, <2>3, <2>4 DEF Kept
  <1>5. QED
    BY <1>2, <1>3, <1>4

LEMMA InitInv == ASSUME Init PROVE Inv
  <1>1. TypeOK /\ pc = "read" /\ items = <<>> /\ left = DOMAIN payload.entries
    BY DEF Init, TypeOK
  <1>2. Listed = {}
    BY <1>1 DEF Listed
  <1>3. Wanted \subseteq left
    BY <1>1 DEF Wanted
  <1>4. Cardinality(Listed) = Len(items) /\ IsFiniteSet(Listed)
    BY <1>1, <1>2, FS_EmptySet
  <1>5. Collected
    BY <1>1, <1>2, <1>3, <1>4 DEF Collected
  <1>6. InOrder
    BY <1>1 DEF InOrder
  <1>7. Increasing /\ Sorted
    BY <1>1 DEF Increasing, Sorted
  <1>8. QED
    BY <1>1, <1>5, <1>6, <1>7 DEF Inv

\* While the payload stays, so do what it asks for and the order of its list.
LEMMA PayloadKeeps ==
  ASSUME payload' = payload
  PROVE  /\ \A i : Entry(i)' = Entry(i)
         /\ Wanted' = Wanted
         /\ Supported' <=> Supported
         /\ \A a, b : Before(a, b)' <=> Before(a, b)
  BY DEF Entry, Wanted, Usable, parseRelease, Search, Supported, Before, sortMods

LEMMA InvRead == ASSUME Inv, Read PROVE Inv'
  <1>1. /\ pc = "read" /\ left # {} /\ Supported
        /\ payload' = payload /\ pc' = pc
    BY DEF Read, Supported
  <1>2. PICK i \in Nexts : left' = left \ {i} /\ items' = Keep(i)
    BY DEF Read
  <1>3. /\ left \subseteq DOMAIN payload.entries /\ left \subseteq Nat
        /\ DOMAIN payload.entries \subseteq Nat \ {0}
        /\ items \in Seq(DOMAIN payload.entries) /\ payload \in Payloads
    BY PlacesAreNumbers DEF Inv, TypeOK
  <1>4. i \in left /\ (Kept(i) <=> i \in Wanted)
    BY <1>1, KeptIsWanted
  <1>5. payload.source # "releases" => \A j \in left : i <= j
    BY <1>1, <1>3, FirstExists DEF Nexts
  <1>6. items' \in Seq(DOMAIN payload.entries)
    <2>1. i \in DOMAIN payload.entries
      BY <1>3, <1>4
    <2>2. Append(items, i) \in Seq(DOMAIN payload.entries)
      BY <1>3, <2>1
    <2>3. QED
      BY <1>2, <1>3, <2>2 DEF Keep
  <1>7. TypeOK'
    BY <1>1, <1>2, <1>3, <1>6 DEF TypeOK
  <1>8. InOrder'
    <2>1. ASSUME payload.source # "releases", NEW j \in left', NEW k \in DOMAIN payload.entries,
                 j <= k
          PROVE  k \in left'
      <3>1. j \in left /\ j # i /\ k \in left
        BY <1>2, <2>1 DEF Inv, InOrder
      <3>2. j \in Nat /\ i \in Nat /\ i <= j /\ k \in Nat
        BY <1>3, <1>4, <1>5, <2>1, <3>1
      <3>3. k # i
        BY <2>1, <3>1, <3>2
      <3>4. QED
        BY <1>2, <3>1, <3>3
    <2>2. QED
      BY <1>1, <2>1 DEF InOrder
  <1>9. Listed = Wanted \ left /\ IsFiniteSet(Listed) /\ Cardinality(Listed) = Len(items)
    BY <1>1 DEF Inv, Collected
  <1>10. Listed' = IF Kept(i) THEN Listed \cup {i} ELSE Listed
    BY <1>2, <1>3, <1>4 DEF Listed, Keep
  <1>11. Collected'
    <2>1. Wanted' = Wanted /\ Supported'
      BY <1>1, PayloadKeeps
    <2>2. Listed' = Wanted \ left'
      BY <1>2, <1>4, <1>9, <1>10
    <2>3. IsFiniteSet(Listed') /\ Cardinality(Listed') = Len(items')
      <3>1. CASE Kept(i)
        <4>1. Listed' = Listed \cup {i} /\ i \notin Listed
          BY <1>4, <1>9, <1>10, <3>1
        <4>2. IsFiniteSet(Listed') /\ Cardinality(Listed') = Cardinality(Listed) + 1
          BY <1>9, <4>1, FS_AddElement, Zenon
        <4>3. Len(items') = Len(items) + 1
          BY <1>2, <1>3, <1>4, <3>1 DEF Keep
        <4>4. QED
          BY <1>9, <4>2, <4>3
      <3>2. CASE ~Kept(i)
        BY <1>2, <1>9, <1>10, <3>2 DEF Keep
      <3>3. QED
        BY <3>1, <3>2
    <2>4. QED
      BY <2>1, <2>2, <2>3 DEF Collected
  <1>12. Increasing'
    <2>1. CASE payload.source = "releases"
      BY <1>1, <2>1 DEF Increasing
    <2>2. CASE payload.source # "releases"
      <3>1. \A x, y \in DOMAIN items : x < y => items[x] < items[y]
        BY <1>1, <2>2 DEF Inv, Increasing
      <3>2. ASSUME NEW x \in DOMAIN items PROVE items[x] < i
        <4>1. items[x] \in Listed /\ items[x] \in DOMAIN payload.entries
          BY <1>3 DEF Listed
        <4>2. items[x] \notin left
          BY <1>9, <4>1
        <4>3. ~(i <= items[x])
          BY <1>4, <2>2, <4>1, <4>2 DEF Inv, InOrder
        <4>4. QED
          BY <1>3, <1>4, <4>1, <4>3
      <3>3. CASE Kept(i)
        <4>1. /\ DOMAIN items = 1 .. Len(items) /\ Len(items) \in Nat
              /\ DOMAIN items' = 1 .. Len(items) + 1
              /\ items'[Len(items) + 1] = i
              /\ \A x \in DOMAIN items : items'[x] = items[x]
          BY <1>2, <1>3, <1>4, <3>3 DEF Keep
        <4>2. ASSUME NEW x \in DOMAIN items', NEW y \in DOMAIN items', x < y
              PROVE  items'[x] < items'[y]
          <5>1. CASE y \in DOMAIN items
            BY <3>1, <4>1, <4>2, <5>1
          <5>2. CASE y = Len(items) + 1
            <6>1. x \in DOMAIN items
              BY <4>1, <4>2, <5>2
            <6>2. QED
              BY <3>2, <4>1, <5>2, <6>1
          <5>3. QED
            BY <4>1, <4>2, <5>1, <5>2
        <4>3. QED
          BY <4>2 DEF Increasing
      <3>4. CASE ~Kept(i)
        BY <1>2, <3>1, <3>4 DEF Increasing, Keep
      <3>5. QED
        BY <3>3, <3>4
    <2>3. QED
      BY <2>1, <2>2
  <1>13. Sorted'
    BY <1>1 DEF Sorted
  <1>14. QED
    BY <1>1, <1>7, <1>8, <1>11, <1>12, <1>13 DEF Inv

LEMMA InvSort == ASSUME Inv, Sort PROVE Inv'
  <1>1. /\ pc = "read" /\ left = {} /\ Supported
        /\ payload' = payload /\ left' = left /\ pc' = "listed"
    BY DEF Sort, Supported
  <1>2. PICK p \in SliceStable(items) : items' = [k \in DOMAIN items |-> items[p[k]]]
    BY DEF Sort
  <1>3. /\ items \in Seq(DOMAIN payload.entries) /\ payload \in Payloads
        /\ DOMAIN items = 1 .. Len(items) /\ Len(items) \in Nat
        /\ DOMAIN payload.entries \subseteq Nat \ {0}
    BY PlacesAreNumbers DEF Inv, TypeOK
  <1>4. /\ p \in [DOMAIN items -> DOMAIN items]
        /\ \A k \in DOMAIN items : \E j \in DOMAIN items : p[j] = k
    BY DEF SliceStable, Bijection, Injection, Surjection
  <1>5. \A i, j \in DOMAIN items : i < j =>
           \/ Before(Entry(items[p[i]]), Entry(items[p[j]]))
           \/ ~Before(Entry(items[p[j]]), Entry(items[p[i]])) /\ p[i] < p[j]
    BY DEF SliceStable
  <1>6. /\ items' \in Seq(DOMAIN payload.entries)
        /\ DOMAIN items' = DOMAIN items /\ Len(items') = Len(items)
        /\ \A k \in DOMAIN items : items'[k] = items[p[k]]
    <2> DEFINE D == DOMAIN payload.entries
               n == Len(items)
    <2>1. \A k \in 1 .. n : items[p[k]] \in D
      <3>1. \A j \in DOMAIN items : items[j] \in D
        BY <1>3
      <3>2. \A k \in 1 .. n : p[k] \in DOMAIN items
        BY <1>3, <1>4
      <3>3. QED
        BY <3>1, <3>2
    <2>2. items' = [k \in 1 .. n |-> items[p[k]]] /\ n \in Nat
      BY <1>2, <1>3
    <2> HIDE DEF D, n
    <2>3. items' \in Seq(D) /\ Len(items') = n /\ DOMAIN items' = 1 .. n
      BY <2>1, <2>2
    <2>4. QED
      BY <1>3, <2>2, <2>3 DEF D, n
  <1>7. TypeOK'
    BY <1>1, <1>3, <1>6 DEF TypeOK, Inv
  <1>8. Listed' = Listed
    BY <1>4, <1>6 DEF Listed
  <1>9. InOrder'
    BY <1>1 DEF InOrder
  <1>10. Collected'
    <2>1. Wanted' = Wanted /\ Supported'
      BY <1>1, PayloadKeeps
    <2>2. QED
      BY <1>1, <1>6, <1>8, <2>1 DEF Inv, Collected
  <1>11. Increasing'
    BY <1>1 DEF Increasing
  <1>12. Sorted'
    <2>1. \A i : Entry(i)' = Entry(i)
      BY <1>1, PayloadKeeps
    <2>2. \A a, b : Before(a, b)' <=> Before(a, b)
      BY <1>1, PayloadKeeps
    <2>3. ASSUME NEW x \in DOMAIN items, NEW y \in DOMAIN items, x < y
          PROVE  \/ Before(Entry(items'[x]), Entry(items'[y]))
                 \/ /\ ~Before(Entry(items'[y]), Entry(items'[x]))
                    /\ items'[x] < items'[y] \/ payload.source = "releases"
      <3>1. items'[x] = items[p[x]] /\ items'[y] = items[p[y]]
        BY <1>6
      <3>2. p[x] \in DOMAIN items /\ p[y] \in DOMAIN items
        BY <1>4
      <3>3. p[x] < p[y] => items[p[x]] < items[p[y]] \/ payload.source = "releases"
        BY <1>1, <3>2 DEF Inv, Increasing
      <3>4. QED
        BY <1>5, <2>3, <3>1, <3>3
    <2>4. QED
      BY <1>1, <1>6, <2>1, <2>2, <2>3 DEF Sorted
  <1>13. QED
    BY <1>1, <1>7, <1>9, <1>10, <1>11, <1>12 DEF Inv

LEMMA NextInv == ASSUME Inv, [Next]_vars PROVE Inv'
  <1>1. CASE Unsupported
    <2>1. /\ pc = "read" /\ ~Supported
          /\ payload' = payload /\ items' = items /\ left' = {} /\ pc' = "listed"
      BY <1>1 DEF Unsupported, Supported
    <2>2. items = <<>> /\ ~Supported'
      BY <2>1, PayloadKeeps DEF Inv, Collected
    <2>3. TypeOK'
      BY <2>1 DEF Inv, TypeOK
    <2>4. Collected'
      BY <2>1, <2>2 DEF Inv, Collected, Listed
    <2>5. InOrder' /\ Increasing' /\ Sorted'
      BY <2>1, <2>2 DEF InOrder, Increasing, Sorted
    <2>6. QED
      BY <2>1, <2>3, <2>4, <2>5 DEF Inv
  <1>2. CASE Read
    BY <1>2, InvRead
  <1>3. CASE Invalid
    <2>1. /\ pc = "read" /\ left = {} /\ items = <<>> /\ Supported
          /\ payload' = payload /\ items' = items /\ left' = left /\ pc' = "invalid"
      BY <1>3 DEF Invalid, Supported
    <2>2. Wanted' = Wanted /\ Supported'
      BY <2>1, PayloadKeeps
    <2>3. TypeOK'
      BY <2>1 DEF Inv, TypeOK
    <2>4. Collected'
      BY <2>1, <2>2 DEF Inv, Collected, Listed
    <2>5. InOrder' /\ Increasing' /\ Sorted'
      BY <2>1 DEF InOrder, Increasing, Sorted
    <2>6. QED
      BY <2>1, <2>2, <2>3, <2>4, <2>5 DEF Inv
  <1>4. CASE Sort
    BY <1>4, InvSort
  <1>5. CASE UNCHANGED vars
    <2>1. payload' = payload /\ left' = left /\ items' = items /\ pc' = pc
      BY <1>5 DEF vars
    <2>2. /\ Wanted' = Wanted /\ (Supported' <=> Supported)
          /\ \A i : Entry(i)' = Entry(i)
          /\ \A a, b : Before(a, b)' <=> Before(a, b)
      BY <2>1, PayloadKeeps
    <2>3. TypeOK' /\ InOrder' /\ Increasing'
      BY <2>1 DEF Inv, TypeOK, InOrder, Increasing
    <2>4. Collected'
      BY <2>1, <2>2 DEF Inv, Collected, Listed
    <2>5. Sorted'
      BY <2>1, <2>2 DEF Inv, Sorted
    <2>6. QED
      BY <2>1, <2>2, <2>3, <2>4, <2>5 DEF Inv
  <1>6. QED
    BY <1>1, <1>2, <1>3, <1>4, <1>5 DEF Next, Done

LEMMA Invariance == Spec => []Inv
  <1>1. Init => Inv
    BY InitInv
  <1>2. Inv /\ [Next]_vars => Inv'
    BY NextInv
  <1>3. QED
    BY <1>1, <1>2, PTL DEF Spec

-----------------------------------------------------------------------------
(* A sorted list exists *)

\* What the sort must put first: what is before, and of a tie the earlier one.
Goes(x, y) ==
    \/ Before(Entry(items[x]), Entry(items[y]))
    \/ ~Before(Entry(items[y]), Entry(items[x])) /\ x < y

LEMMA GoesIsTotal ==
  ASSUME TypeOK, NEW x \in DOMAIN items, NEW y \in DOMAIN items, NEW z \in DOMAIN items
  PROVE  /\ ~Goes(x, x)
         /\ Goes(x, y) => ~Goes(y, x)
         /\ Goes(x, y) /\ Goes(y, z) => Goes(x, z)
         /\ x # y => Goes(x, y) \/ Goes(y, x)
  <1> DEFINE B(i, j) == Before(Entry(items[i]), Entry(items[j]))
  <1>1. payload \in Payloads /\ \A i \in DOMAIN items : items[i] \in DOMAIN payload.entries
    BY DEF TypeOK
  <1>2. ASSUME NEW i \in DOMAIN items, NEW j \in DOMAIN items, NEW k \in DOMAIN items
        PROVE  /\ ~B(i, i)
               /\ B(i, j) /\ B(j, k) => B(i, k)
               /\ ~B(i, j) /\ ~B(j, i) /\ ~B(j, k) /\ ~B(k, j) => ~B(i, k) /\ ~B(k, i)
    <2>1. StrictWeak(Entry(items[i]), Entry(items[j]), Entry(items[k]))
      BY <1>1, SortsByStrictWeakOrder
    <2>2. QED
      BY <2>1 DEF StrictWeak, Ties
  <1>3. \A i, j : Goes(i, j) <=> B(i, j) \/ (~B(j, i) /\ i < j)
    BY DEF Goes
  <1>4. x \in Nat /\ y \in Nat /\ z \in Nat
    BY DEF TypeOK
  <1> HIDE DEF B
  <1>5. ~Goes(x, x) /\ (Goes(x, y) => ~Goes(y, x)) /\ (x # y => Goes(x, y) \/ Goes(y, x))
    BY <1>2, <1>3, <1>4
  <1>6. Goes(x, y) /\ Goes(y, z) => Goes(x, z)
    BY <1>2, <1>3, <1>4
  <1>7. QED
    BY <1>5, <1>6

\* The place of an entry in the sorted list: one more than what goes first.
Firsts(k) == {j \in DOMAIN items : Goes(j, k)}

Place(k) == Cardinality(Firsts(k)) + 1

LEMMA PlacesAreDistinct ==
  ASSUME TypeOK
  PROVE  /\ \A k \in DOMAIN items : Place(k) \in DOMAIN items
         /\ \A j, k \in DOMAIN items : Goes(j, k) => Place(j) < Place(k)
  <1>1. DOMAIN items = 1 .. Len(items) /\ Len(items) \in Nat
    BY DEF TypeOK
  <1>2. IsFiniteSet(DOMAIN items) /\ Cardinality(DOMAIN items) = Len(items)
    <2>1. /\ IsFiniteSet(1 .. Len(items))
          /\ Cardinality(1 .. Len(items)) = IF 1 > Len(items) THEN 0 ELSE Len(items) - 1 + 1
      BY <1>1, FS_Interval
    <2>2. QED
      BY <1>1, <2>1
  <1>3. \A k \in DOMAIN items : IsFiniteSet(Firsts(k)) /\ Cardinality(Firsts(k)) \in Nat
    BY <1>2, FS_Subset, FS_CardinalityType DEF Firsts
  <1>4. ASSUME NEW k \in DOMAIN items PROVE Place(k) \in DOMAIN items
    <2>1. Firsts(k) \subseteq DOMAIN items /\ k \notin Firsts(k)
      BY GoesIsTotal DEF Firsts
    <2>2. Firsts(k) # DOMAIN items
      BY <2>1
    <2>3. /\ Cardinality(Firsts(k)) <= Cardinality(DOMAIN items)
          /\ Cardinality(Firsts(k)) # Cardinality(DOMAIN items)
      BY <1>2, <2>1, <2>2, FS_Subset, Zenon
    <2>4. QED
      BY <1>1, <1>2, <1>3, <2>3 DEF Place
  <1>5. ASSUME NEW j \in DOMAIN items, NEW k \in DOMAIN items, Goes(j, k)
        PROVE  Place(j) < Place(k)
    <2>1. Firsts(j) \subseteq Firsts(k)
      BY <1>5, GoesIsTotal DEF Firsts
    <2>2. j \in Firsts(k) /\ j \notin Firsts(j)
      BY <1>5, GoesIsTotal DEF Firsts
    <2>3. Firsts(k) # Firsts(j)
      BY <2>2
    <2>4. /\ Cardinality(Firsts(j)) <= Cardinality(Firsts(k))
          /\ Cardinality(Firsts(j)) # Cardinality(Firsts(k))
      BY <1>3, <2>1, <2>3, FS_Subset, Zenon
    <2>5. QED
      BY <1>3, <2>4 DEF Place
  <1>6. QED
    BY <1>4, <1>5

LEMMA SortedExists == ASSUME TypeOK PROVE SliceStable(items) # {}
  <1> DEFINE D == DOMAIN items
             place == [k \in D |-> Place(k)]
             p == [i \in D |-> CHOOSE k \in D : place[k] = i]
  <1>1. \A k \in D : place[k] \in D
    BY PlacesAreDistinct
  <1>2. \A j, k \in D : Goes(j, k) => place[j] < place[k]
    BY PlacesAreDistinct
  <1>3. \A j, k \in D : j # k => Goes(j, k) \/ Goes(k, j)
    BY GoesIsTotal
  <1>4. D = 1 .. Len(items) /\ Len(items) \in Nat
    BY DEF TypeOK
  <1>5. \A j, k \in D : place[j] = place[k] => j = k
    <2> HIDE DEF place
    <2>1. QED
      BY <1>1, <1>2, <1>3, <1>4
  <1>6. place \in Injection(D, D) /\ IsFiniteSet(D)
    <2>1. IsFiniteSet(D)
      BY <1>4, FS_Interval
    <2>2. place \in [D -> D]
      BY <1>1
    <2>3. \A j, k \in D : place[j] = place[k] => j = k
      BY <1>5
    <2> HIDE DEF place, D
    <2>4. QED
      BY <2>1, <2>2, <2>3 DEF Injection, IsInjective
  <1>7. \A i \in D : \E k \in D : place[k] = i
    <2>1. place \in Surjection(D, D)
      <3> HIDE DEF place, D
      <3>1. QED
        BY <1>6, FS_Injection
    <2> HIDE DEF place
    <2>2. QED
      BY <2>1 DEF Surjection
  <1> HIDE DEF place
  <1>8. \A i \in D : p[i] \in D /\ place[p[i]] = i
    BY <1>7
  <1>9. p \in [D -> D]
    BY <1>7
  <1> HIDE DEF p
  <1>10. p \in Bijection(D, D)
    <2>1. \A i, j \in D : p[i] = p[j] => i = j
      BY <1>8
    <2>2. \A k \in D : \E i \in D : p[i] = k
      BY <1>1, <1>5, <1>8
    <2> HIDE DEF D
    <2>3. p \in Injection(D, D)
      BY <1>9, <2>1 DEF Injection, IsInjective
    <2>4. p \in Surjection(D, D)
      BY <1>9, <2>2 DEF Surjection
    <2>5. QED
      BY <2>3, <2>4 DEF Bijection
  <1>11. ASSUME NEW i \in D, NEW j \in D, i < j PROVE Goes(p[i], p[j])
    <2>1. p[i] \in D /\ p[j] \in D /\ place[p[i]] = i /\ place[p[j]] = j
      BY <1>8
    <2>2. p[i] # p[j] /\ ~(j < i)
      BY <1>4, <1>11, <2>1
    <2>3. ~Goes(p[j], p[i])
      BY <1>2, <2>1, <2>2
    <2>4. QED
      BY <1>3, <2>1, <2>2, <2>3
  <1>12. p \in SliceStable(items)
    BY <1>10, <1>11 DEF SliceStable, Goes
  <1>13. QED
    BY <1>12

-----------------------------------------------------------------------------
(* What a caller gets *)

\* The list under construction holds places of the payload.
THEOREM TypeCorrect == Spec => []TypeOK
  <1>1. Inv => TypeOK
    BY DEF Inv
  <1>2. QED
    BY <1>1, Invariance, PTL

\* Every list is in the order its reader expects, and, except for versions that
\* compare as equal, the payload determines it.
THEOREM ListsAreOrdered == Spec => []Ordered
  <1>1. ASSUME Inv PROVE Ordered
    <2>1. SUFFICES ASSUME pc = "listed",
                          NEW x \in DOMAIN items, NEW y \in DOMAIN items, x < y
                   PROVE  /\ ~Ahead(Entry(items[y]), Entry(items[x]))
                          /\ \/ Ahead(Entry(items[x]), Entry(items[y]))
                             \/ items[x] < items[y]
                             \/ payload.source = "releases"
      BY DEF Ordered
    <2>2. payload \in Payloads /\ items[x] \in DOMAIN payload.entries
          /\ items[y] \in DOMAIN payload.entries
      BY <1>1 DEF Inv, TypeOK
    <2>3. \/ Before(Entry(items[x]), Entry(items[y]))
          \/ /\ ~Before(Entry(items[y]), Entry(items[x]))
             /\ items[x] < items[y] \/ payload.source = "releases"
      BY <1>1, <2>1 DEF Inv, Sorted
    <2>4. /\ Before(Entry(items[x]), Entry(items[y])) <=> Ahead(Entry(items[x]), Entry(items[y]))
          /\ Before(Entry(items[y]), Entry(items[x])) <=> Ahead(Entry(items[y]), Entry(items[x]))
      BY <2>2, BeforeIsAhead
    <2>5. Before(Entry(items[x]), Entry(items[y])) => ~Before(Entry(items[y]), Entry(items[x]))
      BY <2>2, SortsByStrictWeakOrder DEF StrictWeak
    <2>6. QED
      BY <2>3, <2>4, <2>5
  <1>2. QED
    BY <1>1, Invariance, PTL

\* The list holds exactly what is wanted of the payload, each entry once: no bad
\* entry ends it or hides another one.
THEOREM EntriesCostThemselves == Spec => []BadEntriesCostThemselves
  <1>1. ASSUME Inv PROVE BadEntriesCostThemselves
    <2>1. ASSUME pc = "listed", Supported
          PROVE  Listed = Wanted /\ Len(items) = Cardinality(Wanted)
      BY <1>1, <2>1 DEF Inv, Collected
    <2>2. ASSUME pc = "invalid" PROVE Wanted = {}
      BY <1>1, <2>2 DEF Inv, Collected, Listed
    <2>3. QED
      BY <2>1, <2>2 DEF BadEntriesCostThemselves, Supported
  <1>2. QED
    BY <1>1, Invariance, PTL

\* A server of the current layout is called what its last heading says, whatever
\* labels stand around it, and no restriction of a card is missed, for pages of
\* any length.
THEOREM HeadingsName == Spec => []HeadingNames
  <1>1. ASSUME Inv PROVE HeadingNames
    <2>1. SUFFICES ASSUME payload.source = "servers", NEW i \in Listed,
                          NEW k \in DOMAIN Entry(i).elements
                   PROVE  /\ /\ Entry(i).current
                             /\ Entry(i).elements[k].is = "heading"
                             /\ Entry(i).elements[k].text # ""
                             /\ \A j \in k + 1 .. Len(Entry(i).elements) :
                                   Entry(i).elements[j].is # "heading"
                             => parseServer(Entry(i)).name = Entry(i).elements[k].text
                          /\ \/ Entry(i).elements[k].is = "abbr"
                             \/ Entry(i).elements[k].is = "icon" /\ Entry(i).current
                             => Entry(i).elements[k].marks \subseteq parseServer(Entry(i)).restricted
      BY DEF HeadingNames
    <2>2. payload \in Payloads /\ i \in DOMAIN payload.entries
      BY <1>1 DEF Inv, TypeOK, Listed
    <2>3. /\ Len(Entry(i).elements) \in Nat
          /\ DOMAIN Entry(i).elements = 1 .. Len(Entry(i).elements)
          /\ \A j \in DOMAIN Entry(i).elements : Entry(i).elements[j].n \in Nat
          /\ Entry(i).current \in BOOLEAN
      BY <2>1, <2>2, PayloadAssumption DEF Entry
    <2>4. ReadSoFar(parseServer(Entry(i)), Entry(i), Len(Entry(i).elements))
      BY <2>3, CardIsRead
    <2>5. QED
      BY <2>3, <2>4 DEF ReadSoFar
  <1>2. QED
    BY <1>1, Invariance, PTL

\* Whatever was read, the list has a sorted order: the contract the model takes
\* sort.SliceStable for can be met, so that Sort never stops a listing.
THEOREM SortAlwaysEnds == Spec => [](SliceStable(items) # {})
  <1>1. Inv => SliceStable(items) # {}
    BY SortedExists DEF Inv
  <1>2. QED
    BY <1>1, Invariance, PTL
=============================================================================
