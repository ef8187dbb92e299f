--------------------------- MODULE ModpackProofs ---------------------------
(***************************************************************************)
(* Theorems about Modpack, for every build, every catalog and every number *)
(* of releases, in any order.                                              *)
(***************************************************************************)
EXTENDS Modpack, FiniteSetTheorems, TLAPS

-----------------------------------------------------------------------------
(* Loops. A loop over a list is a function of the number of rounds: it       *)
(* exists, and what holds before a round and is kept by it holds at the end. *)

LEMMA NatOrder ==
  \E R : IsWellFoundedOn(R, Nat) /\ \A x, y \in Nat : <<y, x>> \in R <=> y < x
  <1>1. IsWellFoundedOn(OpToRel(<, Nat), Nat)
    BY NatLessThanWellFounded
  <1>2. \A x, y \in Nat : <<y, x>> \in OpToRel(<, Nat) <=> y < x
    BY DEF OpToRel
  <1>3. QED
    BY <1>1, <1>2

LEMMA LeastExists ==
  ASSUME NEW S, S \subseteq Nat, S # {}
  PROVE  \E x \in S : \A y \in S : x <= y
  <1>1. PICK R : IsWellFoundedOn(R, Nat) /\ \A x, y \in Nat : <<y, x>> \in R <=> y < x
    BY NatOrder
  <1>2. PICK x \in S : \A y \in S : ~(<<y, x>> \in R)
    BY <1>1, WFMin
  <1>3. ASSUME NEW y \in S PROVE x <= y
    <2>1. x \in Nat /\ y \in Nat
      OBVIOUS
    <2>2. ~(y < x)
      BY <1>1, <1>2, <2>1
    <2>3. QED
      BY <2>1, <2>2
  <1>4. QED
    BY <1>3

LEMMA EveryRound ==
  ASSUME NEW N \in Nat, NEW S, 0 \in S,
         \A n \in 0 .. N - 1 : n \in S => n + 1 \in S
  PROVE  0 .. N \subseteq S
  <1> DEFINE T == (0 .. N) \ S
  <1>1. CASE T = {}
    BY <1>1
  <1>2. CASE T # {}
    <2>0. T \subseteq Nat
      OBVIOUS
    <2>1. PICK x \in T : \A y \in T : x <= y
      <3> HIDE DEF T
      <3>1. QED
        BY <1>2, <2>0, LeastExists
    <2>2. x \in 0 .. N /\ x \notin S /\ x # 0
      BY <2>1
    <2>3. x - 1 \in 0 .. N - 1 /\ ~(x <= x - 1) /\ (x - 1) + 1 = x
      BY <2>2
    <2>4. x - 1 \in S
      BY <2>1, <2>3
    <2>5. QED
      BY <2>2, <2>3, <2>4
  <1>3. QED
    BY <1>1, <1>2

\* f[n] is the state after n rounds of step from a.
IsLoop(f, N, D, a, step) ==
    /\ f \in [0 .. N -> D]
    /\ f[0] = a
    /\ \A n \in 1 .. N : f[n] = step[<<n, f[n - 1]>>]

LEMMA LoopExists ==
  ASSUME NEW N \in Nat, NEW D, NEW a \in D, NEW step \in [(1 .. N) \X D -> D]
  PROVE  \E f : IsLoop(f, N, D, a, step)
  <1> DEFINE Upto(f, m) == /\ f \in [0 .. m -> D]
                           /\ f[0] = a
                           /\ \A n \in 1 .. m : f[n] = step[<<n, f[n - 1]>>]
             S == {m \in 0 .. N : \E f : Upto(f, m)}
  <1>1. 0 \in S
    <2>1. Upto([n \in 0 .. 0 |-> a], 0)
      OBVIOUS
    <2>2. QED
      <3> HIDE DEF Upto
      <3>1. QED
        BY <2>1
  <1>2. ASSUME NEW m \in 0 .. N - 1, m \in S PROVE m + 1 \in S
    <2>1. PICK f : Upto(f, m)
      BY <1>2
    <2> DEFINE g == [n \in 0 .. m + 1 |-> IF n <= m THEN f[n] ELSE step[<<m + 1, f[m]>>]]
    <2>2. f[m] \in D /\ m + 1 \in 1 .. N
      BY <2>1
    <2>3. step[<<m + 1, f[m]>>] \in D
      BY <2>2
    <2>4. g \in [0 .. m + 1 -> D]
      BY <2>1, <2>3
    <2>5. g[0] = a
      BY <2>1
    <2>6. ASSUME NEW n \in 1 .. m + 1 PROVE g[n] = step[<<n, g[n - 1]>>]
      <3>1. n - 1 \in 0 .. m /\ g[n - 1] = f[n - 1]
        OBVIOUS
      <3>2. CASE n <= m
        BY <2>1, <3>1, <3>2
      <3>3. CASE n = m + 1
        <4>1. n \in 0 .. m + 1 /\ ~(n <= m) /\ n - 1 = m
          BY <3>3
        <4>2. g[n] = step[<<m + 1, f[m]>>]
          BY <4>1
        <4>3. g[n - 1] = f[m]
          BY <3>1, <4>1
        <4> HIDE DEF g
        <4>4. QED
          BY <3>3, <4>2, <4>3
      <3>4. QED
        BY <3>2, <3>3
    <2>7. Upto(g, m + 1) /\ m + 1 \in 0 .. N
      <3> HIDE DEF g
      <3>1. QED
        BY <2>4, <2>5, <2>6
    <2>8. QED
      <3> HIDE DEF g, Upto
      <3>1. QED
        BY <2>7
  <1>3. N \in S
    <2> HIDE DEF S
    <2>1. 0 .. N \subseteq S
      BY <1>1, <1>2, EveryRound
    <2>2. QED
      BY <2>1
  <1>4. PICK f : Upto(f, N)
    BY <1>3
  <1>5. QED
    BY <1>4 DEF IsLoop

-----------------------------------------------------------------------------
(* Versions *)

\* Semantic precedence is a strict total order of versions.
LEMMA PrecedesLaws ==
  ASSUME NEW a \in Versions, NEW b \in Versions, NEW c \in Versions
  PROVE  /\ ~Precedes(a, a)
         /\ ~(Precedes(a, b) /\ Precedes(b, a))
         /\ Precedes(a, b) /\ Precedes(b, c) => Precedes(a, c)
         /\ a # b => Precedes(a, b) \/ Precedes(b, a)
  BY FinalAssumption DEF Precedes, Versions

LEMMA CompareSign ==
  ASSUME NEW a \in Versions, NEW b \in Versions
  PROVE  CompareVersions(a, b) > 0 <=> Precedes(b, a)
  <1>1. CASE Precedes(b, a)
    <2>1. ~Precedes(a, b)
      BY <1>1, PrecedesLaws
    <2>2. CompareVersions(a, b) = 1
      BY <1>1, <2>1 DEF CompareVersions
    <2>3. QED
      BY <1>1, <2>2
  <1>2. CASE ~Precedes(b, a)
    <2>1. CompareVersions(a, b) \in {-1, 0}
      BY <1>2 DEF CompareVersions
    <2>2. QED
      BY <1>2, <2>1
  <1>3. QED
    BY <1>1, <1>2

LEMMA NoVersionType == NoVersion \in Versions
  BY FinalAssumption DEF NoVersion, Versions

-----------------------------------------------------------------------------
(* newestVersion *)

\* y does not come before best among the updates.
NotBeaten(best, y) ==
    /\ isStableRelease(y.type) => isStableRelease(best.type)
    /\ (isStableRelease(y.type) <=> isStableRelease(best.type))
          => ~Precedes(best.version, y.version)

\* What the loop has found in the first n releases.
BestOf(best, vs, installed, n) ==
    \/ best = NoTarget /\ \A i \in 1 .. n : ~IsUpgradeTarget(installed, vs[i])
    \/ /\ \E i \in 1 .. n : best = vs[i]
       /\ best # NoTarget /\ IsUpgradeTarget(installed, best)
       /\ \A i \in 1 .. n : IsUpgradeTarget(installed, vs[i]) => NotBeaten(best, vs[i])

\* The decision of one round is right for the releases seen before it.
LEMMA BetterKeepsBest ==
  ASSUME NEW best, NEW x, NEW y, best.version \in Versions, x.version \in Versions,
         y.version \in Versions, NotBeaten(best, y), best # NoTarget
  PROVE  /\ Better(best, x) => NotBeaten(x, y)
         /\ ~Better(best, x) => NotBeaten(best, x)
  <1>1. /\ Precedes(best.version, x.version) /\ Precedes(x.version, y.version)
              => Precedes(best.version, y.version)
        /\ CompareVersions(x.version, best.version) > 0
              <=> Precedes(best.version, x.version)
    BY PrecedesLaws, CompareSign
  <1>2. QED
    BY <1>1 DEF Better, NotBeaten

LEMMA NewestIsBest ==
  ASSUME NEW vs, Len(vs) \in Nat, DOMAIN vs = 1 .. Len(vs),
         \A i \in DOMAIN vs : vs[i].version \in Versions,
         NEW installed
  PROVE  BestOf(newestVersion(vs, installed), vs, installed, Len(vs))
  <1> DEFINE N == Len(vs)
             D == {vs[i] : i \in DOMAIN vs} \cup {NoTarget}
             Round(n, b) == IF IsUpgradeTarget(installed, vs[n]) /\ Better(b, vs[n])
                            THEN vs[n] ELSE b
             step == [p \in (1 .. N) \X D |-> Round(p[1], p[2])]
             Loop(f) == f = [n \in 0 .. N |->
                               IF n = 0 THEN NoTarget
                               ELSE IF IsUpgradeTarget(installed, vs[n]) /\ Better(f[n - 1], vs[n])
                                    THEN vs[n] ELSE f[n - 1]]
             best == CHOOSE f : Loop(f)
  <1>1. newestVersion(vs, installed) = best[N]
    BY DEF newestVersion
  <1>2. \E f : Loop(f)
    <2>1. step \in [(1 .. N) \X D -> D]
      OBVIOUS
    <2>2. PICK f : IsLoop(f, N, D, NoTarget, step)
      <3>1. NoTarget \in D /\ N \in Nat
        OBVIOUS
      <3> HIDE DEF step, D, N
      <3>2. QED
        BY <2>1, <3>1, LoopExists
    <2>3. ASSUME NEW n \in 1 .. N PROVE step[<<n, f[n - 1]>>] = Round(n, f[n - 1])
      <3>1. n - 1 \in 0 .. N
        OBVIOUS
      <3>2. f[n - 1] \in D
        <4> HIDE DEF D, N, step
        <4>1. QED
          BY <2>2, <3>1 DEF IsLoop
      <3>3. QED
        BY <3>2
    <2>4. Loop(f)
      <3>1. \A n \in 0 .. N : f[n] = IF n = 0 THEN NoTarget ELSE Round(n, f[n - 1])
        <4> SUFFICES ASSUME NEW n \in 0 .. N
                     PROVE  f[n] = IF n = 0 THEN NoTarget ELSE Round(n, f[n - 1])
          OBVIOUS
        <4>1. n = 0 \/ n \in 1 .. N
          OBVIOUS
        <4> HIDE DEF step, Round, N, D
        <4>2. QED
          BY <2>2, <2>3, <4>1 DEF IsLoop
      <3> HIDE DEF step, D
      <3>2. QED
        BY <2>2, <3>1 DEF IsLoop
    <2>5. QED
      BY <2>4
  <1>3. Loop(best)
    <2> HIDE DEF Loop
    <2>1. QED
      BY <1>2
  <1>4. best[0] = NoTarget /\ \A n \in 1 .. N : best[n] = Round(n, best[n - 1])
    <2> HIDE DEF best
    <2>1. QED
      BY <1>3
  <1> HIDE DEF best, Loop, step
  <1> DEFINE S == {n \in 0 .. N : BestOf(best[n], vs, installed, n)}
  <1>5. 0 \in S
    BY <1>4 DEF BestOf
  <1>6. ASSUME NEW n \in 0 .. N - 1, n \in S PROVE n + 1 \in S
    <2> DEFINE b == best[n]
               x == vs[n + 1]
    <2>1. /\ BestOf(b, vs, installed, n)
          /\ x.version \in Versions
          /\ best[n + 1] = IF IsUpgradeTarget(installed, x) /\ Better(b, x) THEN x ELSE b
      BY <1>4, <1>6
    <2>2. \A i \in 1 .. n : vs[i].version \in Versions
      OBVIOUS
    <2> HIDE DEF b
    <2>3. CASE ~IsUpgradeTarget(installed, x)
      BY <2>1, <2>3 DEF BestOf
    <2>4. CASE IsUpgradeTarget(installed, x)
      <3>1. NotBeaten(x, x) /\ x # NoTarget
        <4>1. ~Precedes(x.version, x.version)
          BY <2>1, PrecedesLaws
        <4>2. NoTarget.version = NoVersion
          BY DEF NoTarget, Bare
        <4>3. x.version # NoVersion
          BY <2>4 DEF IsUpgradeTarget
        <4>4. QED
          BY <4>1, <4>2, <4>3 DEF NotBeaten
      <3>2. CASE b = NoTarget
        <4>1. Better(b, x)
          BY <3>2 DEF Better
        <4>2. \A i \in 1 .. n : ~IsUpgradeTarget(installed, vs[i])
          BY <2>1, <3>2 DEF BestOf
        <4>3. QED
          BY <2>1, <2>4, <3>1, <4>1, <4>2 DEF BestOf
      <3>3. CASE b # NoTarget
        <4>1. /\ b.version \in Versions /\ IsUpgradeTarget(installed, b)
              /\ \E i \in 1 .. n : b = vs[i]
              /\ \A i \in 1 .. n : IsUpgradeTarget(installed, vs[i]) => NotBeaten(b, vs[i])
          BY <2>1, <2>2, <3>3 DEF BestOf
        <4>2. CASE Better(b, x)
          <5>1. \A i \in 1 .. n : IsUpgradeTarget(installed, vs[i]) => NotBeaten(x, vs[i])
            BY <2>1, <2>2, <3>3, <4>1, <4>2, BetterKeepsBest
          <5>2. QED
            BY <2>1, <2>4, <3>1, <4>2, <5>1 DEF BestOf
        <4>3. CASE ~Better(b, x)
          <5>1. NotBeaten(b, x)
            BY <2>1, <2>2, <3>3, <4>1, <4>3, BetterKeepsBest
          <5>2. QED
            BY <2>1, <2>4, <3>3, <4>1, <4>3, <5>1 DEF BestOf
        <4>4. QED
          BY <4>2, <4>3
      <3>4. QED
        BY <3>2, <3>3
    <2>5. QED
      BY <2>3, <2>4
  <1>7. 0 .. N \subseteq S
    <2> HIDE DEF S
    <2>1. QED
      BY <1>5, <1>6, EveryRound
  <1>8. QED
    BY <1>1, <1>7
-----------------------------------------------------------------------------
(* Choosing and reporting *)

LEMMA FoundNamesVersion ==
  ASSUME NEW vs, Len(vs) \in Nat, DOMAIN vs = 1 .. Len(vs), NEW v
  PROVE  findVersion(vs, v).version = v
  <1> DEFINE same == {i \in DOMAIN vs : VersionEquals(vs[i].version, v)}
  <1>1. CASE same = {}
    BY <1>1 DEF findVersion, Bare
  <1>2. CASE same # {}
    <2>1. same \subseteq Nat
      OBVIOUS
    <2>2. Min(same) \in same
      <3> HIDE DEF same
      <3>1. \E x \in same : \A y \in same : x <= y
        BY <1>2, <2>1, LeastExists
      <3>2. QED
        BY <3>1 DEF Min
    <2>3. findVersion(vs, v) = vs[Min(same)]
      BY <1>2 DEF findVersion
    <2>4. QED
      BY <2>2, <2>3 DEF VersionEquals
  <1>3. QED
    BY <1>1, <1>2

\* What selectTargetVersion promises its caller.
Selected(t, info, installed) ==
    \/ /\ t = NoTarget
       /\ \A i \in DOMAIN info.versions : ~IsUpgradeTarget(installed, info.versions[i])
       /\ ~IsUpgradeTarget(installed, findVersion(info.versions, info.latest))
    \/ /\ t # NoTarget
       /\ t.version \in Versions
       /\ IsUpgradeTarget(installed, t)
       /\ t.version # info.latest =>
             \A i \in DOMAIN info.versions :
                IsUpgradeTarget(installed, info.versions[i]) => NotBeaten(t, info.versions[i])

LEMMA UpgradeIsVersion ==
  ASSUME NEW installed, NEW x, IsUpgradeTarget(installed, x)
  PROVE  x.version # NoVersion /\ x # NoTarget
  <1>1. NoTarget.version = NoVersion
    BY DEF NoTarget, Bare
  <1>2. QED
    BY <1>1 DEF IsUpgradeTarget

LEMMA SelectKeepsPromise ==
  ASSUME NEW info \in Infos, NEW installed
  PROVE  Selected(selectTargetVersion(info, installed), info, installed)
  <1> DEFINE vs == info.versions
             latest == findVersion(vs, info.latest)
             t == selectTargetVersion(info, installed)
  <1>1. /\ Len(vs) \in Nat /\ DOMAIN vs = 1 .. Len(vs) /\ info.latest \in Versions
        /\ \A i \in DOMAIN vs : vs[i].version \in Versions
    BY InfosAssumption
  <1>2. latest.version = info.latest
    BY <1>1, FoundNamesVersion
  <1>3. CASE IsUpgradeTarget(installed, latest)
    <2>1. info.latest # NoVersion /\ latest # NoTarget
      BY <1>2, <1>3, UpgradeIsVersion
    <2>2. t = latest
      BY <1>3, <2>1 DEF selectTargetVersion
    <2>3. QED
      BY <1>1, <1>2, <1>3, <2>1, <2>2 DEF Selected
  <1>4. CASE ~IsUpgradeTarget(installed, latest)
    <2>1. t = newestVersion(vs, installed)
      BY <1>4 DEF selectTargetVersion
    <2>2. BestOf(t, vs, installed, Len(vs))
      BY <1>1, <2>1, NewestIsBest
    <2> HIDE DEF t, vs
    <2>3. CASE t = NoTarget
      <3>1. \A i \in 1 .. Len(vs) : ~IsUpgradeTarget(installed, vs[i])
        BY <2>2, <2>3, UpgradeIsVersion DEF BestOf
      <3>2. QED
        BY <1>1, <1>4, <2>3, <3>1 DEF Selected, t, vs
    <2>4. CASE t # NoTarget
      <3>1. /\ \E i \in 1 .. Len(vs) : t = vs[i]
            /\ IsUpgradeTarget(installed, t)
            /\ \A i \in 1 .. Len(vs) :
                  IsUpgradeTarget(installed, vs[i]) => NotBeaten(t, vs[i])
        BY <2>2, <2>4 DEF BestOf
      <3>2. t.version \in Versions
        BY <1>1, <3>1
      <3>3. QED
        BY <1>1, <2>4, <3>1, <3>2 DEF Selected, t, vs
    <2>5. QED
      BY <2>3, <2>4
  <1>5. QED
    BY <1>3, <1>4

\* An entry tells what became of a mod: it was not asked for or not answered,
\* or it is what analyzeMod makes of the answer.
Failures == {"local_mod", "not_in_catalog", "catalog_error"}

Analysed(m, e, info) ==
    \/ \E reason \in Failures : e = NotUpdatable(m, reason)
    \/ info \in Infos /\ e = analyzeMod(m, info)

\* What an entry says by its status.
EntryMeans(m, e, info) ==
    /\ e.id = m.id /\ e.installed = m.version
    /\ \/ /\ e.status = "not_updatable" /\ e.reason \in Failures
          /\ e.target = NoTarget
       \/ /\ e.status \in {"up_to_date", "update_available"} /\ e.reason = ""
          /\ Selected(e.target, info, m.version)
          /\ info \in Infos
          /\ e.status = "up_to_date" <=> e.target = NoTarget

LEMMA AnalysedMeans ==
  ASSUME NEW m, NEW e, NEW info, Analysed(m, e, info)
  PROVE  EntryMeans(m, e, info)
  <1>1. ASSUME NEW reason \in Failures, e = NotUpdatable(m, reason)
        PROVE  EntryMeans(m, e, info)
    BY <1>1 DEF NotUpdatable, Entry, EntryMeans
  <1>2. CASE info \in Infos /\ e = analyzeMod(m, info)
    <2> DEFINE t == selectTargetVersion(info, m.version)
    <2>1. Selected(t, info, m.version)
      BY <1>2, SelectKeepsPromise
    <2> HIDE DEF t
    <2>2. CASE ~info.listed
      <3>1. e = NotUpdatable(m, "not_in_catalog")
        BY <1>2, <2>2 DEF analyzeMod
      <3>2. QED
        BY <1>1, <3>1 DEF Failures
    <2>3. CASE info.listed /\ t = NoTarget
      <3>1. e = Entry(m, "up_to_date", "", t)
        BY <1>2, <2>3 DEF analyzeMod, t
      <3>2. /\ e.id = m.id /\ e.installed = m.version /\ e.status = "up_to_date"
            /\ e.reason = "" /\ e.target = t
        BY <3>1 DEF Entry
      <3>3. QED
        BY <1>2, <2>1, <2>3, <3>2 DEF EntryMeans
    <2>4. CASE info.listed /\ t # NoTarget
      <3>1. e = Offer(m, t)
        BY <1>2, <2>4 DEF analyzeMod, t
      <3>2. /\ e.id = m.id /\ e.installed = m.version /\ e.status = "update_available"
            /\ e.reason = "" /\ e.target = t
        BY <3>1 DEF Offer, Entry
      <3>3. QED
        BY <1>2, <2>1, <2>4, <3>2 DEF EntryMeans
    <2>5. QED
      BY <2>2, <2>3, <2>4
  <1>3. QED
    BY <1>1, <1>2 DEF Analysed
-----------------------------------------------------------------------------
(* The inductive invariant: the report is what its mods mean, in their order *)

IsList(s) == \E S : s \in Seq(S)

LEMMA AppendToList ==
  ASSUME NEW s, IsList(s), NEW x
  PROVE  /\ Len(s) \in Nat /\ IsList(Append(s, x)) /\ Len(Append(s, x)) = Len(s) + 1
         /\ \A i \in 1 .. Len(s) : Append(s, x)[i] = s[i]
         /\ Append(s, x)[Len(s) + 1] = x
  <1>1. PICK S : s \in Seq(S)
    BY DEF IsList
  <1>2. s \in Seq(S \cup {x})
    BY <1>1
  <1>3. QED
    BY <1>2 DEF IsList

Inv ==
    /\ build \in Builds
    /\ ctx \in BOOLEAN
    /\ pc \in {"check", "get", "ok", "ctx"}
    /\ IsList(report) /\ IsList(seen)
    /\ Len(seen) = Len(report) /\ Len(report) <= Len(build.mods)
    /\ \A i \in 1 .. Len(report) : EntryMeans(build.mods[i], report[i], seen[i])
    /\ pc = "get" => More
    /\ pc = "ok" => ~More /\ summary = summarize
    /\ pc = "ctx" => ctx /\ report = <<>>

LEMMA InvTypes ==
  ASSUME Inv
  PROVE  /\ Len(report) \in Nat /\ DOMAIN report = 1 .. Len(report)
         /\ Len(build.mods) \in Nat /\ DOMAIN build.mods = 1 .. Len(build.mods)
         /\ \A i \in 1 .. Len(report) : i \in DOMAIN build.mods
  <1>1. Len(report) \in Nat /\ DOMAIN report = 1 .. Len(report)
    BY DEF Inv, IsList
  <1>2. Len(build.mods) \in Nat /\ DOMAIN build.mods = 1 .. Len(build.mods)
    BY BuildsAssumption DEF Inv
  <1>3. QED
    BY <1>1, <1>2 DEF Inv

LEMMA InitInv == Init => Inv
  <1> SUFFICES ASSUME Init PROVE Inv
    OBVIOUS
  <1>1. IsList(<<>>) /\ Len(<<>>) = 0
    BY DEF IsList
  <1>2. Len(build.mods) \in Nat
    BY BuildsAssumption DEF Init
  <1>3. /\ IsList(report) /\ IsList(seen) /\ Len(seen) = Len(report)
        /\ Len(report) <= Len(build.mods) /\ Len(report) = 0
    BY <1>1, <1>2 DEF Init
  <1>4. \A i \in 1 .. Len(report) : EntryMeans(build.mods[i], report[i], seen[i])
    BY <1>3
  <1>5. QED
    BY <1>3, <1>4 DEF Init, Inv

\* One more entry, of the mod the loop is at.
LEMMA AppendInv ==
  ASSUME Inv, More, NEW e, NEW info, AppendEntry(e, info), Analysed(Mod, e, info)
  PROVE  Inv'
  <1>1. /\ report' = Append(report, e) /\ seen' = Append(seen, info)
        /\ pc' = "check" /\ build' = build /\ ctx' = ctx
    BY DEF AppendEntry
  <1>2. /\ Len(report) \in Nat /\ Len(seen) = Len(report) /\ Len(build.mods) \in Nat
        /\ Len(report) < Len(build.mods)
    BY InvTypes DEF Inv, More
  <1>3. /\ IsList(report') /\ IsList(seen')
        /\ Len(report') = Len(report) + 1 /\ Len(seen') = Len(report) + 1
        /\ \A i \in 1 .. Len(report) : report'[i] = report[i] /\ seen'[i] = seen[i]
        /\ report'[Len(report) + 1] = e /\ seen'[Len(report) + 1] = info
    BY <1>1, <1>2, AppendToList DEF Inv
  <1>4. ASSUME NEW i \in 1 .. Len(report) + 1
        PROVE  EntryMeans(build.mods[i], report'[i], seen'[i])
    <2>1. CASE i = Len(report) + 1
      <3>1. EntryMeans(Mod, e, info)
        BY AnalysedMeans
      <3>2. QED
        BY <1>3, <2>1, <3>1 DEF Mod
    <2>2. CASE i # Len(report) + 1
      <3>1. i \in 1 .. Len(report)
        BY <1>2, <2>2
      <3>2. QED
        BY <1>3, <3>1 DEF Inv
    <2>3. QED
      BY <2>1, <2>2
  <1>5. QED
    BY <1>1, <1>2, <1>3, <1>4 DEF Inv

LEMMA NextInv == Inv /\ [Next]_vars => Inv'
  <1> SUFFICES ASSUME Inv, [Next]_vars PROVE Inv'
    OBVIOUS
  <1>1. CASE CtxDone
    BY <1>1 DEF CtxDone, Inv, More
  <1>2. CASE Stop
    <2>1. IsList(<<>>) /\ Len(<<>>) = 0
      BY DEF IsList
    <2>2. QED
      BY <1>2, <2>1, InvTypes DEF Stop, Inv
  <1>3. CASE SkipLocal
    <2>1. Analysed(Mod, NotUpdatable(Mod, "local_mod"), NotSeen)
      BY DEF Analysed, Failures
    <2>2. QED
      BY <1>3, <2>1, AppendInv DEF SkipLocal
  <1>4. CASE Ask
    BY <1>4 DEF Ask, Inv, More
  <1>5. ASSUME NEW info \in Infos, Found(info) PROVE Inv'
    <2>1. Analysed(Mod, analyzeMod(Mod, info), info)
      BY DEF Analysed
    <2>2. QED
      BY <1>5, <2>1, AppendInv DEF Found, Inv
  <1>6. CASE LookupFails
    <2>1. Analysed(Mod, NotUpdatable(Mod, "catalog_error"), NotSeen)
      BY DEF Analysed, Failures
    <2>2. QED
      BY <1>6, <2>1, AppendInv DEF LookupFails, Inv
  <1>7. CASE Finish
    BY <1>7 DEF Finish, Inv, More, summarize, Count
  <1>8. CASE Done \/ UNCHANGED vars
    BY <1>8 DEF Done, vars, Inv, More, summarize, Count
  <1>9. QED
    BY <1>1, <1>2, <1>3, <1>4, <1>5, <1>6, <1>7, <1>8 DEF Next

LEMMA Invariance == Spec => []Inv
  BY InitInv, NextInv, PTL DEF Spec
-----------------------------------------------------------------------------
(* Theorems *)

\* Every entry has the status and the reason that a summary counts.
THEOREM TypeCorrect == Spec => []TypeOK
  <1>1. ASSUME Inv PROVE TypeOK
    <2>1. ASSUME NEW i \in DOMAIN report
          PROVE  /\ report[i].status \in Entries
                 /\ report[i].target.version \in Versions
                 /\ report[i].reason # "" <=> report[i].status = "not_updatable"
      <3>1. EntryMeans(build.mods[i], report[i], seen[i])
        BY <1>1, InvTypes DEF Inv
      <3>2. NoTarget.version \in Versions
        BY NoVersionType DEF NoTarget, Bare
      <3>3. QED
        BY <3>1, <3>2 DEF EntryMeans, Selected, Entries, Failures
    <2>2. QED
      BY <1>1, <2>1 DEF Inv, TypeOK
  <1>2. QED
    BY <1>1, Invariance, PTL

\* The code's test and what the properties call an update are the same.
LEMMA UpgradeIsUpdate ==
  ASSUME NEW installed \in Versions, NEW x, x.version \in Versions
  PROVE  IsUpgradeTarget(installed, x) <=> Update(installed, x)
  <1>1. CompareVersions(x.version, installed) > 0 <=> Precedes(installed, x.version)
    BY CompareSign
  <1>2. isPrereleaseTarget(x) <=> \/ isPrereleaseVersion(x.version)
                                  \/ x.type # "" /\ x.type # "stable"
    BY DEF isPrereleaseTarget, isStableRelease
  <1>3. QED
    BY <1>1, <1>2 DEF IsUpgradeTarget, Update, Documented, TypedStable

\* For any catalog, an offer is an update as IsUpgradeTarget documents it, and
\* never one whose version is a prerelease for an installation that is none.
THEOREM UpgradesOnly == Spec => []OffersAreUpgrades
  <1>1. ASSUME Inv PROVE OffersAreUpgrades
    <2> SUFFICES ASSUME NEW i \in DOMAIN report, report[i].status = "update_available"
                 PROVE  Update(report[i].installed, report[i].target)
      BY DEF OffersAreUpgrades
    <2>1. EntryMeans(build.mods[i], report[i], seen[i])
      BY <1>1, InvTypes DEF Inv
    <2>2. build.mods[i].version \in Versions
      BY <1>1, InvTypes, BuildsAssumption DEF Inv
    <2>3. /\ report[i].installed \in Versions /\ report[i].target.version \in Versions
          /\ IsUpgradeTarget(report[i].installed, report[i].target)
      BY <2>1, <2>2 DEF EntryMeans, Selected
    <2>4. QED
      BY <2>3, UpgradeIsUpdate
  <1>2. QED
    BY <1>1, Invariance, PTL

\* For any list in any order, a mod is called up to date only if the latest
\* version and every listed release are no documented update for it, or are
\* typed stable against a prerelease version.
THEOREM NoUpdateMissed == Spec => []NothingMissed
  <1>1. ASSUME Inv PROVE NothingMissed
    <2> SUFFICES ASSUME NEW i \in DOMAIN report, report[i].status = "up_to_date",
                        NEW x \in Listed(seen[i])
                                  \cup {findVersion(seen[i].versions, seen[i].latest)},
                        Documented(report[i].installed, x)
                 PROVE  TypedStable(x) /\ ~isPrereleaseVersion(report[i].installed)
      BY DEF NothingMissed
    <2>1. EntryMeans(build.mods[i], report[i], seen[i])
      BY <1>1, InvTypes DEF Inv
    <2>2. Selected(NoTarget, seen[i], report[i].installed) /\ seen[i] \in Infos
      BY <2>1 DEF EntryMeans
    <2>3. report[i].installed \in Versions
      BY <1>1, <2>1, InvTypes, BuildsAssumption DEF Inv, EntryMeans
    <2>4. ~IsUpgradeTarget(report[i].installed, x)
      BY <2>2 DEF Selected, Listed
    <2>5. x.version \in Versions
      BY <2>2, InfosAssumption, FoundNamesVersion DEF Listed
    <2>6. ~Update(report[i].installed, x)
      BY <2>3, <2>4, <2>5, UpgradeIsUpdate
    <2>7. QED
      BY <2>6 DEF Update
  <1>2. QED
    BY <1>1, Invariance, PTL

\* For any list in any order, an offer other than the latest version is one that
\* no other update beats, by channel or by version.
THEOREM BestIsOffered == Spec => []BestOffered
  <1>1. ASSUME Inv PROVE BestOffered
    <2> SUFFICES ASSUME NEW i \in DOMAIN report, report[i].status = "update_available",
                        report[i].target.version # seen[i].latest,
                        NEW x \in Listed(seen[i]), Update(report[i].installed, x)
                 PROVE  NotBeaten(report[i].target, x)
      BY DEF BestOffered, NotBeaten
    <2>1. EntryMeans(build.mods[i], report[i], seen[i])
      BY <1>1, InvTypes DEF Inv
    <2>2. seen[i] \in Infos /\ Selected(report[i].target, seen[i], report[i].installed)
      BY <2>1 DEF EntryMeans
    <2>3. report[i].target # NoTarget
      BY <2>1 DEF EntryMeans
    <2>4. report[i].installed \in Versions
      BY <1>1, <2>1, InvTypes, BuildsAssumption DEF Inv, EntryMeans
    <2>5. IsUpgradeTarget(report[i].installed, x)
      BY <2>2, <2>4, InfosAssumption, UpgradeIsUpdate DEF Listed
    <2>6. QED
      BY <2>2, <2>3, <2>5 DEF Selected, Listed
  <1>2. QED
    BY <1>1, Invariance, PTL

\* What dependencyDiff reports for an offer.
DiffOf(m, e, installed) ==
    e.status = "update_available" =>
        /\ e.added = e.target.deps \ (BuiltIn \cup installed \cup m.deps)
        /\ e.removed = (m.deps \ (BuiltIn \cup e.target.deps)) \cap installed

Diffs == \A i \in 1 .. Len(report) : DiffOf(build.mods[i], report[i], Installed)

LEMMA AnalysedDiffs ==
  ASSUME NEW m, NEW e, NEW info, Analysed(m, e, info)
  PROVE  DiffOf(m, e, Installed)
  <1>1. CASE e.status # "update_available"
    BY <1>1 DEF DiffOf
  <1>2. ASSUME NEW t, e = Offer(m, t) PROVE DiffOf(m, e, Installed)
    <2>1. e.target = t /\ e.added = Added(m, t) /\ e.removed = Removed(m, t)
      BY <1>2 DEF Offer, Entry
    <2>2. QED
      BY <2>1 DEF DiffOf, Added, Removed
  <1>3. ASSUME NEW s, NEW reason, NEW t, e = Entry(m, s, reason, t)
        PROVE  e.status = s
    BY <1>3 DEF Entry
  <1>4. CASE \E reason \in Failures : e = NotUpdatable(m, reason)
    BY <1>1, <1>3, <1>4 DEF NotUpdatable
  <1>5. CASE e = analyzeMod(m, info)
    BY <1>1, <1>2, <1>3, <1>5 DEF analyzeMod, NotUpdatable
  <1>6. QED
    BY <1>4, <1>5 DEF Analysed

LEMMA AppendDiffs ==
  ASSUME Inv, Diffs, NEW e, NEW info, AppendEntry(e, info), Analysed(Mod, e, info)
  PROVE  Diffs'
  <1>1. report' = Append(report, e) /\ build' = build /\ Installed' = Installed
    BY DEF AppendEntry, Installed
  <1>2. Len(report) \in Nat
    BY InvTypes
  <1>3. /\ Len(report') = Len(report) + 1 /\ report'[Len(report) + 1] = e
        /\ \A i \in 1 .. Len(report) : report'[i] = report[i]
    BY <1>1, AppendToList DEF Inv
  <1>4. ASSUME NEW i \in 1 .. Len(report) + 1
        PROVE  DiffOf(build.mods[i], report'[i], Installed)
    <2>1. CASE i = Len(report) + 1
      BY <1>3, <2>1, AnalysedDiffs DEF Mod
    <2>2. CASE i # Len(report) + 1
      <3>1. i \in 1 .. Len(report)
        BY <1>2, <2>2
      <3>2. QED
        BY <1>3, <3>1 DEF Diffs
    <2>3. QED
      BY <2>1, <2>2
  <1>5. QED
    BY <1>1, <1>3, <1>4 DEF Diffs

LEMMA DiffsNext == Inv /\ Diffs /\ [Next]_vars => Diffs'
  <1> SUFFICES ASSUME Inv, Diffs, [Next]_vars PROVE Diffs'
    OBVIOUS
  <1>1. CASE SkipLocal
    <2>1. Analysed(Mod, NotUpdatable(Mod, "local_mod"), NotSeen)
      BY DEF Analysed, Failures
    <2>2. QED
      BY <1>1, <2>1, AppendDiffs DEF SkipLocal
  <1>2. ASSUME NEW info \in Infos, Found(info) PROVE Diffs'
    <2>1. Analysed(Mod, analyzeMod(Mod, info), info)
      BY DEF Analysed
    <2>2. QED
      BY <1>2, <2>1, AppendDiffs DEF Found
  <1>3. CASE LookupFails
    <2>1. Analysed(Mod, NotUpdatable(Mod, "catalog_error"), NotSeen)
      BY DEF Analysed, Failures
    <2>2. QED
      BY <1>3, <2>1, AppendDiffs DEF LookupFails
  <1>4. CASE Stop
    <2>1. Len(report') = 0
      BY <1>4 DEF Stop
    <2>2. QED
      BY <2>1 DEF Diffs
  <1>5. CASE build' = build /\ report' = report
    BY <1>5 DEF Diffs, Installed
  <1>6. QED
    BY <1>1, <1>2, <1>3, <1>4, <1>5 DEF Next, CtxDone, Ask, Finish, Done, vars

\* For any builds and dependencies, following the diff of an offer gives the new
\* version all it depends on, except what was missing before, and leaves nothing
\* behind that only the old version declared.
THEOREM DiffIsEnough == Spec => []DiffSuffices
  <1>1. Init => Diffs
    <2> SUFFICES ASSUME Init PROVE Diffs
      OBVIOUS
    <2>1. Len(report) = 0
      BY DEF Init
    <2>2. QED
      BY <2>1 DEF Diffs
  <1>2. ASSUME Inv, Diffs PROVE DiffSuffices
    <2>1. ASSUME NEW i \in DOMAIN report, report[i].status = "update_available"
          PROVE  LET e == report[i]
                     old == build.mods[i].deps
                     after == (Installed \cup e.added) \ e.removed
                 IN /\ e.target.deps \subseteq after \cup BuiltIn \cup (old \ Installed)
                    /\ old \cap after \subseteq e.target.deps \cup BuiltIn
                    /\ Installed \ after \subseteq old
                    /\ after \ Installed \subseteq e.target.deps
      <3>1. /\ report[i].added =
                  report[i].target.deps \ (BuiltIn \cup Installed \cup build.mods[i].deps)
            /\ report[i].removed =
                  (build.mods[i].deps \ (BuiltIn \cup report[i].target.deps)) \cap Installed
        BY <1>2, <2>1, InvTypes DEF Diffs, DiffOf
      <3>2. QED
        BY <3>1
    <2>2. QED
      BY <2>1 DEF DiffSuffices
  <1>3. QED
    BY <1>1, <1>2, DiffsNext, Invariance, PTL DEF Spec

LEMMA DisjointSum ==
  ASSUME NEW S, NEW T, IsFiniteSet(S), IsFiniteSet(T), S \cap T = {}
  PROVE  /\ IsFiniteSet(S \cup T) /\ Cardinality(S) \in Nat /\ Cardinality(T) \in Nat
         /\ Cardinality(S \cup T) = Cardinality(S) + Cardinality(T)
  <1>1. Cardinality({}) = 0
    BY FS_EmptySet
  <1>2. Cardinality(S) \in Nat /\ Cardinality(T) \in Nat
    BY FS_CardinalityType
  <1>3. /\ IsFiniteSet(S \cup T)
        /\ Cardinality(S \cup T) = Cardinality(S) + Cardinality(T) - Cardinality(S \cap T)
    BY FS_Union, Zenon
  <1>4. Cardinality(S \cap T) = 0
    BY <1>1
  <1>5. QED
    BY <1>2, <1>3, <1>4

\* The categories of a summary are those of its mods, each in exactly one.
LEMMA SummaryAdds ==
  ASSUME Inv
  PROVE  /\ summarize.total = summarize.upToDate + summarize.updates + summarize.localMods
                               + summarize.absent + summarize.catalogError
         /\ summarize.incompatible <= summarize.updates
  <1> DEFINE R == 1 .. Len(report)
             Status(s) == {i \in R : report[i].status = s}
             Reason(r) == {i \in R : report[i].reason = r}
             Incompatible == {i \in R : report[i].status = "update_available"
                                         /\ ~report[i].compatible}
             A == Status("up_to_date")
             B == Status("update_available")
             C == Reason("local_mod")
             D == Reason("not_in_catalog")
             E == Reason("catalog_error")
  <1>1. /\ summarize.total = Len(report)
        /\ summarize.upToDate = Cardinality(A)
        /\ summarize.updates = Cardinality(B)
        /\ summarize.localMods = Cardinality(C)
        /\ summarize.absent = Cardinality(D)
        /\ summarize.catalogError = Cardinality(E)
        /\ summarize.incompatible = Cardinality(Incompatible)
    BY InvTypes DEF summarize, Count
  <1>2. IsFiniteSet(R) /\ Cardinality(R) = Len(report)
    <2>0. Len(report) \in Nat
      BY InvTypes
    <2>1. 1 \in Int /\ Len(report) \in Int /\ Len(report) \in Nat
      BY <2>0
    <2>2. IsFiniteSet(R) /\ Cardinality(R) = IF 1 > Len(report) THEN 0 ELSE Len(report) - 1 + 1
      BY <2>1, FS_Interval, Zenon
    <2>3. QED
      <3> HIDE DEF R
      <3>1. QED
        BY <2>1, <2>2
  <1>3. ASSUME NEW i \in R
        PROVE  \/ report[i].status = "up_to_date" /\ report[i].reason = ""
               \/ report[i].status = "update_available" /\ report[i].reason = ""
               \/ report[i].status = "not_updatable" /\ report[i].reason \in Failures
    BY <1>3 DEF Inv, EntryMeans
  <1>4. A \cup B \cup C \cup D \cup E = R
    BY <1>3 DEF Failures
  <1>5. /\ A \cap B = {} /\ (A \cup B) \cap C = {} /\ (A \cup B \cup C) \cap D = {}
        /\ (A \cup B \cup C \cup D) \cap E = {}
    BY <1>3
  <1>6. /\ IsFiniteSet(A) /\ IsFiniteSet(B) /\ IsFiniteSet(C)
        /\ IsFiniteSet(D) /\ IsFiniteSet(E)
    <2>1. A \subseteq R /\ B \subseteq R /\ C \subseteq R /\ D \subseteq R /\ E \subseteq R
      OBVIOUS
    <2> HIDE DEF A, B, C, D, E, R
    <2>2. QED
      BY <1>2, <2>1, FS_Subset
  <1>7. Cardinality(Incompatible) <= Cardinality(B)
    <2>1. Incompatible \subseteq B
      OBVIOUS
    <2> HIDE DEF Incompatible, B
    <2>2. QED
      BY <1>6, <2>1, FS_Subset
  <1> HIDE DEF A, B, C, D, E, R, Incompatible
  <1>8. /\ IsFiniteSet(A \cup B) /\ Cardinality(A) \in Nat /\ Cardinality(B) \in Nat
        /\ Cardinality(A \cup B) = Cardinality(A) + Cardinality(B)
    BY <1>5, <1>6, DisjointSum
  <1>9. /\ IsFiniteSet(A \cup B \cup C) /\ Cardinality(C) \in Nat
        /\ Cardinality(A \cup B \cup C) = Cardinality(A \cup B) + Cardinality(C)
    BY <1>5, <1>6, <1>8, DisjointSum
  <1>10. /\ IsFiniteSet(A \cup B \cup C \cup D) /\ Cardinality(D) \in Nat
         /\ Cardinality(A \cup B \cup C \cup D) = Cardinality(A \cup B \cup C) + Cardinality(D)
    BY <1>5, <1>6, <1>9, DisjointSum
  <1>11. /\ Cardinality(E) \in Nat
         /\ Cardinality(R) = Cardinality(A \cup B \cup C \cup D) + Cardinality(E)
    BY <1>4, <1>5, <1>6, <1>10, DisjointSum
  <1>12. QED
    BY <1>1, <1>2, <1>7, <1>8, <1>9, <1>10, <1>11

\* For builds of any size and whatever lookups fail, a report that is returned
\* has one entry per mod in the order of the build, its summary counts each of
\* them once, and a cancelled analysis returns none.
THEOREM ReportIsWhole == Spec => []WholeReport
  <1>1. ASSUME Inv PROVE WholeReport
    <2>1. CASE pc = "ok"
      <3>1. Len(report) = Len(build.mods) /\ summary = summarize
        BY <1>1, <2>1, InvTypes DEF Inv, More
      <3>2. \A i \in DOMAIN report : report[i].id = build.mods[i].id
        BY <1>1, InvTypes DEF Inv, EntryMeans
      <3>3. summarize.total = Len(report)
        BY DEF summarize
      <3>4. QED
        BY <1>1, <2>1, <3>1, <3>2, <3>3, SummaryAdds DEF WholeReport
    <2>2. CASE pc # "ok"
      BY <1>1, <2>2 DEF WholeReport, Inv
    <2>3. QED
      BY <2>1, <2>2
  <1>2. QED
    BY <1>1, Invariance, PTL
=============================================================================
