------------------------------ MODULE Versions ------------------------------
(***************************************************************************)
(* The order of game releases: splitVersion and compareVersions.           *)
(*                                                                         *)
(* A version string is its sequence of runs: of digits (n is the number),  *)
(* of letters (n is the place of the word in byte order, from 1) or of     *)
(* other characters. bare is -1, or for a word that begins with a v the    *)
(* place of the rest of the word, 0 when nothing is left. Case and padding *)
(* do not matter.                                                          *)
(***************************************************************************)
EXTENDS Integers, Sequences

CONSTANT MaxInt  \* the largest int

ASSUME MaxIntAssumption == MaxInt \in Nat

Runs == [kind : {"digits", "letters", "other"}, n : Nat, bare : {-1} \cup Nat]

\* A versionPart: a number, or the place of a word.
Parts == [number : BOOLEAN, n : Nat]

First(S) == CHOOSE i \in S : \A j \in S : i <= j

-----------------------------------------------------------------------------
(* splitVersion *)

TrimV(v) ==
    IF v = <<>> \/ v[1].bare = -1 THEN v
    ELSE IF v[1].bare = 0 THEN Tail(v)
    ELSE <<[v[1] EXCEPT !.n = v[1].bare]>> \o Tail(v)

\* Mutant: a number that does not fit counts as none.
AtoiZero(n) == IF n > MaxInt THEN 0 ELSE n

\* Atoi answers the largest int when a number does not fit.
Atoi(n) == IF n > MaxInt THEN MaxInt ELSE n

Part(run) == [number |-> run.kind = "digits",
              n |-> IF run.kind = "digits" THEN Atoi(run.n) ELSE run.n]

\* One pass over the runs, which stand for parts; what is neither a number nor
\* a word is skipped.
Gather(t, parts) ==
    LET out[n \in 0 .. Len(t)] ==
            IF n = 0 THEN <<>>
            ELSE IF t[n].kind = "other" THEN out[n - 1] ELSE Append(out[n - 1], parts[n])
    IN out[Len(t)]

splitVersion(v) == LET t == TrimV(v) IN Gather(t, [n \in DOMAIN t |-> Part(t[n])])

-----------------------------------------------------------------------------
(* compareVersions *)

\* Two parts at the same place: a number comes after every word.
order(x, y) ==
    CASE x.number # y.number -> IF x.number THEN 1 ELSE -1
      [] x.number = y.number /\ x.n > y.n -> 1
      [] x.number = y.number /\ x.n < y.n -> -1
      [] OTHER -> 0

\* Mutant: whatever is left makes the version newer.
trailingIsNewer(p, from) ==
    IF \A i \in from .. Len(p) : p[i].number /\ p[i].n = 0 THEN 0 ELSE 1

\* What the parts from a place on do to a version that has them: the first
\* that is not zero makes it newer if it is a number, older if it is a word.
trailingVersionOrder(p, from) ==
    LET S == {i \in from .. Len(p) : ~p[i].number \/ p[i].n # 0} IN
    IF S = {} THEN 0 ELSE IF p[First(S)].number THEN 1 ELSE -1

compareParts(a, b) ==
    LET S == {i \in DOMAIN a \cap DOMAIN b : order(a[i], b[i]) # 0} IN
    IF S # {} THEN order(a[First(S)], b[First(S)])
    ELSE IF Len(a) > Len(b) THEN trailingVersionOrder(a, Len(b) + 1)
    ELSE -trailingVersionOrder(b, Len(a) + 1)

compareVersions(a, b) == compareParts(splitVersion(a), splitVersion(b))

-----------------------------------------------------------------------------
(* The order a reader expects: parts from left to right, a missing part is   *)
(* a zero, and a word comes before every number, so that a prerelease comes  *)
(* before its release. Digits count as the number they show, whatever Atoi   *)
(* made of them; those beyond an int come after every number of an int, and  *)
(* are not told apart.                                                       *)

Shown(run) == [number |-> run.kind = "digits",
               n |-> IF run.kind = "digits" /\ run.n >= MaxInt THEN MaxInt ELSE run.n]

Reading(v) == LET t == TrimV(v) IN Gather(t, [n \in DOMAIN t |-> Shown(t[n])])

Zero == [number |-> TRUE, n |-> 0]

Padded(p, i) == IF i \in DOMAIN p THEN p[i] ELSE Zero

Above(x, y) == \/ x.number /\ ~y.number
               \/ (x.number <=> y.number) /\ x.n > y.n

NewerAt(a, b, i) == /\ \A j \in 1 .. i - 1 : Padded(a, j) = Padded(b, j)
                    /\ Above(Padded(a, i), Padded(b, i))

Newer(a, b) == \E i \in DOMAIN a \cup DOMAIN b : NewerAt(a, b, i)
=============================================================================
