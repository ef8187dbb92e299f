------------------------------ MODULE Modpack ------------------------------
(***************************************************************************)
(* modpack.Analyze: for each installed mod in turn, look it up in the      *)
(* catalog, choose the version to offer and report it, stopping when the   *)
(* context is found done between two mods. The Catalog is an interface:    *)
(* Get answers any metadata, nothing, or an error.                         *)
(*                                                                         *)
(* A version string is a record: class 2 is a valid semantic version with  *)
(* its major.minor.patch numbered by core and its prerelease by stage      *)
(* (Final when it has none), class 1 any other text, numbered by core in   *)
(* alphabetical order, class 0 the empty string. Strings that differ only  *)
(* in case, a leading v, padding or build metadata are one version. Left   *)
(* out: a capital V before a semantic version, which makes it a text that  *)
(* VersionEquals and CompareVersions judge differently.                    *)
(***************************************************************************)
EXTENDS Integers, Sequences, FiniteSets, FiniteSetsExt

CONSTANTS
    Builds,  \* what is installed: game version and sequence of mods
    Infos,   \* metadata Catalog.Get may answer with
    Final,   \* stage of a version that is not a prerelease
    BuiltIn  \* dependencies that are part of the game

ASSUME FinalAssumption == Final \in Nat \ {0}

Versions == [class : {0, 1, 2}, core : Nat, stage : 1 .. Final]

ASSUME BuildsAssumption == \A b \in Builds :
    /\ Len(b.mods) \in Nat /\ DOMAIN b.mods = 1 .. Len(b.mods)
    /\ \A i \in DOMAIN b.mods : b.mods[i].version \in Versions

ASSUME InfosAssumption == \A info \in Infos :
    /\ Len(info.versions) \in Nat /\ DOMAIN info.versions = 1 .. Len(info.versions)
    /\ \A i \in DOMAIN info.versions : info.versions[i].version \in Versions
    /\ info.latest \in Versions

VARIABLES
    build,   \* the build being analysed
    report,  \* report.Mods so far
    seen,    \* history: seen[i], the metadata Get answered for mod i, if any
    ctx,     \* TRUE when the context is done
    pc,      \* "check", "get", "ok" or "ctx"
    summary  \* report.Summary

vars == <<build, report, seen, ctx, pc, summary>>

-----------------------------------------------------------------------------
(* Versions *)

NoVersion == [class |-> 0, core |-> 0, stage |-> Final]

Precedes(a, b) ==
    \/ a.class < b.class
    \/ a.class = b.class /\ a.core < b.core
    \/ a.class = b.class /\ a.core = b.core /\ a.stage < b.stage

CompareVersions(a, b) ==
    CASE Precedes(b, a) -> 1
      [] Precedes(a, b) -> -1
      [] OTHER -> 0

VersionEquals(a, b) == a = b

isPrereleaseVersion(v) == v.class = 2 /\ v.stage # Final

isStableRelease(type) == type \in {"", "stable"}

isPrereleaseTarget(target) ==
    ~isStableRelease(target.type) \/ isPrereleaseVersion(target.version)

\* Mutant: the channel of the installed version is not asked.
AnyNewer(installed, target) ==
    /\ installed # NoVersion
    /\ target.version # NoVersion
    /\ CompareVersions(target.version, installed) > 0

IsUpgradeTarget(installed, target) ==
    /\ installed # NoVersion
    /\ target.version # NoVersion
    /\ CompareVersions(target.version, installed) > 0
    /\ isPrereleaseVersion(installed) \/ ~isPrereleaseTarget(target)

-----------------------------------------------------------------------------
(* Choosing the version to offer *)

\* A release the list does not describe.
Bare(v) == [id |-> "", version |-> v, type |-> "", supports |-> {}, deps |-> {}]
NoTarget == Bare(NoVersion)

Better(best, x) ==
    \/ best = NoTarget
    \/ isStableRelease(x.type) /\ ~isStableRelease(best.type)
    \/ /\ isStableRelease(x.type) <=> isStableRelease(best.type)
       /\ CompareVersions(x.version, best.version) > 0

\* Mutant: the last update in the list, whatever came before it.
newestIsLast(vs, installed) ==
    LET eligible == {i \in DOMAIN vs : IsUpgradeTarget(installed, vs[i])}
    IN IF eligible = {} THEN NoTarget ELSE vs[Max(eligible)]

\* One pass that keeps the best update so far, best[n] after n releases: a
\* stable release before any other, then the newer one, the first of equals.
newestVersion(vs, installed) ==
    LET best[n \in 0 .. Len(vs)] ==
            IF n = 0 THEN NoTarget
            ELSE IF IsUpgradeTarget(installed, vs[n]) /\ Better(best[n - 1], vs[n])
                 THEN vs[n] ELSE best[n - 1]
    IN best[Len(vs)]

\* The first release in the list that the version names, or the version alone.
findVersion(vs, v) ==
    LET same == {i \in DOMAIN vs : VersionEquals(vs[i].version, v)}
    IN IF same = {} THEN Bare(v) ELSE vs[Min(same)]

\* Mutant: the latest version is final, update or not.
selectLatestOnly(info, installed) ==
    LET latest == findVersion(info.versions, info.latest)
    IN IF info.latest = NoVersion THEN newestVersion(info.versions, installed)
       ELSE IF IsUpgradeTarget(installed, latest) THEN latest ELSE NoTarget

\* The latest version when it is an update, otherwise the newest that is.
selectTargetVersion(info, installed) ==
    LET latest == findVersion(info.versions, info.latest)
    IN IF info.latest # NoVersion /\ IsUpgradeTarget(installed, latest)
       THEN latest ELSE newestVersion(info.versions, installed)

\* A listed game version covers itself and every patch release of its series,
\* listed with a patch or without. patch is 0 in a version that has none.
supportsGameVersion(supported, requested) ==
    \/ supported = {}
    \/ \E v \in supported :
          v = requested \/ (v.series = requested.series /\ requested.patch # 0)

-----------------------------------------------------------------------------
(* Reporting *)

Installed == {build.mods[i].id : i \in DOMAIN build.mods} \ {""}

Entry(m, status, reason, target) ==
    [id |-> m.id, installed |-> m.version, status |-> status, reason |-> reason,
     target |-> target, compatible |-> FALSE, prerelease |-> FALSE,
     added |-> {}, removed |-> {}]

\* Mutant: the reason is set and the status left as it was initialised.
NotUpdatableUnknown(m, reason) == Entry(m, "unknown", reason, NoTarget)

NotUpdatable(m, reason) == Entry(m, "not_updatable", reason, NoTarget)

\* dependencyDiff.
Added(m, target) == target.deps \ (BuiltIn \cup Installed \cup m.deps)

\* Mutant: what the new version still requires is not asked.
RemovedUnasked(m, target) == (m.deps \ BuiltIn) \cap Installed

Removed(m, target) == (m.deps \ (BuiltIn \cup target.deps)) \cap Installed

Offer(m, target) ==
    [Entry(m, "update_available", "", target) EXCEPT
        !.compatible = supportsGameVersion(target.supports, build.game),
        !.prerelease = ~isStableRelease(target.type),
        !.added = Added(m, target),
        !.removed = Removed(m, target)]

analyzeMod(m, info) ==
    LET target == selectTargetVersion(info, m.version)
    IN CASE ~info.listed -> NotUpdatable(m, "not_in_catalog")
         [] info.listed /\ target = NoTarget -> Entry(m, "up_to_date", "", NoTarget)
         [] OTHER -> Offer(m, target)

Local(m) == ~m.managed \/ m.id = ""

Count(P(_)) == Cardinality({i \in DOMAIN report : P(report[i])})

NoSummary == [total |-> 0, upToDate |-> 0, updates |-> 0, localMods |-> 0,
              absent |-> 0, catalogError |-> 0, incompatible |-> 0]

summarize ==
    [total        |-> Len(report),
     upToDate     |-> Count(LAMBDA e : e.status = "up_to_date"),
     updates      |-> Count(LAMBDA e : e.status = "update_available"),
     localMods    |-> Count(LAMBDA e : e.reason = "local_mod"),
     absent       |-> Count(LAMBDA e : e.reason = "not_in_catalog"),
     catalogError |-> Count(LAMBDA e : e.reason = "catalog_error"),
     incompatible |-> Count(LAMBDA e : e.status = "update_available" /\ ~e.compatible)]

-----------------------------------------------------------------------------
(* Analyze *)

NotSeen == [listed |-> FALSE, latest |-> NoVersion, versions |-> <<>>]

Init == /\ build \in Builds
        /\ report = <<>>
        /\ seen = <<>>
        /\ ctx = FALSE
        /\ pc = "check"
        /\ summary = NoSummary

Mod == build.mods[Len(report) + 1]
More == Len(report) < Len(build.mods)

CtxDone == /\ pc \in {"check", "get"}
           /\ ~ctx
           /\ ctx' = TRUE
           /\ UNCHANGED <<build, report, seen, pc, summary>>

\* The entry of the current mod is appended; the loop goes on.
AppendEntry(e, info) ==
    /\ report' = Append(report, e)
    /\ seen' = Append(seen, info)
    /\ pc' = "check"
    /\ UNCHANGED <<build, ctx, summary>>

\* ctx.Err() before a mod: the partial report is dropped.
Stop == /\ pc = "check" /\ More /\ ctx
        /\ pc' = "ctx"
        /\ report' = <<>>
        /\ seen' = <<>>
        /\ UNCHANGED <<build, ctx, summary>>

SkipLocal == /\ pc = "check" /\ More /\ ~ctx
             /\ Local(Mod)
             /\ AppendEntry(NotUpdatable(Mod, "local_mod"), NotSeen)

Ask == /\ pc = "check" /\ More /\ ~ctx
       /\ ~Local(Mod)
       /\ pc' = "get"
       /\ UNCHANGED <<build, report, seen, ctx, summary>>

Found(info) == /\ pc = "get"
               /\ AppendEntry(analyzeMod(Mod, info), info)

LookupFails == /\ pc = "get"
               /\ AppendEntry(NotUpdatable(Mod, "catalog_error"), NotSeen)

\* Mutant: an analysis that runs out of time reports what it has.
FinishEarly == /\ pc = "check" /\ (ctx \/ ~More)
               /\ pc' = "ok"
               /\ summary' = summarize
               /\ UNCHANGED <<build, report, seen, ctx>>

Finish == /\ pc = "check" /\ ~More
          /\ pc' = "ok"
          /\ summary' = summarize
          /\ UNCHANGED <<build, report, seen, ctx>>

Done == pc \in {"ok", "ctx"} /\ UNCHANGED vars

Next == \/ CtxDone \/ Stop \/ SkipLocal \/ Ask
        \/ \E info \in Infos : Found(info)
        \/ LookupFails \/ Finish \/ Done

Spec == Init /\ [][Next]_vars

-----------------------------------------------------------------------------
(* Properties *)

Entries == {"up_to_date", "update_available", "not_updatable"}

\* Types of the analysis. No reported mod is left with status unknown.
TypeOK ==
    /\ build \in Builds
    /\ ctx \in BOOLEAN
    /\ pc \in {"check", "get", "ok", "ctx"}
    /\ Len(seen) = Len(report)
    /\ \A i \in DOMAIN report :
          /\ report[i].status \in Entries
          /\ report[i].target.version \in Versions
          /\ report[i].reason # "" <=> report[i].status = "not_updatable"

\* An update in the words of IsUpgradeTarget's comment: strictly newer, and to
\* an installation that is no prerelease no prerelease either, which the type
\* of the release tells when it has one and otherwise its version.
Documented(installed, x) ==
    /\ installed # NoVersion /\ x.version # NoVersion
    /\ Precedes(installed, x.version)
    /\ \/ isPrereleaseVersion(installed)
       \/ IF x.type = "" THEN ~isPrereleaseVersion(x.version) ELSE x.type = "stable"

\* A prerelease by its version that the catalog types as stable. The comment
\* lets its type decide; the code looks at the version as well.
TypedStable(x) == x.type = "stable" /\ isPrereleaseVersion(x.version)

\* What may be offered: the code is stricter than the comment, by the releases
\* typed stable against their version, which only a prerelease installation is
\* offered.
Update(installed, x) ==
    /\ Documented(installed, x)
    /\ TypedStable(x) => isPrereleaseVersion(installed)

Listed(info) == {info.versions[j] : j \in DOMAIN info.versions}

\* Every offer is an update as documented, and none moves an installation that
\* is no prerelease to a version that is one, whatever its type says.
OffersAreUpgrades ==
    \A i \in DOMAIN report : report[i].status = "update_available" =>
        Update(report[i].installed, report[i].target)

\* A mod is up to date only if neither the latest version nor any listed
\* release is a documented update for it, but for one typed stable against its
\* version: the code passes such a release over, which the comment would offer.
NothingMissed ==
    \A i \in DOMAIN report : report[i].status = "up_to_date" =>
        \A x \in Listed(seen[i]) \cup {findVersion(seen[i].versions, seen[i].latest)} :
            Documented(report[i].installed, x) =>
                TypedStable(x) /\ ~isPrereleaseVersion(report[i].installed)

\* An offer that is not the catalog's latest version is the best of the list,
\* whatever its order: no stable release is passed over for another one, and
\* no update of the same channel is newer.
BestOffered ==
    \A i \in DOMAIN report :
        LET e == report[i] IN
        e.status = "update_available" /\ e.target.version # seen[i].latest =>
            \A x \in Listed(seen[i]) : Update(e.installed, x) =>
                /\ isStableRelease(x.type) => isStableRelease(e.target.type)
                /\ (isStableRelease(x.type) <=> isStableRelease(e.target.type))
                      => ~Precedes(e.target.version, x.version)

\* Whoever follows an offer, adding and removing what it lists, has all that
\* the new version depends on, except what was missing for the old version as
\* well, and keeps no dependency of the old version that the new one dropped.
\* The other mods of the build are not asked, and the latest version has no
\* dependencies when the list does not describe it.
DiffSuffices ==
    \A i \in DOMAIN report : report[i].status = "update_available" =>
        LET e == report[i]
            old == build.mods[i].deps
            after == (Installed \cup e.added) \ e.removed
        IN /\ e.target.deps \subseteq after \cup BuiltIn \cup (old \ Installed)
           /\ old \cap after \subseteq e.target.deps \cup BuiltIn
           /\ Installed \ after \subseteq old
           /\ after \ Installed \subseteq e.target.deps

\* A returned report has one entry per installed mod, in the order of the
\* build, and its summary counts every mod in exactly one category, whatever
\* lookups failed; a cancelled analysis returns no report.
WholeReport ==
    /\ pc = "ok" =>
          /\ Len(report) = Len(build.mods)
          /\ \A i \in DOMAIN report : report[i].id = build.mods[i].id
          /\ summary.total = Len(build.mods)
          /\ summary.total = summary.upToDate + summary.updates + summary.localMods
                             + summary.absent + summary.catalogError
          /\ summary.incompatible <= summary.updates
    /\ pc = "ctx" => ctx /\ report = <<>>
=============================================================================
