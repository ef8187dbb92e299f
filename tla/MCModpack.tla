----------------------------- MODULE MCModpack -----------------------------
(* Instance of Modpack for TLC: releases around one installed version, in  *)
(* every order, with and without a release type and a prerelease, and one  *)
(* whose type and version disagree.                                        *)
EXTENDS Modpack, SequencesExt

V(core) == [class |-> 2, core |-> core, stage |-> Final]
Pre(core, stage) == [class |-> 2, core |-> core, stage |-> stage]
Text == [class |-> 1, core |-> 1, stage |-> Final]

Game(series, patch) == [series |-> series, patch |-> patch]
Rel(id, v, type, supports, deps) ==
    [id |-> id, version |-> v, type |-> type, supports |-> supports, deps |-> deps]

Releases ==
    {Rel("r1", V(1), "stable", {}, {}),
     Rel("r2", V(2), "", {Game("1.20", 0)}, {"game", "lib"}),
     Rel("r3", Pre(3, 1), "", {Game("1.19", 4)}, {"other"}),
     Rel("r4", Pre(3, 2), "beta", {}, {}),
     Rel("r5", V(4), "beta", {Game("1.20", 3)}, {"lib", "extra", "other"}),
     Rel("r6", Pre(5, 1), "stable", {}, {})}

\* Up to three different releases in every order.
Orders == {s \in UNION {[1 .. n -> Releases] : n \in 0 .. 3} :
              Len(s) = Cardinality(ToSet(s))}

MCInfos == {NotSeen} \cup
           {[listed |-> TRUE, latest |-> l, versions |-> s] :
               l \in {NoVersion, V(2), Text}, s \in Orders}

Managed(id, v, deps) == [id |-> id, version |-> v, managed |-> TRUE, deps |-> deps]
ByHand(id) == [id |-> id, version |-> V(1), managed |-> FALSE, deps |-> {}]

MCBuilds == {[game |-> Game("1.20", 3), mods |-> ms] : ms \in
                {<<>>,
                 <<ByHand("a"), Managed("b", NoVersion, {})>>,
                 <<Managed("b", Text, {}), Managed("", V(1), {})>>,
                 <<Managed("a", Pre(3, 1), {"lib", "extra"}), ByHand("lib")>>,
                 <<Managed("a", V(1), {"lib", "game"}), Managed("lib", Pre(2, 1), {})>>}}
=============================================================================
