----------------------------- MODULE MCListings -----------------------------
(* Instance of Listings for TLC: entries of every kind the code tells      *)
(* apart, in every order.                                                  *)
EXTENDS Listings, SequencesExt

Perms(S) == {f \in [1 .. Cardinality(S) -> S] : ToSet(f) = S}
Some(S, n) == UNION {Perms(T) : T \in {U \in SUBSET S : Cardinality(U) <= n}}

\* Versions: words by place are alpha 1, pre 2, rc 3, v 4; 9 is more than
\* MaxInt, and so is 10.
Num(n) == [kind |-> "digits", n |-> n, bare |-> -1]
Word(n) == [kind |-> "letters", n |-> n, bare |-> -1]
V == [kind |-> "letters", n |-> 4, bare |-> 0]
VRc == [kind |-> "letters", n |-> 5, bare |-> 3]
Dot == [kind |-> "other", n |-> 0, bare |-> -1]

Ids == {<<Num(1), Dot, Num(2)>>,                            \* 1.2
        <<V, Num(1), Dot, Num(2), Dot, Num(0)>>,            \* v1.2.0
        <<Num(1), Dot, Num(2), Dot, Num(0), Dot, Word(3), Dot, Num(1)>>,
        <<Num(1), Dot, Num(2), Dot, Word(2), Num(2)>>,      \* 1.2-pre2
        <<Num(1), Dot, Num(2), Dot, Num(0), Dot, Num(1)>>,  \* 1.2.0.1
        <<Num(9)>>, <<Num(10)>>, <<VRc, Num(1)>>, <<Dot>>}

Good == [p \in {"linux"} |-> {}]
Files == {Good, [p \in {"windows"} |-> {}],
          [p \in {"linux", "windows"} |-> IF p = "linux" THEN {"checksum"} ELSE {}]}

Release(id, files) == [id |-> id, files |-> files]

ReleasePayloads ==
    {[source |-> "releases", query |-> "linux", entries |-> SetToSeq(S)] :
        S \in {{Release(id, Good) : id \in I} : I \in {J \in SUBSET Ids : Cardinality(J) = 3}}}
    \cup {[source |-> "releases", query |-> p,
           entries |-> SetToSeq({Release(<<Num(n)>>, f) : n \in {1}, f \in Files})] :
             p \in {"linux", "windows", "plan9"}}

Posts == {[title |-> TRUE, date |-> 2, link |-> 1, linked |-> 2],
          [title |-> TRUE, date |-> 1, link |-> 0, linked |-> 1],
          [title |-> FALSE, date |-> 3, link |-> 1, linked |-> 0],
          [title |-> TRUE, date |-> 0, link |-> 2, linked |-> 0],
          [title |-> TRUE, date |-> 2, link |-> 2, linked |-> 0],
          [title |-> TRUE, date |-> 2, link |-> 0, linked |-> 0]}

NewsPayloads == {[source |-> "news", query |-> "", entries |-> s] : s \in Some(Posts, 3)}

Element(is, text, n, marks) == [is |-> is, text |-> text, n |-> n, of |-> 8, marks |-> marks]

Cards == {[current |-> c, elements |-> s] : c \in BOOLEAN, s \in
            Perms({Element("heading", "h", 0, {}), Element("abbr", "a", 0, {"whitelist"}),
                   Element("join", "j", 0, {})})
            \cup {<<Element("heading", "h", 0, {}), Element("heading", "", 0, {}),
                    Element("abbr", "a", 0, {"password"})>>}
            \cup {<<>>, <<Element("players", "", 1, {}), Element("limit", "", 2, {}),
                          Element("heading", "h", 0, {}), Element("mods", "", 3, {})>>,
                  <<Element("version", "1.2", 0, {}), Element("version", "1.3", 0, {}),
                    Element("icon", "", 0, {"password"}), Element("abbr", "a", 0, {}),
                    Element("external", "m", 0, {}), Element("limit", "", 2, {})>>}}

ServerPayloads == {[source |-> "servers", query |-> "", entries |-> s] : s \in Some(Cards, 2)}
                  \cup {[source |-> "server", query |-> "", entries |-> <<c>>] : c \in Cards}

Mods == {[words |-> {1}, side |-> "both", date |-> 0, tags |-> {}, name |-> 3, downloads |-> 5],
         [words |-> {1, 2}, side |-> "client", date |-> 2, tags |-> {"t"}, name |-> 1, downloads |-> 5],
         [words |-> {2}, side |-> "client", date |-> 3, tags |-> {"t", "u"}, name |-> 2, downloads |-> 7],
         [words |-> {}, side |-> "server", date |-> 0, tags |-> {}, name |-> 3, downloads |-> 1]}

Query(text, side, after, tags, sort) ==
    [text |-> text, side |-> side, after |-> after, tags |-> tags, sort |-> sort]

ModPayloads ==
    {[source |-> "mods", query |-> q, entries |-> s] : s \in Perms(Mods), q \in
        {Query(0, "", 0, {}, sort) : sort \in {"", "downloads", "name_asc", "name_desc", "newest"}}
        \cup {Query(1, "unknown", 0, {}, ""), Query(0, "client", 2, {"t"}, "updated")}}

MCPayloads == ReleasePayloads \cup NewsPayloads \cup ServerPayloads \cup ModPayloads
=============================================================================
