------------------------------ MODULE Listings ------------------------------
(***************************************************************************)
(* From a decoded reply to the list a caller gets: the releases of         *)
(* versions.Catalog.fetch, the posts of news.parse, the cards of           *)
(* servers.parseServers, the page of servers.Client.Get, and the mods that *)
(* moddb.Client.Search filters and sorts. The entries are read one by one, *)
(* those of a Go map in any order; what is kept is sorted.                 *)
(*                                                                         *)
(* An entry is known by its place in the payload. Texts that only have to  *)
(* be there are Booleans, those that are compared are numbered in their    *)
(* order, 0 for none; dates are numbered too, 0 for one that is missing or *)
(* cannot be read.                                                         *)
(***************************************************************************)
EXTENDS Versions, ServerParser, FiniteSets, Functions

CONSTANT Payloads  \* [source, query, entries] to be listed

ASSUME PayloadAssumption == \A p \in Payloads :
    /\ p.source \in {"releases", "news", "servers", "server", "mods"}
    /\ Len(p.entries) \in Nat /\ DOMAIN p.entries = 1 .. Len(p.entries)
    /\ \A i \in DOMAIN p.entries :
          LET e == p.entries[i] IN
          /\ p.source = "releases" => e.id \in Seq(Runs)
          /\ p.source = "news" => e.date \in Nat /\ e.link \in Nat /\ e.linked \in Nat
          /\ p.source \in {"servers", "server"} =>
                /\ Len(e.elements) \in Nat /\ DOMAIN e.elements = 1 .. Len(e.elements)
                /\ \A k \in DOMAIN e.elements : e.elements[k].n \in Nat
                /\ e.current \in BOOLEAN
          /\ p.source = "mods" => e.date \in Nat /\ e.downloads \in Nat /\ e.name \in Nat

VARIABLES
    payload,
    left,    \* entries not read yet
    items,   \* entries kept so far, then the list
    pc       \* "read", "listed" or "invalid"

vars == <<payload, left, items, pc>>

Entry(i) == payload.entries[i]

-----------------------------------------------------------------------------
(* Which entries are kept *)

\* Platforms whose distributions are listed: distributionFor.
Distributions == {"linux", "windows"}

\* parseRelease refuses an entry for any flaw it finds: no identity, an unsafe
\* file name, an untrusted URL, another name in the URL, no MD5 checksum.
parseRelease(e) ==
    /\ payload.query \in DOMAIN e.files
    /\ e.files[payload.query] = {}

\* The ID of a post: its link, or else the last link to an article in its text.
Article(e) == IF e.link # 0 THEN e.link ELSE e.linked

normalize(e) == e.title /\ e.date # 0 /\ Article(e) # 0

matchesText(e, text) == text \in e.words

containsAllFold(tags, wanted) == wanted \subseteq tags

Search(e) ==
    LET q == payload.query IN
    /\ q.text = 0 \/ matchesText(e, q.text)
    /\ q.side \in {"", "unknown", e.side}
    /\ q.after = 0 \/ (e.date # 0 /\ e.date >= q.after)
    /\ containsAllFold(e.tags, q.tags)

Usable(e) ==
    CASE payload.source = "releases" -> parseRelease(e)
      [] payload.source = "news" -> normalize(e)
      [] payload.source = "servers" -> parseServer(e).name # ""
      [] payload.source = "server" -> parseServerDetail(e).name # ""
      [] payload.source = "mods" -> Search(e)

-----------------------------------------------------------------------------
(* The order of the list *)

dateAfter(a, b) == a # 0 /\ (b = 0 \/ a > b)

sortMods(a, b) ==
    LET by == payload.query.sort IN
    CASE by = "downloads" -> a.downloads > b.downloads
      [] by = "name_asc" -> a.name < b.name
      [] by = "name_desc" -> a.name > b.name
      [] by \in {"newest", "updated"} -> dateAfter(a.date, b.date)
      [] OTHER -> payload.query.text = 0 /\ dateAfter(a.date, b.date)

\* The comparison each list is sorted with.
Before(a, b) ==
    CASE payload.source = "releases" -> compareVersions(a.id, b.id) > 0
      [] payload.source = "news" ->
            IF a.date = b.date THEN Article(a) < Article(b) ELSE a.date > b.date
      [] payload.source = "servers" -> parseServer(a).players > parseServer(b).players
      [] payload.source = "mods" -> sortMods(a, b)
      [] OTHER -> FALSE

\* sort.SliceStable, by its contract: a permutation in which nothing comes after
\* what it should precede, and what ties keeps its order.
SliceStable(s) ==
    {p \in Bijection(DOMAIN s, DOMAIN s) : \A i, j \in DOMAIN s : i < j =>
        \/ Before(Entry(s[p[i]]), Entry(s[p[j]]))
        \/ ~Before(Entry(s[p[j]]), Entry(s[p[i]])) /\ p[i] < p[j]}

-----------------------------------------------------------------------------
(* Reading *)

Init == /\ payload \in Payloads
        /\ left = DOMAIN payload.entries
        /\ items = <<>>
        /\ pc = "read"

\* A platform without distributions has an empty list, not an error.
Unsupported ==
    /\ pc = "read"
    /\ payload.source = "releases" /\ payload.query \notin Distributions
    /\ left' = {}
    /\ pc' = "listed"
    /\ UNCHANGED <<payload, items>>

\* A post whose article is already in the list.
Duplicate(i) ==
    /\ payload.source = "news"
    /\ \E k \in DOMAIN items : Article(Entry(items[k])) = Article(Entry(i))

\* The entries that may come next: the releases are read from a map.
Nexts == IF payload.source = "releases" THEN left ELSE {First(left)}

\* Mutant: every post is kept.
KeepDuplicates(i) == Usable(Entry(i))

Kept(i) == Usable(Entry(i)) /\ ~Duplicate(i)

\* Mutant: places are counted from zero.
KeepZeroBased(i) == IF Kept(i) THEN Append(items, i - 1) ELSE items

Keep(i) == IF Kept(i) THEN Append(items, i) ELSE items

Read ==
    /\ pc = "read" /\ left # {}
    /\ payload.source = "releases" => payload.query \in Distributions
    /\ \E i \in Nexts :
          /\ left' = left \ {i}
          /\ items' = Keep(i)
    /\ UNCHANGED <<payload, pc>>

\* news and the page of a server take an empty list for an invalid reply.
Invalid ==
    /\ pc = "read" /\ left = {} /\ items = <<>>
    /\ payload.source \in {"news", "server"}
    /\ pc' = "invalid"
    /\ UNCHANGED <<payload, left, items>>

Sort ==
    /\ pc = "read" /\ left = {}
    /\ payload.source = "releases" => payload.query \in Distributions
    /\ payload.source \in {"news", "server"} => items # <<>>
    /\ \E p \in SliceStable(items) : items' = [k \in DOMAIN items |-> items[p[k]]]
    /\ pc' = "listed"
    /\ UNCHANGED <<payload, left>>

Done == pc # "read" /\ UNCHANGED vars

Next == Unsupported \/ Read \/ Invalid \/ Sort \/ Done

Spec == Init /\ [][Next]_vars

-----------------------------------------------------------------------------
(* Properties *)

\* Types of the list under construction.
TypeOK ==
    /\ payload \in Payloads
    /\ left \subseteq DOMAIN payload.entries
    /\ items \in Seq(DOMAIN payload.entries)
    /\ pc \in {"read", "listed", "invalid"}

\* The order a reader expects, from the entries alone: newest version first,
\* newest date first and undated last, most players or downloads first.
Ahead(a, b) ==
    CASE payload.source = "releases" -> Newer(Reading(a.id), Reading(b.id))
      [] payload.source = "news" ->
            a.date > b.date \/ (a.date = b.date /\ Article(a) < Article(b))
      [] payload.source = "servers" -> parseServer(a).players > parseServer(b).players
      [] payload.source = "mods" ->
            LET q == payload.query IN
            CASE q.sort = "downloads" -> a.downloads > b.downloads
              [] q.sort = "name_asc" -> a.name < b.name
              [] q.sort = "name_desc" -> b.name < a.name
              [] q.sort \in {"newest", "updated"} -> a.date > b.date
              [] OTHER -> q.text = 0 /\ a.date > b.date
      [] OTHER -> FALSE

\* The list is in that order, so that every prerelease comes after its release
\* whatever order the map gave; and the payload determines it, so that the
\* pages of two equal searches fit together: what ties keeps its place in the
\* payload. Only versions that compare as equal may come in any order.
Ordered ==
    pc = "listed" => \A x, y \in DOMAIN items : x < y =>
        LET a == Entry(items[x])
            b == Entry(items[y])
        IN /\ ~Ahead(b, a)
           /\ Ahead(a, b) \/ items[x] < items[y] \/ payload.source = "releases"

\* What the list must hold: a post is listed once, by its first entry.
Wanted ==
    {i \in DOMAIN payload.entries :
        /\ Usable(Entry(i))
        /\ payload.source = "news" =>
              ~\E j \in 1 .. i - 1 : /\ normalize(Entry(j))
                                     /\ Article(Entry(j)) = Article(Entry(i))}

Listed == {items[k] : k \in DOMAIN items}

\* A bad entry costs only itself: it neither ends the list nor hides another
\* entry, not even one for the same article; and nothing is listed twice.
BadEntriesCostThemselves ==
    /\ pc = "listed" /\ ~(payload.source = "releases" /\ payload.query \notin Distributions)
          => /\ Listed = Wanted
             /\ Len(items) = Cardinality(Wanted)
    /\ pc = "invalid" => Wanted = {}

\* In the current layout a server is called what its last heading says, if that
\* says anything, wherever the labels stand that could name it; and no
\* restriction is missed.
HeadingNames ==
    payload.source = "servers" /\ pc = "listed" => \A i \in Listed :
        LET e == Entry(i)
            s == parseServer(e)
        IN \A k \in DOMAIN e.elements :
              LET x == e.elements[k] IN
              /\ e.current /\ x.is = "heading" /\ x.text # ""
                 /\ (\A j \in k + 1 .. Len(e.elements) : e.elements[j].is # "heading")
                    => s.name = x.text
              /\ x.is = "abbr" \/ (x.is = "icon" /\ e.current) => x.marks \subseteq s.restricted
=============================================================================
