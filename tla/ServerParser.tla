---------------------------- MODULE ServerParser ----------------------------
(***************************************************************************)
(* What servers reads out of a page: one card of the list (parseServer),   *)
(* in the current layout or the legacy one, and the page of one server     *)
(* (parseServerDetail).                                                    *)
(*                                                                         *)
(* A page is what visit meets, in its order: the elements that the parsers *)
(* look at. is names what the element is recognised by; text, n and of are *)
(* what it says ("" or 0 when nothing), marks the restrictions it stands   *)
(* for: whitelist, password.                                               *)
(***************************************************************************)
EXTENDS Naturals, Sequences

Elements == {"players", "limit", "version", "join", "heading", "abbr", "icon",
             "mods", "external"}

NoServer == [name |-> "", address |-> "", joinable |-> FALSE, players |-> 0,
             max |-> 0, version |-> "", restricted |-> {}, mods |-> 0]

Join(s, x) == [s EXCEPT !.address = x.text, !.joinable = TRUE]

Limit(s, x) == [s EXCEPT !.players = x.n, !.max = x.of]

\* Mutant: an abbreviation renames the server.
AbbrRenames(s, x) == [s EXCEPT !.name = x.text, !.restricted = @ \cup x.marks]

\* An abbreviation names a server that has no name yet.
Abbr(s, x) == [s EXCEPT !.name = IF @ = "" THEN x.text ELSE @,
                        !.restricted = @ \cup x.marks]

\* One element of a card. Names: the last heading in the current layout, the
\* last join link in the legacy one.
readCard(current, s, x) ==
    CASE x.is = "players" -> [s EXCEPT !.players = x.n]
      [] x.is = "limit" /\ current -> Limit(s, x)
      [] x.is = "version" /\ current /\ s.version = "" -> [s EXCEPT !.version = x.text]
      [] x.is = "join" /\ current -> Join(s, x)
      [] x.is = "join" /\ ~current -> [Join(s, x) EXCEPT !.name = x.text]
      [] x.is = "heading" /\ current -> [s EXCEPT !.name = x.text]
      [] x.is = "abbr" -> Abbr(s, x)
      [] x.is = "icon" /\ current -> [s EXCEPT !.restricted = @ \cup x.marks]
      [] x.is = "mods" -> [s EXCEPT !.mods = x.n]
      [] OTHER -> s

\* read[n] is what the first n elements say.
parseServer(card) ==
    LET read[n \in 0 .. Len(card.elements)] ==
            IF n = 0 THEN NoServer
            ELSE readCard(card.current, read[n - 1], card.elements[n])
    IN read[Len(card.elements)]

\* One element of the page of a server, which lists every mod as a link.
readDetail(s, x) ==
    CASE x.is = "heading" /\ s.name = "" -> [s EXCEPT !.name = x.text]
      [] x.is = "join" -> Join(s, x)
      [] x.is = "limit" -> Limit(s, x)
      [] x.is = "version" -> [s EXCEPT !.version = x.text]
      [] x.is = "external" -> [s EXCEPT !.mods = @ + 1]
      [] OTHER -> s

parseServerDetail(page) ==
    LET read[n \in 0 .. Len(page.elements)] ==
            IF n = 0 THEN NoServer ELSE readDetail(read[n - 1], page.elements[n])
    IN read[Len(page.elements)]
=============================================================================
