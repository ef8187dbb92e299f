------------------------------ MODULE ModInfo ------------------------------
(***************************************************************************)
(* modinfo.ReadArchive: find modinfo.json among the entries of an archive, *)
(* read it within a limit, and Parse it, strictly or leniently.            *)
(*                                                                         *)
(* The zip reader and the two JSON readers are external. An entry is       *)
(* "root" when its whole name is modinfo.json, "nested" when only its base *)
(* name is, whatever the case. A header may state another size than the    *)
(* entry has. The content is "json", which the standard library can read,  *)
(* "loose" (trailing commas and the like), where the lenient reader still  *)
(* finds every key, or "garbage", where it finds none. A byte order mark   *)
(* is cut off and makes no difference.                                     *)
(***************************************************************************)
EXTENDS Naturals, Sequences

CONSTANTS
    Archives, \* files ReadArchive is called for
    MaxBytes, \* largest modinfo.json
    Names     \* dependencies a mod may declare

ASSUME MaxBytesAssumption == MaxBytes \in Nat

Fields == {"modid", "name", "version"}

\* What can be in an entry, as far as the two readers tell it apart.
ContentOK(c) ==
    /\ c.syntax \in {"json", "loose", "garbage"}
    /\ \A f \in Fields : /\ c.fields[f].key \in {"absent", "exact", "cased"}
                         /\ c.fields[f].type \in {"string", "number"}
                         /\ c.fields[f].padded \in BOOLEAN
    /\ DOMAIN c.deps \subseteq Names
    /\ \A d \in DOMAIN c.deps : c.deps[d] \in {"string", "number", "nested"}

ASSUME ArchivesAssumption == \A a \in Archives :
    /\ Len(a.entries) \in Nat
    /\ DOMAIN a.entries = 1 .. Len(a.entries)
    /\ \A i \in DOMAIN a.entries : /\ a.entries[i].name \in {"root", "nested", "other"}
                                   /\ a.entries[i].stated \in Nat
                                   /\ a.entries[i].size \in Nat
                                   /\ ContentOK(a.entries[i].content)

VARIABLES
    archive,
    pos,      \* entry of the archive looked at next
    chosen,   \* modInfoFile: its place, 0 for nil
    pc,       \* "open", "scan", "read", "parse" or "returned"
    error,    \* what ReadArchive returns
    info

vars == <<archive, pos, chosen, pc, error, info>>

NoInfo == [text |-> [f \in Fields |-> "none"], deps |-> {}]

File == archive.entries[chosen]

-----------------------------------------------------------------------------
(* Parse. A field is absent, or its key is spelled "exact" or in another     *)
(* case, its value a string or a number, with spaces around it or without.   *)

StrictOK(c) ==
    /\ c.syntax = "json"
    /\ \A f \in Fields : c.fields[f].key # "absent" => c.fields[f].type = "string"
    /\ \A d \in DOMAIN c.deps : c.deps[d] = "string"

\* json.Unmarshal finds keys in any case and keeps the spaces of a value.
Strict(c) ==
    [text |-> [f \in Fields |-> IF c.fields[f].key = "absent" THEN "none"
                                ELSE IF c.fields[f].padded THEN "padded" ELSE "plain"],
     deps |-> DOMAIN c.deps]

\* Mutant: dependencies that are not strings are dropped.
LenientStringsOnly(c) ==
    [text |-> [f \in Fields |-> IF c.syntax # "garbage" /\ c.fields[f].key = "exact"
                                THEN "plain" ELSE "none"],
     deps |-> IF c.syntax = "garbage" THEN {}
              ELSE {d \in DOMAIN c.deps : c.deps[d] = "string"}]

\* gjson finds exact keys and turns any scalar to text; the spaces are cut off.
Lenient(c) ==
    [text |-> [f \in Fields |-> IF c.syntax # "garbage" /\ c.fields[f].key = "exact"
                                THEN "plain" ELSE "none"],
     deps |-> IF c.syntax = "garbage" THEN {}
              ELSE {d \in DOMAIN c.deps : c.deps[d] # "nested"}]

Parse(c) == IF StrictOK(c) THEN Strict(c) ELSE Lenient(c)

ParseFails(c) == ~StrictOK(c) /\ Lenient(c).text = NoInfo.text

-----------------------------------------------------------------------------
(* ReadArchive *)

Init == /\ archive \in Archives
        /\ pos = 1
        /\ chosen = 0
        /\ pc = "open"
        /\ error = "none"
        /\ info = NoInfo

Return(e) == /\ pc' = "returned"
             /\ error' = e
             /\ UNCHANGED <<archive, pos, chosen, info>>

Open == /\ pc = "open"
        /\ archive.file = "zip"
        /\ pc' = "scan"
        /\ UNCHANGED <<archive, pos, chosen, error, info>>

OpenFails == /\ pc = "open"
             /\ archive.file # "zip"
             /\ Return(IF archive.file = "other" THEN "ErrNotAnArchive" ELSE "open")

Scanned == pos > Len(archive.entries)

\* Mutant: the first entry called so is taken, wherever it lies.
ScanTakesFirst ==
    /\ pc = "scan" /\ ~Scanned
    /\ IF archive.entries[pos].name # "other"
       THEN chosen' = pos /\ pos' = Len(archive.entries) + 1
       ELSE UNCHANGED chosen /\ pos' = pos + 1
    /\ UNCHANGED <<archive, pc, error, info>>

\* One entry: the first at the root ends the search, the first below it is
\* kept in case there is none.
Scan ==
    /\ pc = "scan" /\ ~Scanned
    /\ \/ /\ archive.entries[pos].name = "root"
          /\ chosen' = pos
          /\ pos' = Len(archive.entries) + 1
       \/ /\ archive.entries[pos].name # "root"
          /\ chosen' = IF chosen = 0 /\ archive.entries[pos].name = "nested"
                       THEN pos ELSE chosen
          /\ pos' = pos + 1
    /\ UNCHANGED <<archive, pc, error, info>>

NoModInfo == pc = "scan" /\ Scanned /\ chosen = 0 /\ Return("ErrNoModInfo")

StatedTooLarge ==
    /\ pc = "scan" /\ Scanned /\ chosen # 0
    /\ File.stated > MaxBytes
    /\ Return("ErrTooLarge")

StatedFits ==
    /\ pc = "scan" /\ Scanned /\ chosen # 0
    /\ File.stated <= MaxBytes
    /\ pc' = "read"
    /\ UNCHANGED <<archive, pos, chosen, error, info>>

\* The entry cannot be opened or read; a size other than the stated one is
\* an error the zip reader may find.
ReadFails == pc = "read" /\ Return("read")

\* Read one byte past the limit, and no further.
Read ==
    /\ pc = "read"
    /\ \/ File.size > MaxBytes /\ Return("ErrTooLarge")
       \/ /\ File.size <= MaxBytes
          /\ pc' = "parse"
          /\ UNCHANGED <<archive, pos, chosen, error, info>>

\* Mutant: the parser's own error is returned.
ParseContentUnwrapped ==
    /\ pc = "parse"
    /\ \/ ParseFails(File.content) /\ Return("syntax")
       \/ /\ ~ParseFails(File.content)
          /\ info' = Parse(File.content)
          /\ pc' = "returned"
          /\ UNCHANGED <<archive, pos, chosen, error>>

ParseContent ==
    /\ pc = "parse"
    /\ \/ ParseFails(File.content) /\ Return("ErrInvalidContent")
       \/ /\ ~ParseFails(File.content)
          /\ info' = Parse(File.content)
          /\ pc' = "returned"
          /\ UNCHANGED <<archive, pos, chosen, error>>

Done == pc = "returned" /\ UNCHANGED vars

Next == \/ Open \/ OpenFails \/ Scan \/ NoModInfo \/ StatedTooLarge \/ StatedFits
        \/ ReadFails \/ Read \/ ParseContent \/ Done

Spec == Init /\ [][Next]_vars

-----------------------------------------------------------------------------
(* Properties *)

\* Types of a call. An error is one of the package's, or says which step failed.
TypeOK ==
    /\ archive \in Archives
    /\ pos \in 1 .. Len(archive.entries) + 1
    /\ chosen \in 0 .. Len(archive.entries)
    /\ pc \in {"open", "scan", "read", "parse", "returned"}
    /\ error \in {"none", "open", "read", "ErrNotAnArchive", "ErrNoModInfo", "ErrTooLarge",
                  "ErrInvalidContent"}
    /\ info \in [text : [Fields -> {"none", "plain", "padded"}], deps : SUBSET Names]

\* Whatever the order of the entries, what is parsed is the modinfo.json at the
\* root if there is one, and otherwise the first one below it; and it is never
\* larger than the limit, whatever its header states.
OwnEntryParsed ==
    pc = "parse" =>
        /\ File.size <= MaxBytes
        /\ \A i \in DOMAIN archive.entries :
              /\ archive.entries[i].name = "root" => File.name = "root"
              /\ archive.entries[i].name = File.name => chosen <= i

\* Losing the strict parse loses no field and no dependency that is a scalar
\* under its exact key: the second parse does not undo the first.
FallbackKeepsExact ==
    pc = "returned" /\ error = "none" =>
        LET c == File.content IN
        /\ \A f \in Fields : c.fields[f].key = "exact" => info.text[f] # "none"
        /\ \A d \in DOMAIN c.deps : d \in info.deps <=> c.deps[d] # "nested"
=============================================================================
