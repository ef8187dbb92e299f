--------------------------- MODULE ModInfoProofs ---------------------------
(***************************************************************************)
(* Theorems about ModInfo, for every archive and every limit.              *)
(***************************************************************************)
EXTENDS ModInfo, TLAPS

\* What makes the choice of the entry inductive: chosen is the best of the
\* entries looked at, and all of them once the search is over.
Chosen ==
    /\ archive \in Archives
    /\ pos \in 1 .. Len(archive.entries) + 1
    /\ chosen \in 0 .. Len(archive.entries)
    /\ chosen = 0 => \A i \in 1 .. pos - 1 : archive.entries[i].name = "other"
    /\ chosen # 0 =>
         /\ chosen < pos
         /\ File.name \in {"root", "nested"}
         /\ File.name = "root" => Scanned
         /\ \A i \in 1 .. pos - 1 : archive.entries[i].name = File.name => chosen <= i
         /\ File.name = "nested" =>
              \A i \in 1 .. pos - 1 : archive.entries[i].name # "root"
    /\ pc = "open" => pos = 1
    /\ pc \in {"read", "parse"} => chosen # 0 /\ Scanned
    /\ pc = "parse" => File.size <= MaxBytes

LEMMA ChosenInit == Init => Chosen
  BY ArchivesAssumption DEF Init, Chosen

LEMMA ChosenNext == Chosen /\ [Next]_vars => Chosen'
  <1> SUFFICES ASSUME Chosen, [Next]_vars PROVE Chosen'
    OBVIOUS
  <1>0. Len(archive.entries) \in Nat /\ DOMAIN archive.entries = 1 .. Len(archive.entries)
    BY ArchivesAssumption DEF Chosen
  <1>1. CASE Scan
    <2>1. /\ pos \in Nat /\ pos <= Len(archive.entries) /\ archive' = archive /\ pc' = pc
          /\ pc = "scan" /\ ~Scanned
      BY <1>0, <1>1 DEF Scan, Scanned, Chosen
    <2>2. archive.entries[pos].name \in {"root", "nested", "other"}
      BY <1>0, <2>1, ArchivesAssumption DEF Chosen
    <2>3. CASE archive.entries[pos].name = "root"
      <3>1. chosen' = pos /\ pos' = Len(archive.entries) + 1
        BY <1>1, <2>3 DEF Scan
      <3>2. \A i \in 1 .. pos - 1 : archive.entries[i].name # "root"
        BY <2>1 DEF Chosen
      <3>3. \A i \in 1 .. pos' - 1 : archive.entries[i].name = "root" => pos <= i
        BY <1>0, <2>1, <3>1, <3>2
      <3>4. File'.name = "root"
        BY <2>1, <2>3, <3>1 DEF File
      <3>5. QED
        BY <1>0, <2>1, <3>1, <3>3, <3>4 DEF Chosen, Scanned
    <2>4. CASE archive.entries[pos].name # "root" /\ chosen # 0
      <3>1. chosen' = chosen /\ pos' = pos + 1 /\ File' = File
        BY <1>1, <2>1, <2>4 DEF Scan, File
      <3>2. QED
        BY <1>0, <2>1, <2>4, <3>1 DEF Chosen, Scanned
    <2>5. CASE archive.entries[pos].name = "nested" /\ chosen = 0
      <3>1. chosen' = pos /\ pos' = pos + 1 /\ File'.name = "nested"
        BY <1>1, <2>1, <2>5 DEF Scan, File
      <3>2. QED
        BY <1>0, <2>1, <2>5, <3>1 DEF Chosen, Scanned
    <2>6. CASE archive.entries[pos].name = "other" /\ chosen = 0
      <3>1. chosen' = 0 /\ pos' = pos + 1
        BY <1>1, <2>6 DEF Scan
      <3>2. QED
        BY <1>0, <2>1, <2>6, <3>1 DEF Chosen, Scanned
    <2>7. QED
      BY <2>2, <2>3, <2>4, <2>5, <2>6
  <1>2. CASE Open \/ StatedFits
    BY <1>0, <1>2 DEF Open, StatedFits, Chosen, File, Scanned
  <1>3. CASE Read
    BY <1>0, <1>3 DEF Read, Return, Chosen, File, Scanned
  <1>4. CASE OpenFails \/ NoModInfo \/ StatedTooLarge \/ ReadFails
    BY <1>0, <1>4 DEF OpenFails, NoModInfo, StatedTooLarge, ReadFails, Return, Chosen, File, Scanned
  <1>5. CASE ParseContent
    BY <1>0, <1>5 DEF ParseContent, Return, Chosen, File, Scanned
  <1>6. CASE Done \/ UNCHANGED vars
    BY <1>6 DEF Done, vars, Chosen, File, Scanned
  <1>7. QED
    BY <1>1, <1>2, <1>3, <1>4, <1>5, <1>6 DEF Next

\* ReadArchive parses the mod's own modinfo.json, within the limit, whatever
\* the archive holds, in whatever order, and whatever its headers state.
THEOREM OwnEntry == Spec => []OwnEntryParsed
  <1>1. ASSUME Chosen PROVE OwnEntryParsed
    <2> SUFFICES ASSUME pc = "parse" PROVE OwnEntryParsed
      BY DEF OwnEntryParsed
    <2>1. File.size <= MaxBytes /\ chosen # 0 /\ pos > Len(archive.entries)
      BY <1>1 DEF Chosen, Scanned
    <2> SUFFICES ASSUME NEW i \in DOMAIN archive.entries
                 PROVE  /\ archive.entries[i].name = "root" => File.name = "root"
                        /\ archive.entries[i].name = File.name => chosen <= i
      BY <2>1 DEF OwnEntryParsed
    <2>2. Len(archive.entries) \in Nat /\ i \in 1 .. Len(archive.entries) /\ pos \in Nat
      BY <1>1, ArchivesAssumption DEF Chosen
    <2>3. i \in 1 .. pos - 1
      BY <2>1, <2>2
    <2>4. File.name \in {"root", "nested"}
      BY <1>1, <2>1 DEF Chosen
    <2>5. File.name = "nested" => archive.entries[i].name # "root"
      BY <1>1, <2>1, <2>3 DEF Chosen
    <2>6. archive.entries[i].name = File.name => chosen <= i
      BY <1>1, <2>1, <2>3 DEF Chosen
    <2>7. QED
      BY <2>1, <2>4, <2>5, <2>6
  <1>2. QED
    BY <1>1, ChosenInit, ChosenNext, PTL DEF Spec

Infos == [text : [Fields -> {"none", "plain", "padded"}], deps : SUBSET Names]

\* Both readers return a well-formed Info.
LEMMA ParseType == ASSUME NEW c, ContentOK(c) PROVE Parse(c) \in Infos
  <1>1. Strict(c) \in Infos
    <2>1. [f \in Fields |-> IF c.fields[f].key = "absent" THEN "none"
                            ELSE IF c.fields[f].padded THEN "padded" ELSE "plain"]
             \in [Fields -> {"none", "plain", "padded"}]
      OBVIOUS
    <2>2. DOMAIN c.deps \in SUBSET Names
      BY DEF ContentOK
    <2>3. QED
      BY <2>1, <2>2 DEF Strict, Infos
  <1>2. Lenient(c) \in Infos
    <2>1. [f \in Fields |-> IF c.syntax # "garbage" /\ c.fields[f].key = "exact"
                            THEN "plain" ELSE "none"]
             \in [Fields -> {"none", "plain", "padded"}]
      OBVIOUS
    <2>2. (IF c.syntax = "garbage" THEN {}
           ELSE {d \in DOMAIN c.deps : c.deps[d] # "nested"}) \in SUBSET Names
      BY DEF ContentOK
    <2>3. QED
      BY <2>1, <2>2 DEF Lenient, Infos
  <1>3. QED
    BY <1>1, <1>2 DEF Parse

\* The strict reader keeps what it accepts, and what the lenient one is left
\* with, unless it finds nothing at all, holds every exact key.
LEMMA ParseKeeps ==
  ASSUME NEW c, ContentOK(c), ~ParseFails(c)
  PROVE  /\ \A f \in Fields : c.fields[f].key = "exact" => Parse(c).text[f] # "none"
         /\ \A d \in DOMAIN c.deps : d \in Parse(c).deps <=> c.deps[d] # "nested"
  <1>1. CASE StrictOK(c)
    <2>1. Parse(c) = Strict(c)
      BY <1>1 DEF Parse
    <2>2. /\ \A f \in Fields : Strict(c).text[f] = IF c.fields[f].key = "absent" THEN "none"
                                 ELSE IF c.fields[f].padded THEN "padded" ELSE "plain"
          /\ Strict(c).deps = DOMAIN c.deps
      BY DEF Strict
    <2>3. \A d \in DOMAIN c.deps : c.deps[d] # "nested"
      BY <1>1 DEF StrictOK
    <2>4. QED
      BY <2>1, <2>2, <2>3
  <1>2. CASE ~StrictOK(c)
    <2>1. Parse(c) = Lenient(c)
      BY <1>2 DEF Parse
    <2>2. Lenient(c).text = [f \in Fields |-> IF c.syntax # "garbage" /\ c.fields[f].key = "exact"
                                              THEN "plain" ELSE "none"]
      BY DEF Lenient
    <2>3. c.syntax # "garbage"
      <3>1. SUFFICES ASSUME c.syntax = "garbage" PROVE FALSE
        OBVIOUS
      <3>2. Lenient(c).text = [f \in Fields |-> "none"]
        BY <2>2, <3>1
      <3>3. QED
        BY <1>2, <3>2 DEF ParseFails, NoInfo
    <2>4. Lenient(c).deps = {d \in DOMAIN c.deps : c.deps[d] # "nested"}
      BY <2>3 DEF Lenient
    <2>5. QED
      BY <2>1, <2>2, <2>3, <2>4
  <1>3. QED
    BY <1>1, <1>2

\* What a call returns: an error of the package and nothing else, or the info
\* of the entry it chose.
Returned ==
    /\ pc \in {"open", "scan", "read", "parse", "returned"}
    /\ error \in {"none", "open", "read", "ErrNotAnArchive", "ErrNoModInfo", "ErrTooLarge",
                  "ErrInvalidContent"}
    /\ pc = "returned" /\ error = "none" =>
          chosen # 0 /\ ~ParseFails(File.content) /\ info = Parse(File.content)
    /\ ~(pc = "returned" /\ error = "none") => info = NoInfo
    /\ pc # "returned" => error = "none"

LEMMA ReturnedInit == Init => Returned
  BY DEF Init, Returned

LEMMA ReturnedNext == Chosen /\ Returned /\ [Next]_vars => Returned'
  <1> SUFFICES ASSUME Chosen, Returned, [Next]_vars PROVE Returned'
    OBVIOUS
  <1>1. CASE Scan
    BY <1>1 DEF Scan, Returned
  <1>2. CASE Open \/ StatedFits
    BY <1>2 DEF Open, StatedFits, Returned
  <1>3. CASE Read
    BY <1>3 DEF Read, Return, Returned
  <1>4. CASE OpenFails \/ NoModInfo \/ StatedTooLarge \/ ReadFails
    BY <1>4 DEF OpenFails, NoModInfo, StatedTooLarge, ReadFails, Return, Returned
  <1>5. CASE ParseContent
    <2>1. CASE ParseFails(File.content) /\ Return("ErrInvalidContent")
      BY <1>5, <2>1 DEF ParseContent, Return, Returned
    <2>2. CASE /\ ~ParseFails(File.content)
               /\ info' = Parse(File.content)
               /\ pc' = "returned"
               /\ UNCHANGED <<archive, pos, chosen, error>>
      <3>1. pc = "parse" /\ error = "none" /\ chosen # 0
        BY <1>5 DEF ParseContent, Returned, Chosen
      <3>2. File' = File
        BY <2>2 DEF File
      <3>3. ParseFails(File.content)' <=> ParseFails(File.content)
        BY <3>2
      <3>4. Parse(File.content)' = Parse(File.content)
        BY <3>2
      <3>5. QED
        BY <2>2, <3>1, <3>3, <3>4 DEF Returned
    <2>3. QED
      BY <1>5, <2>1, <2>2 DEF ParseContent
  <1>6. CASE Done \/ UNCHANGED vars
    <2>1. UNCHANGED <<archive, pos, chosen, pc, error, info>> /\ File' = File
      BY <1>6 DEF Done, vars, File
    <2>2. QED
      BY <2>1 DEF Returned
  <1>7. QED
    BY <1>1, <1>2, <1>3, <1>4, <1>5, <1>6 DEF Next

LEMMA Invariance == Spec => [](Chosen /\ Returned)
  BY ChosenInit, ChosenNext, ReturnedInit, ReturnedNext, PTL DEF Spec

\* The content parsed is that of an entry of the archive.
LEMMA FileContent == ASSUME Chosen, chosen # 0 PROVE ContentOK(File.content)
  <1>1. archive \in Archives /\ chosen \in DOMAIN archive.entries
    BY ArchivesAssumption DEF Chosen
  <1>2. QED
    BY <1>1, ArchivesAssumption DEF File

\* ReadArchive returns an Info of the fields and dependencies a mod may have, or
\* one of the package's errors and an empty Info.
THEOREM TypeCorrect == Spec => []TypeOK
  <1>1. ASSUME Chosen, Returned PROVE TypeOK
    <2>1. NoInfo \in Infos
      BY DEF NoInfo, Infos
    <2>2. info \in Infos
      <3>1. CASE pc = "returned" /\ error = "none"
        BY <1>1, <3>1, FileContent, ParseType DEF Returned
      <3>2. CASE ~(pc = "returned" /\ error = "none")
        BY <1>1, <2>1, <3>2 DEF Returned
      <3>3. QED
        BY <3>1, <3>2
    <2>3. QED
      BY <1>1, <2>2 DEF TypeOK, Chosen, Returned, Infos
  <1>2. QED
    BY <1>1, Invariance, PTL

\* For every content the two readers tell apart, falling back to the lenient one
\* loses no field under its exact key and no scalar dependency.
THEOREM FallbackLosesNothing == Spec => []FallbackKeepsExact
  <1>1. ASSUME Chosen, Returned PROVE FallbackKeepsExact
    <2>1. SUFFICES ASSUME pc = "returned", error = "none"
                   PROVE  /\ \A f \in Fields : File.content.fields[f].key = "exact"
                                                  => info.text[f] # "none"
                          /\ \A d \in DOMAIN File.content.deps :
                                d \in info.deps <=> File.content.deps[d] # "nested"
      BY DEF FallbackKeepsExact
    <2>2. chosen # 0 /\ ~ParseFails(File.content) /\ info = Parse(File.content)
      BY <1>1, <2>1 DEF Returned
    <2>3. QED
      BY <1>1, <2>2, FileContent, ParseKeeps
  <1>2. QED
    BY <1>1, Invariance, PTL
=============================================================================
