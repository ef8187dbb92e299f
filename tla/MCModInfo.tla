----------------------------- MODULE MCModInfo -----------------------------
(* Instance of ModInfo for TLC: up to three entries of every name, sizes    *)
(* around the limit, contents of every kind.                               *)
EXTENDS ModInfo

Field(key, type, padded) == [key |-> key, type |-> type, padded |-> padded]
Absent == Field("absent", "string", FALSE)

Shapes == {Absent, Field("exact", "string", TRUE), Field("cased", "string", FALSE),
           Field("exact", "number", FALSE)}

DepSets == {[d \in {} |-> "string"], [d \in {"lib"} |-> "number"],
            [d \in {"lib", "game"} |-> IF d = "lib" THEN "string" ELSE "nested"]}

Contents == {[syntax |-> s, fields |-> [f \in Fields |-> IF f = "name" THEN y ELSE x],
              deps |-> d] :
                s \in {"json", "loose", "garbage"}, x \in Shapes, y \in Shapes, d \in DepSets}

Plain == [syntax |-> "json", deps |-> [d \in {} |-> "string"],
          fields |-> [f \in Fields |-> Field("exact", "string", FALSE)]]

Entry(name, stated, size, content) ==
    [name |-> name, stated |-> stated, size |-> size, content |-> content]

Named == {Entry(n, s[1], s[2], Plain) :
             n \in {"root", "nested", "other"}, s \in {<<1, 1>>, <<1, 3>>, <<3, 1>>}}

MCArchives ==
    {[file |-> f, entries |-> <<>>] : f \in {"missing", "other", "zip"}}
    \cup {[file |-> "zip", entries |-> <<Entry("root", 2, 2, c)>>] : c \in Contents}
    \cup {[file |-> "zip", entries |-> e] : e \in [1 .. 3 -> Named]}
=============================================================================
