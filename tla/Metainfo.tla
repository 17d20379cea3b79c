------------------------------ MODULE Metainfo ------------------------------
(***************************************************************************)
(* torrent.From: a decoded .torrent dictionary is applied to a             *)
(* MetaInfoFile key by key, in the random order of Go's maps, and the      *)
(* result is validated.                                                    *)
(*                                                                         *)
(* A document gives each key a value; Absent and Wrong stand for a key     *)
(* that is not there and for a value of another bencoding type.  "extra"   *)
(* is any optional key that is only stored (comment, created by, encoding, *)
(* creation date, announce-list, url-list), "unknown" and, within info,    *)
(* "other" any key the code does not know; "pieceLength" is "piece         *)
(* length".  A text is empty or "text", the value of "pieces" its length   *)
(* in bytes, a file a record of its length and its path.                   *)
(***************************************************************************)
EXTENDS Naturals, Sequences, Values

CONSTANT Documents      \* bound: the documents that are read

TopKeys  == {"announce", "info", "extra", "unknown"}
InfoKeys == {"name", "length", "md5sum", "files", "pieceLength", "pieces", "private", "other"}

\* What names, lengths and file lists a MetaInfoFile is given: zero values, or
\* those of a document.
Names     == {""}   \cup {d["name"]   : d \in Documents}
Lengths   == {0}    \cup {d["length"] : d \in Documents}
FileLists == {<<>>} \cup {d["files"]  : d \in Documents}

\* A document has every key; a value that is not there is neither one of the
\* wrong type nor a record of files.
ASSUME DocumentAssumption ==
    /\ Absent # Wrong
    /\ \A d \in Documents : DOMAIN d = TopKeys \cup InfoKeys
    /\ Absent \notin [name : Names, length : Lengths]
    /\ Absent \notin [name : Names, files : FileLists]

VARIABLES
    doc,        \* the document, Absent before it is read
    todo,       \* keys of the document not yet applied
    infoTodo,   \* keys of its info dictionary not yet applied
    meta,       \* the MetaInfoFile
    verdict     \* what From returns

metaVars == <<doc, todo, infoTodo, meta, verdict>>

\* The zero MetaInfoFile.
Empty == [announce |-> "", single |-> Absent, multi |-> Absent, pieceLength |-> 0, pieces |-> 0]

Single == [name |-> "", length |-> 0]

MetainfoInit == doc = Absent /\ todo = {} /\ infoTodo = {} /\ meta = Empty /\ verdict = "none"

\* A document is decoded; its values may be of any type.
Open ==
    /\ verdict = "none"
    /\ verdict' = "reading"
    /\ doc' \in Documents
    /\ todo' = {k \in TopKeys : doc'[k] # Absent}
    /\ UNCHANGED <<infoTodo, meta>>

Reject == verdict' = "rejected" /\ UNCHANGED meta

IsMultiFile == doc["files"] # Absent

\* apply, for a key at the top; an info dictionary decides between the modes.
Apply(k) ==
    /\ verdict = "reading" /\ k \in todo /\ infoTodo = {}
    /\ todo' = todo \ {k}
    /\ IF doc[k] = Wrong \/ k = "unknown" THEN Reject
       ELSE /\ meta' = CASE k = "announce" -> [meta EXCEPT !.announce = doc[k]]
                         [] k = "info" /\ IsMultiFile ->
                                [meta EXCEPT !.multi = [name |-> "", files |-> <<>>]]
                         [] k = "info" /\ ~IsMultiFile -> [meta EXCEPT !.single = Single]
                         [] OTHER -> meta
            /\ UNCHANGED verdict
    /\ infoTodo' = IF k = "info" THEN {j \in InfoKeys : doc[j] # Absent} ELSE {}
    /\ UNCHANGED doc

\* Seeded fault: the length replaces the whole single-file record.
SingleOfReset(m) == Single

\* info.InfoSingleFile, made when there is none.
SingleOf(m) == IF m.single = Absent THEN Single ELSE m.single

\* The name goes to the record of the mode.
WithName(m, s) == IF IsMultiFile THEN [m EXCEPT !.multi.name = s]
                                 ELSE [m EXCEPT !.single.name = s]

\* infoCommon
InfoCommon(k) ==
    /\ verdict = "reading" /\ k \in infoTodo
    /\ infoTodo' = infoTodo \ {k}
    /\ IF doc[k] = Wrong \/ k = "other" THEN Reject
       ELSE /\ meta' = CASE k = "name"   -> WithName(meta, doc[k])
                         [] k = "length" -> [meta EXCEPT !.single =
                                                [SingleOf(meta) EXCEPT !.length = doc[k]]]
                         [] k = "md5sum" -> [meta EXCEPT !.single = SingleOf(meta)]
                         [] k = "files"  -> [meta EXCEPT !.multi.files = doc[k]]
                         [] k = "pieceLength" -> [meta EXCEPT !.pieceLength = doc[k]]
                         [] k = "pieces" -> [meta EXCEPT !.pieces = doc[k]]
                         [] k = "private" -> meta
            /\ UNCHANGED verdict
    /\ UNCHANGED <<doc, todo>>

\* validate
Valid(m) ==
    /\ m.announce # ""
    /\ m.single # Absent \/ m.multi # Absent
    /\ m.pieces # 0 /\ m.pieces % 20 = 0
    /\ m.single # Absent => m.single.name # "" /\ m.single.length # 0
    /\ m.multi # Absent => /\ m.multi.name # ""
                        /\ \A n \in DOMAIN m.multi.files : /\ m.multi.files[n].length # 0
                                                           /\ m.multi.files[n].path # ""

Validate ==
    /\ verdict = "reading" /\ todo = {} /\ infoTodo = {}
    /\ verdict' = IF Valid(meta) THEN "accepted" ELSE "rejected"
    /\ UNCHANGED <<doc, todo, infoTodo, meta>>

MetainfoNext ==
    \/ Open
    \/ \E k \in TopKeys : Apply(k)
    \/ \E k \in InfoKeys : InfoCommon(k)
    \/ Validate

MetainfoSpec == MetainfoInit /\ [][MetainfoNext]_metaVars

-----------------------------------------------------------------------------
(* What a document means, whatever the order of its keys *)

FilesOk(d) == \A n \in DOMAIN d["files"] : /\ d["files"][n].length # 0
                                            /\ d["files"][n].path # ""

Acceptable(d) ==
    /\ \A k \in DOMAIN d : d[k] # Wrong
    /\ d["unknown"] = Absent /\ d["other"] = Absent /\ d["info"] # Absent
    /\ Absent \notin {d["announce"], d["name"], d["pieces"]}
    /\ "" \notin {d["announce"], d["name"]}
    /\ d["pieces"] # 0 /\ d["pieces"] % 20 = 0
    /\ \/ d["files"] = Absent /\ d["length"] \notin {Absent, 0}
       \/ /\ d["files"] # Absent /\ FilesOk(d)
          /\ d["length"] = Absent /\ d["md5sum"] = Absent

Meaning(d) ==
    [announce |-> d["announce"], pieces |-> d["pieces"],
     pieceLength |-> IF d["pieceLength"] = Absent THEN 0 ELSE d["pieceLength"],
     single |-> IF d["files"] # Absent THEN Absent
                ELSE [name |-> d["name"], length |-> d["length"]],
     multi  |-> IF d["files"] = Absent THEN Absent
                ELSE [name |-> d["name"], files |-> d["files"]]]

(***************************************************************************)
(* Whatever order the keys are applied in, From accepts the same documents *)
(* and makes the same torrent of them, which has one file or a directory   *)
(* of files and never both.                                                *)
(***************************************************************************)
FromIsOrderFree ==
    /\ verdict = "accepted" => Acceptable(doc) /\ meta = Meaning(doc)
    /\ verdict = "rejected" => ~Acceptable(doc)
=============================================================================
