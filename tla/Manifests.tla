----------------------------- MODULE Manifests -----------------------------
(***************************************************************************)
(* Reading a stream of YAML documents into manifests: SplitManifests       *)
(* (manifest/releaseutil), ListFromYamlDocs and the methods of a Manifest  *)
(* (manifest). SplitManifests returns a Go map, whose iteration visits the *)
(* keys in any order.                                                      *)
(***************************************************************************)
EXTENDS Naturals, Sequences, FiniteSetsExt

CONSTANTS
    Lines,    \* the lines a stream may consist of
    MaxLines  \* bound on their number

\* A line is a marker ("---"), is blank, or stands for the text of a document,
\* which is broken (no YAML mapping) or has some of the fields. A comment is a
\* mapping without any.
Line == [text : {"marker", "blank", "broken", "mapping"}, kind : BOOLEAN, version : BOOLEAN,
         metadata : {"none", "scalar", "mapping"}, name : BOOLEAN]

ASSUME LinesOK ==
    /\ MaxLines \in Nat
    /\ Lines \subseteq Line
    /\ \A l \in Lines : l.name => l.metadata = "mapping"

VARIABLES
    input,   \* the lines of the stream, in order
    pc,      \* "split", "visit", "ok" or "error"
    docs,    \* what SplitManifests returned: by key, the lines of the piece
    left,    \* keys that the loop of ListFromYamlDocs has not visited
    list,    \* the manifests so far, each by the place of its document
    ns,      \* the namespace stored in each document
    moved    \* history: the manifests that SetNamespace was called on

vars == <<input, pc, docs, left, list, ns, moved>>

Text == {i \in DOMAIN input : input[i].text \in {"broken", "mapping"}}

\* Two texts in a row would be one: the streams have a marker between them.
Init ==
    /\ input \in UNION {[1..n -> Lines] : n \in 0..MaxLines}
    /\ \A i, j \in Text : i < j => \E k \in i..j : input[k].text = "marker"
    /\ pc = "split"
    /\ docs = <<>>
    /\ left = {}
    /\ list = <<>>
    /\ ns = [i \in DOMAIN input |-> ""]
    /\ moved = {}

-----------------------------------------------------------------------------
\* The lines that are not blank, and the last of them before line i.
Shown == {i \in DOMAIN input : input[i].text # "blank"}
Before(i) == Max({0} \cup {j \in Shown : j < i})

\* Mutant of IsSeparator: a marker after a marker is never one.
IsSeparatorAlone ==
    [i \in 0..Len(input) |->
        /\ i > 0 /\ input[i].text = "marker"
        /\ Before(i) = 0 \/ input[Before(i)].text # "marker"]

\* The expression sep matches a marker with the white space around it: a marker
\* separates if it comes first, or after a line end that the separator before it
\* has not taken. So of markers in a row every second one is left in the text.
IsSeparator ==
    LET separates[i \in 0..Len(input)] ==
            i > 0 /\ input[i].text = "marker" /\ ~separates[Before(i)]
    IN separates

\* Where the pieces begin that are not empty.
Starts ==
    {i \in Shown : ~IsSeparator[i] /\ (Before(i) = 0 \/ IsSeparator[Before(i)])}

\* The pieces by key: how many come before.
SplitManifests ==
    [k \in 0..(Cardinality(Starts) - 1) |->
        LET start == CHOOSE i \in Starts : Cardinality({j \in Starts : j < i}) = k
        IN {i \in Shown : i >= start /\ \A j \in start..i : ~IsSeparator[j]}]

\* What the YAML decoder reads of a piece: its first document, which may have a
\* marker before it; 0 if that is empty.
Document(piece) ==
    LET first == Min(piece)
        next  == Min((piece \ {first}) \cup {Len(input) + 1})
    IN CASE first \in Text -> first
         [] first \notin Text /\ next \in Text -> next
         [] OTHER -> 0

Split ==
    /\ pc = "split"
    /\ docs' = SplitManifests
    /\ left' = DOMAIN SplitManifests
    /\ pc' = "visit"
    /\ UNCHANGED <<input, list, ns, moved>>

\* Mutant of HasBasicFields: the name is not looked at.
HasKindAndVersion(d) == d.kind /\ d.version

HasBasicFields(d) == d.kind /\ d.version /\ d.metadata = "mapping" /\ d.name

Listable(i) == i > 0 /\ input[i].text = "mapping" /\ HasBasicFields(input[i])

\* Mutant of Visit: a document that cannot be read is passed over.
VisitLeniently(k) ==
    /\ pc = "visit" /\ k \in left
    /\ left' = left \ {k}
    /\ list' = LET i == Document(docs[k]) IN IF Listable(i) THEN Append(list, i) ELSE list
    /\ UNCHANGED <<input, pc, docs, ns, moved>>

\* The loop visits some key it has not visited: the document is an error, is
\* listed, or is left out.
Visit(k) ==
    /\ pc = "visit" /\ k \in left
    /\ left' = left \ {k}
    /\ LET i == Document(docs[k])
       IN \/ /\ i > 0 /\ input[i].text = "broken"
             /\ pc' = "error"
             /\ list' = <<>>
          \/ /\ i > 0 => input[i].text # "broken"
             /\ pc' = pc
             /\ list' = IF Listable(i) THEN Append(list, i) ELSE list
    /\ UNCHANGED <<input, docs, ns, moved>>

Return ==
    /\ pc = "visit" /\ left = {}
    /\ pc' = "ok"
    /\ UNCHANGED <<input, docs, left, list, ns, moved>>

\* SetNamespace writes to the metadata, or to a new map that is then dropped.
SetNamespace(i) ==
    /\ pc = "ok"
    /\ i \in {list[n] : n \in DOMAIN list}
    /\ ns' = IF input[i].metadata = "mapping" THEN [ns EXCEPT ![i] = "new"] ELSE ns
    /\ moved' = moved \cup {i}
    /\ UNCHANGED <<input, pc, docs, left, list>>

Namespace(i, default) == IF ns[i] # "" THEN ns[i] ELSE default

Next ==
    \/ Split \/ Return
    \/ \E k \in left : Visit(k)
    \/ \E i \in DOMAIN input : SetNamespace(i)

Spec == Init /\ [][Next]_vars

-----------------------------------------------------------------------------
\* Whatever markers and blank lines the stream has, and however many in a row,
\* each document is what the decoder reads of one piece, and the numbers of the
\* pieces follow their order in the stream (releaseutil/manifest.go:36-63).
SplitKeepsDocuments ==
    pc # "split" =>
        /\ \A i \in Text : \E k \in DOMAIN docs : Document(docs[k]) = i
        /\ \A k, l \in DOMAIN docs : k < l => Max(docs[k]) < Min(docs[l])

\* In whatever order the map is visited, the call fails exactly if a document is
\* broken, and else returns every document with the basic fields, once
\* (manifest_list.go:5-20, releaseutil/manifest.go:39-63).
ListIsComplete ==
    /\ pc = "error" => \E i \in Text : input[i].text = "broken"
    /\ pc = "ok" =>
         /\ \A i \in Text : input[i].text # "broken"
         /\ \A i \in Text :
              Cardinality({n \in DOMAIN list : list[n] = i})
                = IF input[i].kind /\ input[i].version /\ input[i].name
                  THEN 1 ELSE 0

\* A manifest that ListFromYamlDocs returns can be moved to another namespace:
\* its metadata is there to hold it (manifest.go:91-105).
ListedCanBeMoved == \A i \in moved : Namespace(i, "default") = "new"
=============================================================================
