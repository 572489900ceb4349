-------------------------- MODULE LexicalToolsProofs --------------------------
(***************************************************************************)
(* What the tools of the MCP server answer after a pass is what the files  *)
(* say, for all files that settle: FilesAreAnswered.                       *)
(*                                                                         *)
(* From the files to the graph: a row that is sent stands after the pass   *)
(* (NodeStands and EdgeStands), so the tools find what it says.  From the  *)
(* graph to the files: what a tool matches comes from some row             *)
(* (NothingIsInvented), so it finds nothing else in its place.             *)
(***************************************************************************)
EXTENDS LexicalTools, LexicalIngestProofs

\* After a pass over files that settle, those of MACULA-Hebrew among them.
Ready(most) ==
  /\ FilesSettle(most) /\ Inv(most) /\ Sound /\ passed /\ InOrder
  /\ BundleSettles /\ AnchorsSettle(most) /\ ToolsSettle

-----------------------------------------------------------------------------
(* Lists up to a limit. *)

\* What is left out of a list was left out for its limit.
LEMMA SomeShow ==
  ASSUME NEW S, IsFiniteSet(S), NEW n \in Nat, NEW x \in S
  PROVE  x \in Some(S, n) \/ Cardinality(Some(S, n)) = n
<1> DEFINE P == Some(S, n)
<1>1. P \subseteq S /\ Cardinality(P) = MinOf(n, Cardinality(S))
  BY SomeIs
<1> HIDE DEF P
<1>2. Cardinality(P) = Cardinality(S) => P = S
  BY <1>1, FS_Subset
<1> QED
  BY <1>1, <1>2 DEF MinOf, P

\* A column of a finite set is finite.
LEMMA ColumnIsFinite ==
  ASSUME NEW S, IsFiniteSet(S), NEW f
  PROVE  IsFiniteSet({f[x] : x \in S})
<1> DEFINE T == {f[x] : x \in S}
           h == [x \in S |-> f[x]]
<1>1. h \in [S -> T] /\ \A t \in T : \E x \in S : h[x] = t
  OBVIOUS
<1> HIDE DEF T, h
<1>2. h \in Surjection(S, T)
  BY <1>1 DEF Surjection
<1> QED
  BY <1>2, FS_Surjection DEF T

-----------------------------------------------------------------------------
(* The words of the Hebrew Bible. *)

WordRow(w) ==
  [id |-> w.id, ref |-> w.ref, surface |-> w.text, strong |-> WordStrong(w), source |-> OSHB]

\* The rows of OSHB for its words and verses.
LEMMA WordRows == \A w \in Range(OshbWords) : WordRow(w) \in Range(OshbRows.word)
<1>1. SUFFICES ASSUME NEW w \in Range(OshbWords) PROVE WordRow(w) \in Range(OshbRows.word)
  OBVIOUS
<1>2. PICK i \in DOMAIN OshbWords : w = OshbWords[i]
  BY OshbWordsAre, ListIs
<1>3. DOMAIN OshbRows.word = DOMAIN OshbWords /\ OshbRows.word[i] = WordRow(w)
  BY <1>2 DEF OshbRows, Each, WordRow, WordStrong
<1> QED
  BY <1>2, <1>3 DEF Range

LEMMA VerseRows ==
  \A v \in Range(OshbRows.verse) :
    /\ DOMAIN v = {"id", "osisID", "osis", "canon_section", "text"}
    /\ v.id = VerseId(v.osis) /\ v.canon_section = "OT"
<1>1. \A i \in DOMAIN OshbRows.verse :
        /\ DOMAIN OshbRows.verse[i] = {"id", "osisID", "osis", "canon_section", "text"}
        /\ OshbRows.verse[i].id = VerseId(OshbRows.verse[i].osis)
        /\ OshbRows.verse[i].canon_section = "OT"
  BY DEF OshbRows, Each
<1> QED
  BY <1>1 DEF Range

\* The word n is w, and lies in the verse m of its reference.
WordAt(w, n, m) ==
  /\ n \in AllOf("Word") /\ Prop(n, "id") = w.id /\ w.id # Null
  /\ Prop(n, "surface") = w.text /\ w.text # Null
  /\ Prop(n, "strong") = WordStrong(w) /\ Prop(n, "source") = OSHB
  /\ m \in AllOf("Verse") /\ Prop(m, "osis") = w.ref
  /\ m \in To("IN_VERSE", n)

LEMMA WordStands ==
  ASSUME NEW most, Ready(most), "oshb" \in disk, NEW w \in Range(OshbWords)
  PROVE  \E n, m : WordAt(w, n, m)
<1>1. disk \in Disks
  BY DEF Ready, Inv, Position
<1> HIDE DEF Range
<1> DEFINE rw == WordRow(w)
<1>2. rw \in Range(OshbRows.word)
  BY WordRows
<1>3. PICK rv \in Range(OshbRows.verse) : rv.id = VerseId(w.ref) /\ rv.osis = w.ref
  BY OshbWordRows
<1>4. Link(w.id, VerseId(w.ref)) \in Range(OshbRows.in_verse)
  BY OshbWordRows
<1> DEFINE x == [t |-> OshbTemplates.word, row |-> rw]
           y == [t |-> OshbTemplates.verse, row |-> rv]
           z == [t |-> EdgeT("IN_VERSE", End("Word", "id"), End("Verse", "id")),
                 row |-> Link(w.id, VerseId(w.ref))]
<1>5. x \in AllRowed(disk) /\ y \in AllRowed(disk) /\ z \in AllRowed(disk)
  <2>1. OshbTemplates.in_verse = EdgeT("IN_VERSE", End("Word", "id"), End("Verse", "id"))
    BY DEF OshbTemplates, IdEdgeT
  <2>2. "word" \in OshbLists /\ "verse" \in OshbLists /\ "in_verse" \in OshbLists
    BY DEF OshbLists
  <2> QED
    BY <1>1, <1>2, <1>3, <1>4, <2>1, <2>2, OshbSent
<1>6. /\ x.t.kind = "node" /\ x.t.label = "Word" /\ x.row = rw
      /\ y.t.kind = "node" /\ y.t.label = "Verse" /\ y.row = rv
      /\ z.t.kind = "edge" /\ z.t.type = "IN_VERSE" /\ z.t.a.label = "Word"
      /\ z.row = Link(w.id, VerseId(w.ref)) /\ z.row.from = w.id /\ z.row.to = VerseId(w.ref)
  BY DEF OshbTemplates, NodeT, EdgeT, End, Link
<1>7. /\ rw.id = w.id /\ rw.surface = w.text /\ rw.strong = WordStrong(w) /\ rw.source = OSHB
      /\ DOMAIN rw = {"id", "ref", "surface", "strong", "source"}
      /\ WordStrong(w) # Null /\ OSHB # Null
  BY DEF WordRow, WordStrong, Null, OSHB
<1> HIDE DEF x, y, rw
<1>8. Given(x, "id") /\ Given(y, "id") /\ Given(y, "osis") /\ Given(x, "surface")
  <2>1. x \in EveryRow /\ y \in EveryRow /\ z \in EveryRow
    BY <1>1, <1>5 DEF EveryRow
  <2>2. RowOfBundle(x) /\ RowOfBundle(y) /\ RowOfBundle(z)
    BY <2>1 DEF Ready, BundleSettles
  <2>3. IsNode(x, "Word") /\ IsNode(y, "Verse") /\ Given(x, "id") /\ Given(y, "id") /\ Given(y, "osis")
    BY <1>6, <2>2 DEF RowOfBundle, IsNode
  <2>4. x.row.id = z.row.from
    BY <1>6, <1>7
  <2> HIDE DEF z
  <2>5. Given(x, "surface") \/ Given(x, "text")
    BY <1>6, <2>1, <2>2, <2>3, <2>4 DEF RowOfBundle
  <2>6. ~ Given(x, "text")
    BY <1>6, <1>7 DEF Given
  <2> QED
    BY <2>3, <2>5, <2>6
<1>9. Given(x, "strong") /\ Given(x, "source")
  BY <1>6, <1>7 DEF Given
<1>10. PICK n : Standing(x, n)
  BY <1>5, <1>6, NodeStands DEF Ready
<1>11. PICK m : Standing(y, m)
  BY <1>5, <1>6, NodeStands DEF Ready
<1>12. /\ n \in AllOf("Word") /\ Prop(n, "id") = w.id /\ w.id # Null
       /\ Prop(n, "surface") = w.text /\ w.text # Null
       /\ Prop(n, "strong") = WordStrong(w) /\ Prop(n, "source") = OSHB
  BY <1>6, <1>7, <1>8, <1>9, <1>10 DEF Standing, Given
<1>13. /\ m \in AllOf("Verse") /\ Prop(m, "id") = VerseId(w.ref) /\ VerseId(w.ref) # Null
       /\ Prop(m, "osis") = w.ref
  BY <1>3, <1>6, <1>8, <1>11 DEF Standing, Given
<1>14. \E e \in DOMAIN graph.edges : e.type = "IN_VERSE" /\ e.a = n /\ e.b = m
  <2> HIDE DEF z
  <2>1. [t |-> EdgeT("IN_VERSE", End("Word", "id"), End("Verse", "id")), row |-> z.row] \in AllRowed(disk)
    BY <1>5, <1>6 DEF z
  <2> QED
    BY <1>6, <1>12, <1>13, <2>1, EdgeStands DEF Ready
<1>15. m \in To("IN_VERSE", n)
  BY <1>14 DEF To
<1> QED
  BY <1>12, <1>13, <1>15 DEF WordAt

-----------------------------------------------------------------------------
(* The concordance and the lookups, at a word of the Hebrew Bible. *)

\* What is matched by properties a node has.
LEMMA IsMatched ==
  ASSUME NEW label, NEW n \in AllOf(label)
  PROVE  /\ n \in Nodes(label, <<>>)
         /\ \A v : Prop(n, "id") = v /\ v # Null => n \in Nodes(label, [id |-> v])
         /\ \A v : Prop(n, "source") = v /\ v # Null => n \in Nodes(label, [source |-> v])
         /\ \A v : Prop(n, "base_strong") = v /\ v # Null => n \in Nodes(label, [base_strong |-> v])
         /\ \A v : Prop(n, "from_ref") = v /\ v # Null => n \in Nodes(label, [from_ref |-> v])
         /\ \A u, v : Prop(n, "source") = u /\ u # Null /\ Prop(n, "strong") = v /\ v # Null =>
              n \in Nodes(label, [source |-> u, strong |-> v])
<1>1. PICK k \in DOMAIN graph.nodes[label] : n = <<label, k>>
  BY DEF AllOf
<1>2. n[1] = label /\ n[2] = k
  BY <1>1
<1>3. \A f : Prop(n, f) # Null => f \in DOMAIN graph.nodes[label][k] /\ graph.nodes[label][k][f] = Prop(n, f)
  BY <1>2 DEF Prop
<1>4. DOMAIN <<>> = {}
  OBVIOUS
<1>5. \A wanted : (\A f \in DOMAIN wanted : Prop(n, f) # Null /\ Prop(n, f) = wanted[f]) => n \in Nodes(label, wanted)
  BY <1>1, <1>3 DEF Nodes, Find, Has
<1>6. n \in Nodes(label, <<>>)
  BY <1>4, <1>5
<1>7. ASSUME NEW v, v # Null
      PROVE  /\ Prop(n, "id") = v => n \in Nodes(label, [id |-> v])
             /\ Prop(n, "source") = v => n \in Nodes(label, [source |-> v])
             /\ Prop(n, "base_strong") = v => n \in Nodes(label, [base_strong |-> v])
             /\ Prop(n, "from_ref") = v => n \in Nodes(label, [from_ref |-> v])
  BY <1>5, <1>7
<1>8. ASSUME NEW u, NEW v, Prop(n, "source") = u, u # Null, Prop(n, "strong") = v, v # Null
      PROVE  n \in Nodes(label, [source |-> u, strong |-> v])
  <2> DEFINE wanted == [source |-> u, strong |-> v]
  <2>1. DOMAIN wanted = {"source", "strong"} /\ wanted["source"] = u /\ wanted["strong"] = v
    OBVIOUS
  <2> HIDE DEF wanted
  <2>2. n \in Nodes(label, wanted)
    BY <1>5, <1>8, <2>1
  <2> QED
    BY <2>2 DEF wanted
<1> QED
  BY <1>6, <1>7, <1>8

\* A word or token lies in verses.
LEMMA VersesOfWords ==
  ASSUME Sound, ToolsSettle, NEW type \in {"IN_VERSE", "OPENBIBLE_CROSS_REF"}, NEW a
  PROVE  To(type, a) \subseteq AllOf("Verse")
<1>1. SUFFICES ASSUME NEW v \in To(type, a) PROVE v \in AllOf("Verse")
  OBVIOUS
<1>2. PICK e \in DOMAIN graph.edges : e.type = type /\ e.a = a /\ e.b = v
  BY DEF To
<1>3. PICK x \in EveryRow : x.t.kind = "edge" /\ e \in EdgesOf(graph, x.t, x.row)
  BY DEF Sound, AllSent, EdgeSent
<1>4. e.type = x.t.type /\ e.b[1] = x.t.b.label
  BY <1>3 DEF EdgesOf
<1>5. x.t.b.label = "Verse"
  BY <1>2, <1>3, <1>4 DEF ToolsSettle, RowOfTools
<1> QED
  BY <1>1, <1>2, <1>4, <1>5, Reached

LEMMA OccurrencesAreFinite ==
  ASSUME Sound, BundleSettles, ToolsSettle, NEW strong
  PROVE  IsFiniteSet(Occurrences(strong))
<1> DEFINE A == AllOf("TaggedToken") \cup AllOf("Word")
           B == AllOf("Verse")
           f == [p \in A \X B |-> [tok |-> Prop(p[1], "id"), ref |-> RefOf(p[2])]]
           T == {f[p] : p \in A \X B}
<1>1. {"TaggedToken", "Word", "Verse"} \subseteq Labels
  BY DEF BundleSettles, BundleLabels
<1>2. IsFiniteSet(AllOf("TaggedToken")) /\ IsFiniteSet(AllOf("Word")) /\ IsFiniteSet(B)
  BY <1>1, AllAreFinite
<1>3. GreekTokens(strong) \cup HebrewWords(strong) \subseteq A
  BY Reached DEF GreekTokens, HebrewWords
<1>4. \A w : To("IN_VERSE", w) \subseteq B
  BY VersesOfWords
<1>5. \A w \in A, v \in B : [tok |-> Prop(w, "id"), ref |-> RefOf(v)] \in T
  <2>1. \A w \in A, v \in B : <<w, v>> \in A \X B /\ f[<<w, v>>] = [tok |-> Prop(w, "id"), ref |-> RefOf(v)]
    OBVIOUS
  <2> HIDE DEF A, B, f
  <2> QED
    BY <2>1
<1>6. IsFiniteSet(A)
  BY <1>2, FS_Union
<1> HIDE DEF A, B, f
<1>7. IsFiniteSet(A \X B)
  BY <1>2, <1>6, FS_Product
<1>8. IsFiniteSet(T)
  BY <1>7, ColumnIsFinite
<1> HIDE DEF T
<1>9. Occurrences(strong) \subseteq T
  BY <1>3, <1>4, <1>5 DEF Occurrences
<1> QED
  BY <1>8, <1>9, FS_Subset

\* A whole concordance shows what occurs, or it is truncated.
LEMMA OccurrenceIsShown ==
  ASSUME Sound, BundleSettles, ToolsSettle, NEW strong, NEW o \in Occurrences(strong), NEW limit \in Nat
  PROVE  \/ o \in ConcordanceWalk(strong, {}, limit).occurrences
         \/ ConcordanceWalk(strong, {}, limit).truncated
<1> DEFINE fetched == Some(Occurrences(strong), limit)
<1>1. o \in fetched \/ Cardinality(fetched) = limit
  BY OccurrencesAreFinite, SomeShow
<1> HIDE DEF fetched
<1>2. ConcordanceWalk(strong, {}, limit) =
        [occurrences |-> fetched, truncated |-> Cardinality(fetched) >= limit]
  <2>1. {p \in fetched : {} = {} \/ \E b \in {} : InBook(p.ref, b)} = fetched
    OBVIOUS
  <2> QED
    BY <2>1 DEF ConcordanceWalk, fetched
<1>3. /\ ConcordanceWalk(strong, {}, limit).occurrences = fetched
      /\ ConcordanceWalk(strong, {}, limit).truncated = (Cardinality(fetched) >= limit)
  BY <1>2
<1>4. Cardinality(fetched) = limit => Cardinality(fetched) >= limit
  OBVIOUS
<1>5. CASE o \in fetched
  BY <1>3, <1>5
<1>6. CASE Cardinality(fetched) = limit
  <2>1. ConcordanceWalk(strong, {}, limit).truncated = TRUE
    BY <1>3, <1>4, <1>6
  <2> QED
    BY <2>1
<1> QED
  BY <1>1, <1>5, <1>6

\* A word of the Hebrew Bible has one kind of text and no lemma.
LEMMA WordIsPlain ==
  ASSUME NEW most, Ready(most), NEW w \in Range(OshbWords), NEW n, NEW m, WordAt(w, n, m)
  PROVE  /\ Prop(n, "text") = Null
         /\ \A l \in To("INSTANCE_OF", n) : l[1] \notin {"Lemma", "GreekLemma"}
<1>1. disk \in Disks /\ GraphIn(graph, most[disk])
  BY DEF Ready, Inv, Position, Bounded, InOrder
<1>2. n \in AllOf("Word") /\ Prop(n, "id") = w.id /\ Prop(n, "surface") # Null
  BY DEF WordAt
<1>3. PICK j \in DOMAIN graph.nodes["Word"] : n = <<"Word", j>>
  BY <1>2 DEF AllOf
<1>4. n[1] = "Word" /\ n[2] = j
  BY <1>3
<1>5. Prop(n, "text") = Null
  <2> DEFINE node == graph.nodes["Word"][j]
  <2>1. "surface" \in DOMAIN node
    BY <1>2, <1>4 DEF Prop
  <2>2. j \in DOMAIN most[disk].nodes["Word"] /\ DOMAIN node \subseteq DOMAIN most[disk].nodes["Word"][j]
    <3>1. "Word" \in Labels
      BY DEF Ready, BundleSettles, BundleLabels
    <3> QED
      BY <1>1, <1>3, <3>1 DEF GraphIn, AllIn, PropsIn
  <2>3. ~({"surface", "text"} \subseteq DOMAIN most[disk].nodes["Word"][j])
    BY <1>1, <2>2 DEF Ready, AnchorsSettle
  <2>4. "text" \notin DOMAIN node
    BY <2>1, <2>2, <2>3
  <2> QED
    BY <1>4, <2>4 DEF Prop
<1> HIDE DEF Range
<1>6. ASSUME NEW l \in To("INSTANCE_OF", n), l[1] \in {"Lemma", "GreekLemma"} PROVE FALSE
  <2>1. PICK e \in DOMAIN graph.edges : e.type = "INSTANCE_OF" /\ e.a = n /\ e.b = l
    BY DEF To
  <2>2. PICK x \in EveryRow : x.t.kind = "edge" /\ e \in EdgesOf(graph, x.t, x.row)
    BY DEF Ready, Sound, AllSent, EdgeSent
  <2>3. /\ e.type = x.t.type /\ e.a[1] = x.t.a.label /\ e.b[1] = x.t.b.label
        /\ e.a[2] \in Matches(graph, x.t.a, x.row.from)
    BY <2>2 DEF EdgesOf
  <2>4. x.t.a.prop = "id" /\ x.row.from # w.id
    BY <1>4, <1>6, <2>1, <2>2, <2>3 DEF Ready, ToolsSettle, RowOfTools
  <2>5. Prop(n, "id") = x.row.from
    <3>1. Has(graph.nodes["Word"][j], Put(x.t.a.fixed, "id", x.row.from))
      BY <1>4, <2>1, <2>3, <2>4 DEF Matches, Find
    <3>2. /\ "id" \in DOMAIN Put(x.t.a.fixed, "id", x.row.from)
          /\ Put(x.t.a.fixed, "id", x.row.from)["id"] = x.row.from
      BY DEF Put
    <3> QED
      BY <1>4, <3>1, <3>2 DEF Has, Prop
  <2> QED
    BY <1>2, <2>4, <2>5
<1> QED
  BY <1>5, <1>6

\* The numbers a word is looked up to; those of the words that look like text.
NumbersOf(w) ==
  LET lemmas == {l \in To("INSTANCE_OF", w) : l[1] \in {"Lemma", "GreekLemma"}}
  IN  IF lemmas = {} THEN {Prop(w, "strong")}
      ELSE {IF Prop(l, "strong") # Null THEN Prop(l, "strong") ELSE Prop(w, "strong") : l \in lemmas}
TextOf(w)   == IF Prop(w, "text") # Null THEN Prop(w, "text") ELSE Prop(w, "surface")
Found(text) == (UNION {NumbersOf(w) : w \in {x \in Nodes("Word", <<>>) : TextOf(x) = text}}) \ {Null}

LEMMA LookupIs ==
  ASSUME NEW text, NEW limit
  PROVE  LookupBySurface(text, limit) = Some({Lexeme(s) : s \in Found(text)}, limit)
BY DEF LookupBySurface, Found, NumbersOf, TextOf

LEMMA FoundIsFinite ==
  ASSUME Sound, BundleSettles, NEW text
  PROVE  IsFiniteSet({Lexeme(s) : s \in Found(text)})
<1> DEFINE A == AllOf("Word")
           B == AllOf("Lemma") \cup AllOf("GreekLemma")
           C == A \cup B
           f == [n \in C |-> Prop(n, "strong")]
           T == {f[n] : n \in C}
<1>1. {"Word", "Lemma", "GreekLemma"} \subseteq Labels
  BY DEF BundleSettles, BundleLabels
<1>2. IsFiniteSet(A) /\ IsFiniteSet(AllOf("Lemma")) /\ IsFiniteSet(AllOf("GreekLemma"))
  BY <1>1, AllAreFinite
<1>3. IsFiniteSet(B)
  BY <1>2, FS_Union
<1>4. Nodes("Word", <<>>) \subseteq A
  BY Reached
<1>5. \A w : \A l \in To("INSTANCE_OF", w) : l[1] \in {"Lemma", "GreekLemma"} => l \in B
  BY Reached
<1> HIDE DEF A, B
<1>6. IsFiniteSet(C)
  BY <1>2, <1>3, FS_Union
<1>7. \A n \in A : Prop(n, "strong") \in T
  <2>1. \A n \in A : n \in C /\ f[n] = Prop(n, "strong")
    OBVIOUS
  <2> QED
    BY <2>1
<1>8. \A n \in B : Prop(n, "strong") \in T
  <2>1. \A n \in B : n \in C /\ f[n] = Prop(n, "strong")
    OBVIOUS
  <2> QED
    BY <2>1
<1> HIDE DEF C, f
<1>9. IsFiniteSet(T)
  BY <1>6, ColumnIsFinite
<1> HIDE DEF T
<1>10. \A w \in A : NumbersOf(w) \subseteq T
  <2>1. SUFFICES ASSUME NEW w \in A, NEW s \in NumbersOf(w) PROVE s \in T
    OBVIOUS
  <2>2. \/ s = Prop(w, "strong")
        \/ \E l \in To("INSTANCE_OF", w) : l[1] \in {"Lemma", "GreekLemma"} /\ s = Prop(l, "strong")
    BY <2>1 DEF NumbersOf
  <2> QED
    BY <1>5, <1>7, <1>8, <2>1, <2>2
<1>11. Found(text) \subseteq T
  BY <1>4, <1>10 DEF Found
<1>12. IsFiniteSet(Found(text))
  BY <1>9, <1>11, FS_Subset
<1> DEFINE g == [s \in Found(text) |-> Lexeme(s)]
<1>13. {g[s] : s \in Found(text)} = {Lexeme(s) : s \in Found(text)}
  OBVIOUS
<1> HIDE DEF g
<1> QED
  BY <1>12, <1>13, ColumnIsFinite

\* The tool finds the number of a word by its text.
LEMMA NumberIsFound ==
  ASSUME NEW most, Ready(most), "oshb" \in disk, NEW w \in Range(OshbWords), NEW limit \in Nat
  PROVE  \/ Lexeme(WordStrong(w)) \in LookupBySurface(w.text, limit)
         \/ Cardinality(LookupBySurface(w.text, limit)) = limit
<1> HIDE DEF Range
<1>1. PICK n, m : WordAt(w, n, m)
  BY WordStands
<1>2. /\ Prop(n, "text") = Null
      /\ \A l \in To("INSTANCE_OF", n) : l[1] \notin {"Lemma", "GreekLemma"}
  BY <1>1, WordIsPlain
<1>3. TextOf(n) = w.text
  BY <1>1, <1>2 DEF TextOf, WordAt
<1>4. NumbersOf(n) = {WordStrong(w)}
  BY <1>1, <1>2 DEF NumbersOf, WordAt
<1>5. n \in Nodes("Word", <<>>)
  BY <1>1, IsMatched DEF WordAt
<1>6. WordStrong(w) # Null
  BY DEF WordStrong, Null
<1>7. WordStrong(w) \in Found(w.text)
  <2> DEFINE X == {x \in Nodes("Word", <<>>) : TextOf(x) = w.text}
             strong == WordStrong(w)
  <2>1. n \in X /\ strong \in NumbersOf(n) /\ strong # Null
    BY <1>3, <1>4, <1>5, <1>6
  <2>2. Found(w.text) = (UNION {NumbersOf(x) : x \in X}) \ {Null}
    BY DEF Found
  <2> HIDE DEF X, strong
  <2>3. strong \in UNION {NumbersOf(x) : x \in X}
    BY <2>1
  <2>4. strong \in Found(w.text)
    BY <2>1, <2>2, <2>3
  <2> QED
    BY <2>4 DEF strong
<1>8. Lexeme(WordStrong(w)) \in {Lexeme(s) : s \in Found(w.text)}
  BY <1>7
<1>9. IsFiniteSet({Lexeme(s) : s \in Found(w.text)})
  BY FoundIsFinite DEF Ready
<1> QED
  BY <1>8, <1>9, LookupIs, SomeShow

\* The count in the canon is not below that of the words of OSHB: no two have one id.
LEMMA CountIsReached ==
  ASSUME NEW most, Ready(most), "oshb" \in disk, NEW strong
  PROVE  Lexeme(strong).occurrences_in_canon >= Cardinality(Counted(strong))
<1> DEFINE H == HebrewWords(strong)
           C == Counted(strong)
           K == {n \in H : \E w \in C : w.id = Prop(n, "id")}
           f == [n \in K |-> CHOOSE w \in C : w.id = Prop(n, "id")]
<1>1. {"Word", "TaggedToken"} \subseteq Labels
  BY DEF Ready, BundleSettles, BundleLabels
<1>2. IsFiniteSet(AllOf("Word")) /\ IsFiniteSet(AllOf("TaggedToken"))
  BY <1>1, AllAreFinite DEF Ready
<1>3. H \subseteq AllOf("Word") /\ CanonTokens(strong) \subseteq AllOf("TaggedToken")
  BY Reached DEF HebrewWords, CanonTokens, Ready
<1> HIDE DEF H
<1>4. IsFiniteSet(H) /\ IsFiniteSet(CanonTokens(strong)) /\ K \subseteq H
  BY <1>2, <1>3, FS_Subset
<1>5. IsFiniteSet(K) /\ Cardinality(K) <= Cardinality(H)
  <2> HIDE DEF K
  <2> QED
    BY <1>4, FS_Subset
<1>6. \A w, z \in C : w.id = z.id => w = z
  BY DEF Ready, ToolsSettle, Counted
<1>7. ASSUME NEW w \in C PROVE \E n \in K : f[n] = w
  <2>1. w \in Range(OshbWords) /\ WordStrong(w) = strong
    BY <1>7 DEF Counted
  <2>2. PICK n, m : WordAt(w, n, m)
    BY <2>1, WordStands
  <2>3. n \in H
    <3>1. strong # Null /\ OSHB # Null
      BY <2>1 DEF WordStrong, Null, OSHB
    <3> QED
      BY <2>1, <2>2, <3>1, IsMatched DEF H, HebrewWords, WordAt
  <2>4. n \in K
    BY <1>7, <2>2, <2>3 DEF WordAt
  <2>5. f[n] \in C /\ f[n].id = w.id
    BY <1>7, <2>2, <2>4 DEF WordAt
  <2> QED
    BY <1>6, <1>7, <2>4, <2>5
<1>8. f \in [K -> C]
  OBVIOUS
<1> HIDE DEF K, C, f
<1>9. f \in Surjection(K, C)
  BY <1>7, <1>8 DEF Surjection
<1>10. IsFiniteSet(C) /\ Cardinality(C) <= Cardinality(K)
  BY <1>5, <1>9, FS_Surjection
<1>11. /\ Cardinality(C) \in Nat /\ Cardinality(K) \in Nat /\ Cardinality(H) \in Nat
       /\ Cardinality(CanonTokens(strong)) \in Nat
  BY <1>4, <1>5, <1>10, FS_CardinalityType
<1>12. Cardinality(C) <= Cardinality(H)
  BY <1>5, <1>10, <1>11
<1>13. OccurrencesInCanon(strong) >= Cardinality(H)
  BY <1>11 DEF OccurrencesInCanon, H
<1>14. OccurrencesInCanon(strong) \in Nat
  BY <1>11 DEF OccurrencesInCanon, H
<1>15. Lexeme(strong).occurrences_in_canon = OccurrencesInCanon(strong)
  BY DEF Lexeme
<1> QED
  BY <1>11, <1>12, <1>13, <1>14, <1>15 DEF C

\* And it is among the occurrences of its number.
LEMMA WordOccurs ==
  ASSUME NEW most, Ready(most), "oshb" \in disk, NEW w \in Range(OshbWords), NEW limit \in Nat
  PROVE  \/ [tok |-> w.id, ref |-> w.ref] \in ConcordanceWalk(WordStrong(w), {}, limit).occurrences
         \/ ConcordanceWalk(WordStrong(w), {}, limit).truncated
<1> HIDE DEF Range
<1>1. PICK n, m : WordAt(w, n, m)
  BY WordStands
<1>2. n \in HebrewWords(WordStrong(w))
  <2>1. WordStrong(w) # Null /\ OSHB # Null
    BY DEF WordStrong, Null, OSHB
  <2> QED
    BY <1>1, <2>1, IsMatched DEF HebrewWords, WordAt
<1>3. RefOf(m) = w.ref /\ Prop(n, "id") = w.id /\ m \in To("IN_VERSE", n)
  BY <1>1 DEF WordAt, RefOf
<1>4. [tok |-> w.id, ref |-> w.ref] \in Occurrences(WordStrong(w))
  BY <1>2, <1>3 DEF Occurrences
<1> QED
  BY <1>4, OccurrenceIsShown DEF Ready

-----------------------------------------------------------------------------
(* The brief lexicon. *)

\* Adapters whose files are not looked for raise nothing.
LEMMA ToolsAreSent ==
  ASSUME NEW has PROVE {"stepbible_tbesh", "openbible", "tsk"} \subseteq Sendable(has)
<1>1. /\ DOMAIN Datasets = 1 .. 23 /\ Datasets[10] = "stepbible_tbesh"
      /\ Datasets[21] = "openbible" /\ Datasets[22] = "tsk"
  BY DEF Datasets
<1>2. {"stepbible_tbesh", "openbible", "tsk"} \subseteq Range(Datasets)
  BY <1>1 DEF Range
<1> HIDE DEF Range
<1> QED
  BY <1>2 DEF Sendable, Raises

\* A script of lists is a list.
LEMMA ScriptIsList ==
  ASSUME NEW S, NEW order \in Seq(S), NEW templates, NEW rows, \A n \in S : IsList(rows[n])
  PROVE  IsList(Script(order, templates, rows))
<1> DEFINE f == [i \in DOMAIN order |-> Batched(templates[order[i]], rows[order[i]])]
<1>1. Script(order, templates, rows) = FlattenSeq(f)
  BY DEF Script, EachAll, Each
<1>2. DOMAIN f = DOMAIN order /\ f = [i \in DOMAIN order |-> f[i]]
      /\ \A i \in DOMAIN order : f[i] = Batched(templates[order[i]], rows[order[i]])
  OBVIOUS
<1>3. IsList(order) /\ \A i \in DOMAIN order : order[i] \in S
  BY SeqIsList, LenProperties, ElementOfSeq
<1> HIDE DEF f
<1>4. \A i \in DOMAIN order : IsList(f[i])
  BY <1>2, <1>3, BatchedIs DEF IsList
<1> QED
  BY <1>1, <1>2, <1>3, <1>4, AllIs

LEMMA TbeshEntriesAre == IsList(TbeshEntries)
<1> DEFINE T == {l \in Range(BriefHebrew) : l.e.prefix \in {"H", "G"}}
           Entry(l) == [key |-> Text(Disambig(l)), base |-> BaseStrong(l)]
           only == Only(BriefHebrew, LAMBDA l : l.e.prefix \in {"H", "G"})
           f == [i \in DOMAIN BriefHebrew |-> When(BriefHebrew[i] \in T, BriefHebrew[i])]
           g == [i \in DOMAIN only |-> Entry(only[i])]
<1>1. IsList(BriefHebrew)
  BY LexiconAssumption DEF IsList
<1>2. only = FlattenSeq(f)
  <2>1. only = FlattenSeq([i \in DOMAIN BriefHebrew |->
                  When(BriefHebrew[i].e.prefix \in {"H", "G"}, BriefHebrew[i])])
    BY DEF Only, EachAll, Each
  <2>2. ASSUME NEW i \in DOMAIN BriefHebrew
        PROVE  BriefHebrew[i] \in T <=> BriefHebrew[i].e.prefix \in {"H", "G"}
    <3>1. BriefHebrew[i] \in Range(BriefHebrew)
      BY DEF Range
    <3> HIDE DEF Range
    <3> QED
      BY <3>1
  <2> HIDE DEF T
  <2>3. f = [i \in DOMAIN BriefHebrew |-> When(BriefHebrew[i].e.prefix \in {"H", "G"}, BriefHebrew[i])]
    BY <2>2 DEF When
  <2> QED
    BY <2>1, <2>3
<1> HIDE DEF T
<1>3. TbeshEntries = FirstBy("key", g)
  BY DEF TbeshEntries, Each
<1>4. IsList(only)
  <2>1. f = [i \in DOMAIN BriefHebrew |-> When(BriefHebrew[i] \in T, BriefHebrew[i])]
    OBVIOUS
  <2> HIDE DEF f
  <2>2. IsList(FlattenSeq(f))
    BY <1>1, <2>1, OnlyIs
  <2> QED
    BY <1>2, <2>2
<1> HIDE DEF Entry, only
<1>5. DOMAIN g = DOMAIN only /\ g = [i \in DOMAIN only |-> g[i]]
  OBVIOUS
<1> HIDE DEF g
<1>6. IsList(g)
  BY <1>4, <1>5, EachIs
<1> QED
  BY <1>3, <1>6, FirstIs

BriefRow(x)  == [strong_disambig |-> x.key, base_strong |-> x.base, source |-> "STEPBible-TBESH"]
BriefRows    == [i \in DOMAIN TbeshEntries |-> BriefRow(TbeshEntries[i])]
NumberRow(x) == [strong |-> x.base]
LexFor(chunk) ==
  <<[t |-> TbeshTemplates.lemma, rows |-> [i \in DOMAIN chunk |-> NumberRow(chunk[i])]],
    [t |-> TbeshTemplates.lex_for, rows |-> [i \in DOMAIN chunk |-> Link(chunk[i].key, chunk[i].base)]]>>

\* An entry is sent, and the lemma of its number with it.
LEMMA TbeshSent ==
  ASSUME NEW has \in Disks, "stepbible_tbesh" \in has, NEW x \in Range(TbeshEntries)
  PROVE  /\ [t |-> BriefT, row |-> BriefRow(x)] \in AllRowed(has)
         /\ [t |-> NodeT("Lemma", "strong"), row |-> NumberRow(x)] \in AllRowed(has)
<1> DEFINE entries == TbeshEntries
           C == Chunks(entries)
           f == [i \in DOMAIN C |-> LexFor(C[i])]
           lists == {"source", "brief"}
           order == <<"source", "brief">>
           rows == [source |-> SourceRow("STEPBible-TBESH"), brief |-> BriefRows]
           first == Script(order, TbeshTemplates, rows)
           edition == [i \in DOMAIN entries |-> Link(entries[i].key, "STEPBible-TBESH")]
           last == Batched(TbeshTemplates.from_edition, edition)
           script == ScriptOf("stepbible_tbesh", has)
<1>1. script = (first \o FlattenSeq(f)) \o last
  BY DEF ScriptOf, TbeshScript, Present, EachAll, Each, LexFor, BriefRows, BriefRow, NumberRow
<1>2. /\ IsList(entries) /\ IsList(C) /\ \A b \in Range(C) : IsList(b)
      /\ \A z \in Range(entries) : \E b \in Range(C) : z \in Range(b)
  <2> HIDE DEF Range
  <2> QED
    BY TbeshEntriesAre, ChunksAre
<1>3. DOMAIN f = DOMAIN C /\ f = [i \in DOMAIN C |-> f[i]] /\ \A i \in DOMAIN C : f[i] = LexFor(C[i])
  OBVIOUS
<1>4. order \in Seq(lists) /\ Range(order) = lists
  <2>1. DOMAIN order = 1 .. 2 /\ order[1] = "source" /\ order[2] = "brief"
    OBVIOUS
  <2>2. order \in Seq(lists)
    OBVIOUS
  <2>3. Range(order) = lists
    BY <2>1 DEF Range
  <2> QED
    BY <2>2, <2>3
<1>5. rows.source = SourceRow("STEPBible-TBESH") /\ rows.brief = BriefRows
  OBVIOUS
<1>6. x \in Range(entries)
  OBVIOUS
<1>7. TbeshTemplates.brief = BriefT /\ TbeshTemplates.lemma = NodeT("Lemma", "strong")
  BY DEF TbeshTemplates
<1>8. DOMAIN edition = DOMAIN entries /\ edition = [i \in DOMAIN entries |-> edition[i]]
  OBVIOUS
<1> HIDE DEF Range, C, f, order, rows, first, edition, last, script
<1>9. DOMAIN BriefRows = DOMAIN entries /\ BriefRows = [i \in DOMAIN entries |-> BriefRows[i]]
      /\ \A i \in DOMAIN entries : BriefRows[i] = BriefRow(entries[i])
  BY DEF BriefRows
<1> HIDE DEF entries
<1>10. IsList(BriefRows) /\ BriefRow(x) \in Range(BriefRows)
  <2>1. PICK i \in DOMAIN entries : x = entries[i]
    BY <1>2, <1>6, ListIs
  <2> QED
    BY <1>2, <1>9, <2>1, EachIs
<1>11. \A n \in lists : IsList(rows[n]) /\ rows[n] \in Seq(Range(rows[n]))
  <2>1. IsList(SourceRow("STEPBible-TBESH"))
    BY OneIs DEF SourceRow
  <2> QED
    BY <1>5, <1>10, <2>1 DEF IsList
<1>12. IsList(first)
  <2> HIDE DEF lists
  <2> QED
    BY <1>4, <1>11, ScriptIsList DEF first
<1>13. PICK s \in Range(first) : s.t = BriefT /\ BriefRow(x) \in Range(s.rows)
  <2>1. "brief" \in Range(order)
    BY <1>4
  <2> HIDE DEF lists
  <2>2. \A n \in Range(order) : \A z \in Range(rows[n]) :
          \E s \in Range(first) : s.t = TbeshTemplates[n] /\ z \in Range(s.rows)
    BY <1>4, <1>11, ScriptSends DEF first
  <2>3. \E s \in Range(first) : s.t = TbeshTemplates["brief"] /\ BriefRow(x) \in Range(s.rows)
    BY <1>5, <1>10, <2>1, <2>2
  <2> QED
    BY <1>7, <2>3
<1>14. \A i \in DOMAIN C :
         /\ IsList(f[i])
         /\ [t |-> NodeT("Lemma", "strong"), rows |-> [j \in DOMAIN C[i] |-> NumberRow(C[i][j])]] \in Range(f[i])
  BY <1>3, <1>7, TwoIs DEF LexFor
<1>15. /\ IsList(FlattenSeq(f))
       /\ \A s1 : s1 \in Range(FlattenSeq(f)) <=> \E i \in DOMAIN C : s1 \in Range(f[i])
  BY <1>2, <1>3, <1>14, AllIs
<1>16. IsList(last)
  <2>1. IsList(edition)
    BY <1>2, <1>8, EachIs
  <2> QED
    BY <2>1, BatchedIs DEF last, IsList
<1>17. \A z : z \in Range(first) \/ z \in Range(FlattenSeq(f)) => z \in Range(script)
  <2>1. IsList(first \o FlattenSeq(f))
        /\ \A z : z \in Range(first \o FlattenSeq(f)) <=> z \in Range(first) \/ z \in Range(FlattenSeq(f))
    BY <1>12, <1>15, BothIs
  <2> QED
    BY <1>1, <1>16, <2>1, BothIs
<1>18. PICK b \in Range(C) : x \in Range(b)
  BY <1>2, <1>6
<1>19. PICK i \in DOMAIN C : b = C[i]
  BY <1>2, <1>18, ListIs
<1> DEFINE numbers == [j \in DOMAIN b |-> NumberRow(b[j])]
<1>20. NumberRow(x) \in Range(numbers)
  <2>1. PICK j \in DOMAIN b : x = b[j]
    BY <1>2, <1>18, ListIs
  <2>2. j \in DOMAIN numbers /\ numbers[j] = NumberRow(x)
    BY <2>1
  <2> HIDE DEF numbers
  <2> QED
    BY <2>2 DEF Range
<1>21. [t |-> NodeT("Lemma", "strong"), rows |-> numbers] \in Range(script)
  BY <1>14, <1>15, <1>17, <1>19
<1>22. "stepbible_tbesh" \in Sendable(has)
  BY ToolsAreSent
<1>23. [t |-> BriefT, row |-> BriefRow(x)] \in AllRowed(has)
  BY <1>13, <1>17, <1>22, SentRow DEF script
<1>24. [t |-> NodeT("Lemma", "strong"), row |-> NumberRow(x)] \in AllRowed(has)
  <2> DEFINE z == [t |-> NodeT("Lemma", "strong"), rows |-> numbers]
  <2>1. z \in Range(script) /\ z.t = NodeT("Lemma", "strong") /\ z.rows = numbers
    BY <1>21
  <2> HIDE DEF z, numbers
  <2> QED
    BY <1>20, <1>22, <2>1, SentRow DEF script
<1> QED
  BY <1>23, <1>24

\* So the tools find both.
LEMMA BriefIsFound ==
  ASSUME NEW most, Ready(most), "stepbible_tbesh" \in disk, NEW x \in Range(TbeshEntries)
  PROVE  Lexeme(x.base).lex # {} /\ LookupByStrong(x.base) # {}
<1>1. disk \in Disks /\ x.base # Null
  BY DEF Ready, Inv, Position, ToolsSettle
<1> HIDE DEF Range
<1> DEFINE y == [t |-> BriefT, row |-> BriefRow(x)]
           z == [t |-> NodeT("Lemma", "strong"), row |-> NumberRow(x)]
<1>2. y \in AllRowed(disk) /\ z \in AllRowed(disk)
  BY <1>1, TbeshSent
<1>3. /\ y.t.kind = "node" /\ y.t.label = "BriefLexEntry" /\ y.row = BriefRow(x)
      /\ z.t.kind = "node" /\ z.t.label = "Lemma" /\ z.row = NumberRow(x)
  BY DEF BriefT, NodeT
<1>4. /\ "base_strong" \in DOMAIN BriefRow(x) /\ BriefRow(x)["base_strong"] = x.base
      /\ "strong" \in DOMAIN NumberRow(x) /\ NumberRow(x)["strong"] = x.base
  BY DEF BriefRow, NumberRow
<1> HIDE DEF y, z
<1>5. PICK n : Standing(y, n)
  BY <1>2, <1>3, NodeStands DEF Ready
<1>6. PICK l : Standing(z, l)
  BY <1>2, <1>3, NodeStands DEF Ready
<1>7. n \in AllOf("BriefLexEntry") /\ Prop(n, "base_strong") = x.base
  BY <1>1, <1>3, <1>4, <1>5 DEF Standing, Given
<1>8. l \in AllOf("Lemma") /\ Prop(l, "strong") = x.base
  BY <1>1, <1>3, <1>4, <1>6 DEF Standing, Given
<1>9. LookupByStrong(x.base) # {}
  <2>1. l \in Nodes("Lemma", [strong |-> x.base])
    BY <1>1, <1>8, HasFound
  <2> QED
    BY <2>1 DEF LookupByStrong, Lemmas
<1>10. Lexeme(x.base).lex # {}
  <2> DEFINE E == Nodes("BriefLexEntry", [base_strong |-> x.base])
  <2>1. n \in E
    BY <1>1, <1>7, IsMatched
  <2>2. "BriefLexEntry" \in Labels
    BY <1>1, <1>2, <1>3, RowFits DEF Ready, Fits
  <2>3. E \subseteq AllOf("BriefLexEntry") /\ IsFiniteSet(AllOf("BriefLexEntry"))
    BY <2>2, Reached, AllAreFinite DEF Ready
  <2>4. Lexeme(x.base).lex = Some(E, 1)
    BY DEF Lexeme
  <2> HIDE DEF E
  <2>5. IsFiniteSet(E)
    BY <2>3, FS_Subset
  <2>6. n \in Some(E, 1) \/ Cardinality(Some(E, 1)) = 1
    BY <2>1, <2>5, SomeShow
  <2>7. Cardinality({}) = 0
    BY FS_EmptySet
  <2>8. Some(E, 1) # {}
    BY <2>6, <2>7
  <2> QED
    BY <2>4, <2>8
<1> QED
  BY <1>9, <1>10

-----------------------------------------------------------------------------
(* The concordance, at a tagged Greek token. *)

\* A token of a lemma that is there is among the occurrences of its number.
LEMMA TokenOccurs ==
  ASSUME NEW most, Ready(most), {"morphgnt", "stepbible_tagnt"} \subseteq disk, NEW t \in Range(TagntTokens),
         NEW l \in AllOf("GreekLemma"), Prop(l, "strong") = t.strong, t.strong # Null, t.verse # Null,
         NEW limit \in Nat
  PROVE  \/ \E o \in ConcordanceWalk(t.strong, {}, limit).occurrences :
              o.tok = t.id /\ VerseId(o.ref) = t.verse
         \/ ConcordanceWalk(t.strong, {}, limit).truncated
<1>1. disk \in Disks
  BY DEF Ready, Inv, Position
<1> DEFINE y == [t |-> TokenT, row |-> TagntToken(t)]
<1>2. TokenSent(disk, t, "GreekLemma", TagntToken(t)) /\ VerseComes(disk, t.verse)
  BY <1>1, TagntSent DEF Ready, ToolsSettle
<1> HIDE DEF Range
<1>3. PICK v \in AllRowed(disk) : IsNode(v, "Verse") /\ Given(v, "id") /\ v.row.id = t.verse
  BY <1>2 DEF VerseComes
<1>4. v \in EveryRow /\ Given(v, "osis") /\ VerseId(v.row.osis) = t.verse
  <2>1. v \in EveryRow
    BY <1>1, <1>3 DEF EveryRow
  <2>2. RowOfBundle(v) /\ RowOfTools(v)
    BY <2>1 DEF Ready, BundleSettles, ToolsSettle
  <2> QED
    BY <1>3, <2>1, <2>2 DEF RowOfBundle, RowOfTools
<1>5. y \in AllRowed(disk) /\ y.row = TagntToken(t) /\ IsNode(y, "TaggedToken")
  BY <1>2 DEF TokenSent, TokenT, NodeT, IsNode
<1>6. /\ y.row.id = t.id /\ y.row.source = Tagnt
      /\ "source" \in DOMAIN y.row /\ Tagnt # Null
  BY <1>5 DEF TagntToken, Tagnt, Null
<1> HIDE DEF y
<1>7. Given(y, "id")
  <2>1. y \in EveryRow
    BY <1>1, <1>5 DEF EveryRow
  <2> QED
    BY <1>5, <2>1 DEF Ready, AnchorsSettle
<1>8. PICK n : Standing(y, n)
  BY <1>5, NodeStands DEF IsNode, Ready
<1>9. PICK a : Standing(v, a)
  BY <1>3, NodeStands DEF IsNode, Ready
<1>10. /\ n \in AllOf("TaggedToken") /\ Prop(n, "id") = t.id /\ t.id # Null /\ Prop(n, "source") = Tagnt
       /\ a \in AllOf("Verse") /\ Prop(a, "id") = t.verse /\ Prop(a, "osis") = v.row.osis
  BY <1>3, <1>4, <1>5, <1>6, <1>7, <1>8, <1>9 DEF Standing, Given, IsNode
<1>11. \E e \in DOMAIN graph.edges : e.type = "IN_VERSE" /\ e.a = n /\ e.b = a
  <2> DEFINE k == Link(t.id, t.verse)
  <2>1. k.from = t.id /\ k.to = t.verse
    BY DEF Link
  <2>2. [t |-> EdgeT("IN_VERSE", End("TaggedToken", "id"), End("Verse", "id")), row |-> k] \in AllRowed(disk)
    BY <1>2 DEF TokenSent, VerseT
  <2> HIDE DEF k
  <2> QED
    BY <1>10, <2>1, <2>2, EdgeStands DEF Ready
<1>12. \E e \in DOMAIN graph.edges : e.type = "INSTANCE_OF" /\ e.a = n /\ e.b = l
  <2> DEFINE k == Link(t.id, t.strong)
  <2>1. k.from = t.id /\ k.to = t.strong
    BY DEF Link
  <2>2. [t |-> EdgeT("INSTANCE_OF", End("TaggedToken", "id"), End("GreekLemma", "strong")), row |-> k] \in AllRowed(disk)
    BY <1>2 DEF TokenSent, LemmaT
  <2> HIDE DEF k
  <2> QED
    BY <1>10, <2>1, <2>2, EdgeStands DEF Ready
<1>13. n \in GreekTokens(t.strong)
  <2>1. l \in To("INSTANCE_OF", n) /\ l[1] = "GreekLemma"
    BY <1>12 DEF To, AllOf
  <2>2. n \in Nodes("TaggedToken", [source |-> Tagnt])
    BY <1>6, <1>10, IsMatched
  <2> QED
    BY <2>1, <2>2 DEF GreekTokens
<1> DEFINE o == [tok |-> t.id, ref |-> v.row.osis]
<1>14. o \in Occurrences(t.strong)
  <2>1. a \in To("IN_VERSE", n)
    BY <1>11 DEF To
  <2> QED
    BY <1>10, <1>13, <2>1 DEF Occurrences, RefOf
<1>15. o.tok = t.id /\ VerseId(o.ref) = t.verse
  BY <1>4
<1> HIDE DEF o
<1>16. \/ o \in ConcordanceWalk(t.strong, {}, limit).occurrences
       \/ ConcordanceWalk(t.strong, {}, limit).truncated
  BY <1>14, OccurrenceIsShown DEF Ready
<1> QED
  BY <1>15, <1>16

-----------------------------------------------------------------------------
(* The cross references. *)

RefRow(from, to, source) == [from |-> from, to |-> to, source |-> source]
Voted(ref)     == UNION {{RefRow(ref, Prop(t, "osis"), "openbible") : t \in To("OPENBIBLE_CROSS_REF", v)} :
                           v \in Nodes("Verse", [id |-> VerseId(ref)])}
Treasured(ref) == {RefRow(ref, Prop(c, "to_ref"), "tsk") : c \in Nodes("CrossRef", [from_ref |-> ref])}
Referred(ref)  == Voted(ref) \cup Treasured(ref)

LEMMA ReferencesAre ==
  ASSUME NEW ref, NEW limit PROVE CrossReferences(ref, limit) = Some(Referred(ref), limit)
BY DEF CrossReferences, Referred, Voted, Treasured, RefRow

LEMMA ReferredIsFinite ==
  ASSUME Sound, BundleSettles, ToolsSettle, NEW ref
  PROVE  IsFiniteSet(Referred(ref))
<1> DEFINE V == AllOf("Verse")
           C == AllOf("CrossRef")
           f == [t \in V |-> RefRow(ref, Prop(t, "osis"), "openbible")]
           g == [c \in C |-> RefRow(ref, Prop(c, "to_ref"), "tsk")]
           S == {f[t] : t \in V}
           T == {g[c] : c \in C}
<1>1. {"Verse", "CrossRef"} \subseteq Labels
  BY DEF BundleSettles, BundleLabels
<1>2. IsFiniteSet(V) /\ IsFiniteSet(C)
  BY <1>1, AllAreFinite
<1>3. Voted(ref) \subseteq S
  <2>1. \A v : To("OPENBIBLE_CROSS_REF", v) \subseteq V
    BY VersesOfWords
  <2>2. \A t \in V : f[t] = RefRow(ref, Prop(t, "osis"), "openbible") /\ f[t] \in S
    OBVIOUS
  <2> HIDE DEF V, f, S
  <2> QED
    BY <2>1, <2>2 DEF Voted
<1>4. Treasured(ref) \subseteq T
  <2>1. Nodes("CrossRef", [from_ref |-> ref]) \subseteq C
    BY Reached
  <2>2. \A c \in C : g[c] = RefRow(ref, Prop(c, "to_ref"), "tsk") /\ g[c] \in T
    OBVIOUS
  <2> HIDE DEF C, g, T
  <2> QED
    BY <2>1, <2>2 DEF Treasured
<1> HIDE DEF V, C, f, g
<1>5. IsFiniteSet(S) /\ IsFiniteSet(T)
  BY <1>2, ColumnIsFinite
<1> HIDE DEF S, T
<1>6. IsFiniteSet(S \cup T)
  BY <1>5, FS_Union
<1> QED
  BY <1>3, <1>4, <1>6, FS_Subset DEF Referred

\* The edges of OpenBible, from verse to verse by id.
IsVote(row) == row.from = VerseId(row.pat.from_osis) /\ row.to = VerseId(row.pat.to_osis)
LEMMA VotesAre == IsList(OpenBibleRows) /\ \A row \in Range(OpenBibleRows) : IsVote(row)
<1> DEFINE Good(l) == l.from # "" /\ l.to # "" /\ l.votes # Null
           VoteOf(l) == LET from == Projected(l.from) to == Projected(l.to)
                     IN  LinkSet(VerseId(from), VerseId(to),
                                 [from_osis |-> from, to_osis |-> to, source |-> OpenBible],
                                 [votes |-> l.votes])
           T == {l \in Range(OpenBibleLines) : Good(l)}
           only == Only(OpenBibleLines, Good)
           f == [i \in DOMAIN OpenBibleLines |-> When(OpenBibleLines[i] \in T, OpenBibleLines[i])]
           g == [i \in DOMAIN only |-> VoteOf(only[i])]
<1>1. IsList(OpenBibleLines)
  BY OpenBibleAssumption DEF IsList
<1>2. only = FlattenSeq(f)
  <2>1. only = FlattenSeq([i \in DOMAIN OpenBibleLines |-> When(Good(OpenBibleLines[i]), OpenBibleLines[i])])
    BY DEF Only, EachAll, Each
  <2>2. ASSUME NEW i \in DOMAIN OpenBibleLines
        PROVE  OpenBibleLines[i] \in T <=> Good(OpenBibleLines[i])
    <3>1. OpenBibleLines[i] \in Range(OpenBibleLines)
      BY DEF Range
    <3> HIDE DEF Range, Good
    <3> QED
      BY <3>1
  <2> HIDE DEF T, Good
  <2>3. f = [i \in DOMAIN OpenBibleLines |-> When(Good(OpenBibleLines[i]), OpenBibleLines[i])]
    BY <2>2 DEF When
  <2> QED
    BY <2>1, <2>3
<1>3. OpenBibleRows = g
  BY DEF OpenBibleRows, Each
<1> HIDE DEF T
<1>4. IsList(only)
  <2>1. f = [i \in DOMAIN OpenBibleLines |-> When(OpenBibleLines[i] \in T, OpenBibleLines[i])]
    OBVIOUS
  <2> HIDE DEF f
  <2>2. IsList(FlattenSeq(f))
    BY <1>1, <2>1, OnlyIs
  <2> QED
    BY <1>2, <2>2
<1> HIDE DEF only
<1>5. DOMAIN g = DOMAIN only /\ g = [i \in DOMAIN only |-> g[i]] /\ \A i \in DOMAIN only : IsVote(g[i])
  BY DEF IsVote, LinkSet
<1> HIDE DEF g, Range
<1>6. IsList(g) /\ \A x : x \in Range(g) <=> \E i \in DOMAIN only : x = g[i]
  BY <1>4, <1>5, EachIs
<1> QED
  BY <1>3, <1>5, <1>6

VoteT == EdgeT("OPENBIBLE_CROSS_REF", End("Verse", "id"), End("Verse", "id"))
LEMMA VotesSent ==
  ASSUME NEW has \in Disks, "openbible" \in has, NEW row \in Range(OpenBibleRows)
  PROVE  [t |-> VoteT, row |-> row] \in AllRowed(has)
<1> DEFINE lists == {"source", "edge"}
           order == <<"source", "edge">>
           rows == [source |-> SourceRow(OpenBible), edge |-> OpenBibleRows]
<1>1. ScriptOf("openbible", has) = Script(order, OpenBibleTemplates, rows)
  BY DEF ScriptOf, OpenBibleScript
<1>2. order \in Seq(lists) /\ Range(order) = lists
  <2>1. DOMAIN order = 1 .. 2 /\ order[1] = "source" /\ order[2] = "edge"
    OBVIOUS
  <2>2. order \in Seq(lists)
    OBVIOUS
  <2>3. Range(order) = lists
    BY <2>1 DEF Range
  <2> QED
    BY <2>2, <2>3
<1>3. rows["source"] = SourceRow(OpenBible) /\ rows["edge"] = OpenBibleRows /\ OpenBibleTemplates["edge"] = VoteT
  BY DEF OpenBibleTemplates, VoteT, IdEdgeT
<1> HIDE DEF Range, order, rows
<1>4. \A n \in lists : IsList(rows[n])
  <2>1. IsList(SourceRow(OpenBible))
    BY OneIs DEF SourceRow
  <2> QED
    BY <1>3, <2>1, VotesAre
<1>5. "openbible" \in Sendable(has)
  BY ToolsAreSent
<1>6. \A n \in lists : \A x \in Range(rows[n]) : [t |-> OpenBibleTemplates[n], row |-> x] \in AllRowed(has)
  <2> HIDE DEF lists
  <2> QED
    BY <1>1, <1>2, <1>4, <1>5, OwnSent
<1>7. "edge" \in lists
  OBVIOUS
<1> HIDE DEF lists
<1> QED
  BY <1>3, <1>6, <1>7

\* A verse found by its id shows what the row that made it gives.
LEMMA VerseIs ==
  ASSUME NEW most, Ready(most), NEW v \in AllOf("Verse")
  PROVE  /\ v = <<"Verse", [id |-> Prop(v, "id")]>> /\ Prop(v, "id") # Null
         /\ Prop(v, "id") = VerseId(Prop(v, "osis"))
         /\ \A row \in Range(OpenBibleRows) :
              Prop(v, "id") = VerseId(row.pat.to_osis) => Prop(v, "osis") = row.pat.to_osis
<1> HIDE DEF Range
<1>1. "Verse" \in Labels
  BY DEF Ready, BundleSettles, BundleLabels
<1>2. PICK x \in EveryRow :
         /\ IsNode(x, "Verse") /\ v = <<"Verse", KeyOf(x)>>
         /\ \A f : Given(x, f) => Prop(v, f) = x.row[f] /\ Prop(v, f) # Null
  BY <1>1, HasGiven DEF Ready
<1>3. RowOfBundle(x) /\ RowOfTools(x)
  BY DEF Ready, BundleSettles, ToolsSettle
<1>4. Given(x, "id") /\ Given(x, "osis")
  BY <1>2, <1>3 DEF RowOfBundle
<1>5. x.t.keys = {"id"} /\ x.row.id = VerseId(x.row.osis)
      /\ \A row \in Range(OpenBibleRows) :
           x.row.id = VerseId(row.pat.to_osis) => x.row.osis = row.pat.to_osis
  BY <1>2, <1>3 DEF RowOfTools
<1>6. Prop(v, "id") = x.row.id /\ Prop(v, "id") # Null /\ Prop(v, "osis") = x.row.osis
  BY <1>2, <1>4
<1>7. KeyOf(x) = [id |-> x.row.id]
  BY <1>4, <1>5 DEF KeyOf, Restrict, Given
<1> QED
  BY <1>2, <1>5, <1>6, <1>7

\* A cross reference of OpenBible between two verses is found from the first.
LEMMA VoteIsFound ==
  ASSUME NEW most, Ready(most), "openbible" \in disk, NEW row \in Range(OpenBibleRows),
         HasVerse(row.pat.from_osis), HasVerse(row.pat.to_osis), NEW limit \in Nat
  PROVE  \/ RefRow(row.pat.from_osis, row.pat.to_osis, "openbible") \in CrossReferences(row.pat.from_osis, limit)
         \/ Cardinality(CrossReferences(row.pat.from_osis, limit)) = limit
<1> DEFINE from == row.pat.from_osis
           to == row.pat.to_osis
<1>1. disk \in Disks
  BY DEF Ready, Inv, Position
<1>2. [t |-> VoteT, row |-> row] \in AllRowed(disk) /\ IsVote(row)
  BY <1>1, VotesSent, VotesAre
<1> HIDE DEF Range
<1>3. PICK v \in Nodes("Verse", [id |-> VerseId(from)]) : TRUE
  BY DEF HasVerse
<1>4. PICK u \in Nodes("Verse", [id |-> VerseId(to)]) : TRUE
  BY DEF HasVerse
<1>5. v \in AllOf("Verse") /\ u \in AllOf("Verse")
  BY Reached DEF Ready
<1>6. Prop(v, "id") = VerseId(from) /\ Prop(u, "id") = VerseId(to)
  BY HasFound
<1>7. Prop(v, "id") # Null /\ Prop(u, "id") # Null /\ Prop(u, "osis") = to
  BY <1>5, <1>6, VerseIs
<1>8. row.from = VerseId(from) /\ row.to = VerseId(to)
  BY <1>2 DEF IsVote
<1> HIDE DEF from, to
<1>9. \E e \in DOMAIN graph.edges : e.type = "OPENBIBLE_CROSS_REF" /\ e.a = v /\ e.b = u
  BY <1>2, <1>5, <1>6, <1>7, <1>8, EdgeStands DEF Ready, VoteT
<1>10. u \in To("OPENBIBLE_CROSS_REF", v)
  BY <1>9 DEF To
<1>11. RefRow(from, to, "openbible") \in Referred(from)
  BY <1>3, <1>7, <1>10 DEF Referred, Voted
<1>12. \/ RefRow(from, to, "openbible") \in CrossReferences(from, limit)
       \/ Cardinality(CrossReferences(from, limit)) = limit
  BY <1>11, ReferredIsFinite, ReferencesAre, SomeShow DEF Ready
<1> QED
  BY <1>12 DEF from, to

\* What the Treasury has read: an anchor with its targets, or one that is lost.
IsRef(x) ==
  /\ IsList(x.targets) /\ \A r \in Range(x.targets) : r # Null
  /\ ~ x.lost => x.from # Null /\ x.targets # <<>>
LEMMA RefsAre == IsList(TskRefs) /\ \A x \in Range(TskRefs) : IsRef(x)
<1> DEFINE Anchor(l) == IF l.anchor.book \notin DOMAIN TskBooks THEN Null
                        ELSE TskProject([l.anchor EXCEPT !.book = TskBooks[@]])
           Targets(l) == Only(Each(l.targets, TskProject), LAMBDA r : r # Null)
           Treasure(l) == [id |-> "tsk:" \o l.key, from |-> Anchor(l), targets |-> Targets(l),
                      lost |-> Anchor(l) = Null \/ Targets(l) = <<>>]
           g == [i \in DOMAIN TskLines |-> Treasure(TskLines[i])]
<1>1. IsList(TskLines) /\ \A l \in Range(TskLines) : IsList(l.targets)
  BY TskAssumption, SeqIsList DEF IsList
<1>2. TskRefs = FirstBy("id", g)
  BY DEF TskRefs, Each
<1>3. ASSUME NEW l \in Range(TskLines)
      PROVE  IsList(Targets(l)) /\ \A r \in Range(Targets(l)) : r # Null
  <2> DEFINE p == [i \in DOMAIN l.targets |-> TskProject(l.targets[i])]
             c == [i \in DOMAIN p |-> p[i] # Null]
             f == [i \in DOMAIN p |-> When(c[i], p[i])]
  <2>1. Targets(l) = FlattenSeq(f)
    BY DEF Only, EachAll, Each
  <2>2. DOMAIN p = DOMAIN l.targets /\ p = [i \in DOMAIN l.targets |-> p[i]] /\ IsList(l.targets)
    BY <1>1, <1>3
  <2> HIDE DEF p, Targets, Range
  <2>3. IsList(p)
    BY <2>2, EachIs
  <2>4. c \in [DOMAIN p -> BOOLEAN] /\ \A i \in DOMAIN p : c[i] <=> p[i] # Null
    OBVIOUS
  <2>5. f = [i \in DOMAIN p |-> When(c[i], p[i])]
    OBVIOUS
  <2> HIDE DEF c, f
  <2>6. /\ IsList(FlattenSeq(f))
        /\ \A x : x \in Range(FlattenSeq(f)) <=> \E i \in DOMAIN p : c[i] /\ x = p[i]
    BY <2>3, <2>4, <2>5, ChosenAre
  <2> QED
    BY <2>1, <2>4, <2>6
<1> HIDE DEF Anchor, Targets
<1>4. \A l \in Range(TskLines) : IsRef(Treasure(l))
  <2>1. ASSUME NEW l \in Range(TskLines) PROVE IsRef(Treasure(l))
    <3>1. Treasure(l).targets = Targets(l) /\ Treasure(l).from = Anchor(l)
          /\ Treasure(l).lost = (Anchor(l) = Null \/ Targets(l) = <<>>)
      OBVIOUS
    <3> HIDE DEF Treasure, Range
    <3>2. CASE Anchor(l) = Null \/ Targets(l) = <<>>
      <4>1. Treasure(l).lost = TRUE
        BY <3>1, <3>2
      <4> QED
        BY <1>3, <2>1, <3>1, <4>1 DEF IsRef
    <3>3. CASE ~(Anchor(l) = Null \/ Targets(l) = <<>>)
      BY <1>3, <2>1, <3>1, <3>3 DEF IsRef
    <3> QED
      BY <3>2, <3>3
  <2> QED
    BY <2>1
<1> HIDE DEF Treasure
<1>5. DOMAIN g = DOMAIN TskLines /\ g = [i \in DOMAIN TskLines |-> g[i]]
      /\ \A i \in DOMAIN TskLines : g[i] = Treasure(TskLines[i]) /\ TskLines[i] \in Range(TskLines)
  BY DEF Range
<1> HIDE DEF g, Range
<1>6. IsList(g) /\ \A x : x \in Range(g) <=> \E i \in DOMAIN TskLines : x = g[i]
  BY <1>1, <1>5, EachIs
<1>7. \A x \in Range(g) : IsRef(x)
  BY <1>4, <1>5, <1>6
<1> QED
  BY <1>2, <1>6, <1>7, FirstIs

TreasureT == NodeT("CrossRef", "id")
TreasureRow(x) ==
  [id |-> x.id, source |-> TSK,
   from_ref |-> IF x.from = Null THEN "" ELSE x.from,
   to_ref |-> IF x.targets = <<>> THEN "" ELSE x.targets[1],
   tvtms_quarantine |-> IF x.lost THEN "true" ELSE Null]
LEMMA TreasuresSent ==
  ASSUME NEW has \in Disks, "tsk" \in has, NEW x \in Range(TskRefs)
  PROVE  [t |-> TreasureT, row |-> TreasureRow(x)] \in AllRowed(has)
<1> DEFINE lists == {"source", "node", "edge"}
           order == <<"source", "node", "edge">>
           refs == TskRefs
           IsKept(r) == ~ r.lost
           T == {r \in Range(refs) : IsKept(r)}
           kept == Only(refs, LAMBDA r : ~ r.lost)
           Leads(r, to) == LinkAs(r.id, to, [source |-> TSK, osis_target |-> to])
           node == [i \in DOMAIN refs |-> TreasureRow(refs[i])]
           edge == [i \in DOMAIN kept |-> [j \in DOMAIN kept[i].targets |-> Leads(kept[i], kept[i].targets[j])]]
           f == [i \in DOMAIN refs |-> When(refs[i] \in T, refs[i])]
           rows == TskRows(has)
<1>1. ScriptOf("tsk", has) = Script(order, TskTemplates, rows)
  BY DEF ScriptOf, TskScript
<1>2. order \in Seq(lists) /\ Range(order) = lists
  <2>1. DOMAIN order = 1 .. 3 /\ order[1] = "source" /\ order[2] = "node" /\ order[3] = "edge"
    OBVIOUS
  <2>2. order \in Seq(lists)
    OBVIOUS
  <2>3. Range(order) = lists
    BY <2>1 DEF Range
  <2> QED
    BY <2>2, <2>3
<1>3. /\ rows["source"] = SourceRow(TSK) /\ rows["node"] = node /\ rows["edge"] = FlattenSeq(edge)
      /\ TskTemplates["node"] = TreasureT
  BY DEF TskRows, TskTemplates, TreasureT, EachAll, Each, TreasureRow
<1>4. kept = FlattenSeq(f)
  <2>1. kept = FlattenSeq([i \in DOMAIN refs |-> When(~ refs[i].lost, refs[i])])
    BY DEF Only, EachAll, Each
  <2>2. ASSUME NEW i \in DOMAIN refs PROVE refs[i] \in T <=> IsKept(refs[i])
    <3>1. refs[i] \in Range(refs)
      BY DEF Range
    <3> HIDE DEF Range, refs, IsKept
    <3> QED
      BY <3>1
  <2>3. ASSUME NEW i \in DOMAIN refs
        PROVE  When(refs[i] \in T, refs[i]) = When(~ refs[i].lost, refs[i])
    <3>1. CASE ~ refs[i].lost
      <4>1. refs[i] \in T
        BY <2>2, <2>3, <3>1 DEF IsKept
      <4> HIDE DEF T, refs
      <4> QED
        BY <3>1, <4>1 DEF When
    <3>2. CASE refs[i].lost
      <4>1. refs[i] \notin T
        BY <2>2, <2>3, <3>2 DEF IsKept
      <4> HIDE DEF T, refs
      <4> QED
        BY <3>2, <4>1 DEF When
    <3> QED
      BY <3>1, <3>2
  <2> HIDE DEF T, refs
  <2>4. f = [i \in DOMAIN refs |-> When(~ refs[i].lost, refs[i])]
    BY <2>3
  <2> QED
    BY <2>1, <2>4
<1>5. IsList(refs) /\ \A r \in Range(refs) : IsList(r.targets)
  BY RefsAre DEF IsRef
<1>6. DOMAIN node = DOMAIN refs /\ node = [i \in DOMAIN refs |-> node[i]]
      /\ \A i \in DOMAIN refs : node[i] = TreasureRow(refs[i])
  OBVIOUS
<1>7. f = [i \in DOMAIN refs |-> When(refs[i] \in T, refs[i])] /\ x \in Range(refs)
  OBVIOUS
<1> HIDE DEF Range, refs, T, f, node, order, rows, IsKept, kept
<1>8. IsList(kept) /\ \A r \in Range(kept) : IsList(r.targets)
  <2>1. IsList(FlattenSeq(f)) /\ \A r : r \in Range(FlattenSeq(f)) <=> r \in Range(refs) /\ r \in T
    BY <1>5, <1>7, OnlyIs
  <2> QED
    BY <1>4, <1>5, <2>1
<1>9. IsList(node) /\ TreasureRow(x) \in Range(node)
  <2>1. PICK i \in DOMAIN refs : x = refs[i]
    BY <1>5, <1>7, ListIs
  <2> QED
    BY <1>5, <1>6, <2>1, EachIs
<1>10. IsList(FlattenSeq(edge))
  <2>1. DOMAIN edge = DOMAIN kept /\ edge = [i \in DOMAIN kept |-> edge[i]]
    OBVIOUS
  <2>2. ASSUME NEW i \in DOMAIN kept PROVE IsList(edge[i])
    <3> DEFINE xs == kept[i].targets
               h == [j \in DOMAIN xs |-> Leads(kept[i], xs[j])]
    <3>1. edge[i] = h
      BY <2>2
    <3>2. IsList(xs)
      BY <1>8, <2>2, ListIs
    <3>3. DOMAIN h = DOMAIN xs /\ h = [j \in DOMAIN xs |-> h[j]]
      OBVIOUS
    <3> HIDE DEF h, xs, edge
    <3> QED
      BY <3>1, <3>2, <3>3, EachIs
  <2> HIDE DEF edge
  <2> QED
    BY <1>8, <2>1, <2>2, AllIs
<1> HIDE DEF edge
<1>11. \A n \in lists : IsList(rows[n])
  <2>1. IsList(SourceRow(TSK))
    BY OneIs DEF SourceRow
  <2> QED
    BY <1>3, <1>9, <1>10, <2>1
<1>12. "tsk" \in Sendable(has)
  BY ToolsAreSent
<1>13. \A n \in lists : \A y \in Range(rows[n]) : [t |-> TskTemplates[n], row |-> y] \in AllRowed(has)
  <2> HIDE DEF lists
  <2> QED
    BY <1>1, <1>2, <1>11, <1>12, OwnSent
<1>14. "node" \in lists
  OBVIOUS
<1> HIDE DEF lists
<1> QED
  BY <1>3, <1>9, <1>13, <1>14

\* One that is not lost is found from its anchor, if no edge leads to its verse.
LEMMA TreasureIsFound ==
  ASSUME NEW most, Ready(most), "tsk" \in disk, NEW x \in Range(TskRefs), ~ x.lost, NEW limit \in Nat
  PROVE  \/ RefRow(x.from, x.targets[1], "tsk") \in CrossReferences(x.from, limit)
         \/ Cardinality(CrossReferences(x.from, limit)) = limit
<1> DEFINE to == x.targets[1]
           y == [t |-> TreasureT, row |-> TreasureRow(x)]
<1>1. disk \in Disks
  BY DEF Ready, Inv, Position
<1>2. y \in AllRowed(disk) /\ IsRef(x)
  BY <1>1, TreasuresSent, RefsAre
<1> HIDE DEF Range
<1>3. x.from # Null /\ x.targets # <<>> /\ IsList(x.targets) /\ \A r \in Range(x.targets) : r # Null
  BY <1>2 DEF IsRef
<1>4. to # Null
  <2>1. Len(x.targets) # 0
    BY <1>3, EmptySeq DEF IsList
  <2>2. 1 \in DOMAIN x.targets
    BY <1>3, <2>1, ListIs
  <2> QED
    BY <1>3, <2>2, ListIs
<1>5. /\ y.t.kind = "node" /\ y.t.label = "CrossRef" /\ y.row = TreasureRow(x)
  BY DEF TreasureT, NodeT
<1>6. /\ "from_ref" \in DOMAIN TreasureRow(x) /\ TreasureRow(x)["from_ref"] = x.from
      /\ "to_ref" \in DOMAIN TreasureRow(x) /\ TreasureRow(x)["to_ref"] = to
  BY <1>3 DEF TreasureRow
<1> HIDE DEF y, to
<1>7. PICK n : Standing(y, n)
  BY <1>2, <1>5, NodeStands DEF Ready
<1>8. n \in AllOf("CrossRef") /\ Prop(n, "from_ref") = x.from /\ Prop(n, "to_ref") = to
  BY <1>3, <1>4, <1>5, <1>6, <1>7 DEF Standing, Given
<1>9. n \in Nodes("CrossRef", [from_ref |-> x.from])
  BY <1>3, <1>8, IsMatched
<1>10. RefRow(x.from, to, "tsk") \in Referred(x.from)
  BY <1>8, <1>9 DEF Referred, Treasured
<1>11. \/ RefRow(x.from, to, "tsk") \in CrossReferences(x.from, limit)
       \/ Cardinality(CrossReferences(x.from, limit)) = limit
  BY <1>10, ReferredIsFinite, ReferencesAre, SomeShow DEF Ready
<1> QED
  BY <1>11 DEF to

-----------------------------------------------------------------------------
(* The texts of the verses. *)

\* A verse that is sent with a text has that text, and no other.
LEMMA OriginalIs ==
  ASSUME NEW most, Ready(most), NEW x \in AllRowed(disk), IsNode(x, "Verse"),
         Given(x, "text"), x.row.text # "", Given(x, "canon_section"),
         NEW lang, lang = IF x.row.canon_section = "OT" THEN "hb" ELSE "gk"
  PROVE  Original(x.row.osis) = {[text |-> x.row.text, lang |-> lang]}
<1> DEFINE N == Nodes("Verse", [id |-> VerseId(x.row.osis)])
           verses == {v \in N : Prop(v, "text") \notin {Null, ""}}
           Reads(v) == [text |-> Prop(v, "text"), lang |-> IF Prop(v, "canon_section") = "OT" THEN "hb" ELSE "gk"]
<1>1. x \in EveryRow
  BY DEF EveryRow, Ready, Inv, Position
<1>2. Given(x, "id") /\ x.row.id = VerseId(x.row.osis)
  BY <1>1 DEF Ready, BundleSettles, ToolsSettle, RowOfBundle, RowOfTools
<1>3. PICK n : Standing(x, n)
  BY NodeStands DEF Ready, IsNode
<1>4. /\ n \in AllOf("Verse") /\ Prop(n, "id") = VerseId(x.row.osis) /\ VerseId(x.row.osis) # Null
      /\ Prop(n, "text") = x.row.text /\ Prop(n, "canon_section") = x.row.canon_section
      /\ x.row.text \notin {Null, ""}
  BY <1>2, <1>3 DEF Standing, Given, IsNode
<1>5. n \in N
  BY <1>4, IsMatched
<1>6. \A v \in N : v = n
  <2>1. \A v \in N : v \in AllOf("Verse") /\ Prop(v, "id") = VerseId(x.row.osis)
    BY Reached, HasFound DEF Ready
  <2>2. \A v \in AllOf("Verse") : v = <<"Verse", [id |-> Prop(v, "id")]>>
    BY VerseIs
  <2> HIDE DEF N
  <2> QED
    BY <1>4, <2>1, <2>2
<1>7. Original(x.row.osis) = {Reads(v) : v \in verses}
  BY DEF Original
<1> HIDE DEF N
<1>8. verses = {n}
  BY <1>4, <1>5, <1>6
<1>9. Reads(n) = [text |-> x.row.text, lang |-> lang]
  BY <1>4
<1> HIDE DEF verses, Reads
<1> QED
  BY <1>7, <1>8, <1>9

LEMMA HebrewTextIs ==
  ASSUME NEW most, Ready(most), "oshb" \in disk, NEW v \in Range(OshbRows.verse), v.text # ""
  PROVE  Original(v.osis) = {[text |-> v.text, lang |-> "hb"]}
<1> DEFINE x == [t |-> OshbTemplates.verse, row |-> v]
<1>1. disk \in Disks /\ v.text # Null
  BY DEF Ready, Inv, Position, ToolsSettle
<1>2. x \in AllRowed(disk)
  BY <1>1, OshbSent DEF OshbLists
<1>3. DOMAIN v = {"id", "osisID", "osis", "canon_section", "text"} /\ v.canon_section = "OT"
  BY VerseRows
<1>4. x.row = v /\ IsNode(x, "Verse") /\ "OT" # Null
  BY DEF OshbTemplates, NodeT, IsNode, Null
<1> HIDE DEF x, Range
<1>5. Given(x, "text") /\ Given(x, "canon_section")
  BY <1>1, <1>3, <1>4 DEF Given
<1> QED
  BY <1>2, <1>3, <1>4, <1>5, OriginalIs

LEMMA GreekTextIs ==
  ASSUME NEW most, Ready(most), "morphgnt" \in disk, NEW v \in Range(MorphgntRows.verse)
  PROVE  Original(v.osis) = {[text |-> v.text, lang |-> "gk"]}
<1> DEFINE x == [t |-> MorphgntTemplates.verse, row |-> v]
<1>1. disk \in Disks /\ v.text \notin {Null, ""}
  BY DEF Ready, Inv, Position, ToolsSettle
<1>2. x \in AllRowed(disk)
  BY <1>1, MorphgntSent DEF MorphgntLists
<1>3. DOMAIN v = {"id", "osis", "text", "canon_section", "source"} /\ v.canon_section = "NT"
  <2>1. \A i \in DOMAIN MorphgntRows.verse :
          /\ DOMAIN MorphgntRows.verse[i] = {"id", "osis", "text", "canon_section", "source"}
          /\ MorphgntRows.verse[i].canon_section = "NT"
    BY DEF MorphgntRows, Each
  <2> QED
    BY <2>1 DEF Range
<1>4. x.row = v /\ IsNode(x, "Verse") /\ "NT" # Null /\ "NT" # "OT"
  BY DEF MorphgntTemplates, NodeT, IsNode, Null
<1> HIDE DEF x, Range
<1>5. Given(x, "text") /\ Given(x, "canon_section")
  BY <1>1, <1>3, <1>4 DEF Given
<1> QED
  BY <1>1, <1>2, <1>3, <1>4, <1>5, OriginalIs

-----------------------------------------------------------------------------
(* The theorem. *)

Brief == IF "stepbible_tbesh" \in disk THEN {x.base : x \in Range(TbeshEntries)} ELSE {}
Greek == {Prop(l, "strong") : l \in Nodes("GreekLemma", <<>>)} \ {Null}
Listed(rows, row, limit) == row \in rows \/ Cardinality(rows) = limit

\* ToolsAnswerFromFiles of one limit, by the readers of the tools.
WordsAnswered(limit) ==
  "oshb" \in disk => \A w \in Range(OshbWords) :
    /\ WordStrong(w) # "" =>
         \/ [tok |-> w.id, ref |-> w.ref] \in ConcordanceWalk(WordStrong(w), {}, limit).occurrences
         \/ ConcordanceWalk(WordStrong(w), {}, limit).truncated
    /\ Listed(LookupBySurface(w.text, limit), Lexeme(WordStrong(w)), limit)
    /\ Lexeme(WordStrong(w)).occurrences_in_canon >= Cardinality(Counted(WordStrong(w)))
    /\ WordStrong(w) \in Brief => Lexeme(WordStrong(w)).lex # {}
TokensAnswered(limit) ==
  {"morphgnt", "stepbible_tagnt"} \subseteq disk => \A t \in Range(TagntTokens) :
    t.strong \in Greek /\ t.verse # Null =>
      \/ \E o \in ConcordanceWalk(t.strong, {}, limit).occurrences : o.tok = t.id /\ VerseId(o.ref) = t.verse
      \/ ConcordanceWalk(t.strong, {}, limit).truncated
ReferencesAnswered(limit) ==
  /\ "openbible" \in disk => \A row \in Range(OpenBibleRows) :
       HasVerse(row.pat.from_osis) /\ HasVerse(row.pat.to_osis) =>
         Listed(CrossReferences(row.pat.from_osis, limit),
                RefRow(row.pat.from_osis, row.pat.to_osis, "openbible"), limit)
  /\ "tsk" \in disk => \A x \in Range(TskRefs) :
       ~ x.lost => Listed(CrossReferences(x.from, limit), RefRow(x.from, x.targets[1], "tsk"), limit)
VersesAnswered ==
  /\ "oshb" \in disk => \A v \in Range(OshbRows.verse) :
       v.text # "" => Original(v.osis) = {[text |-> v.text, lang |-> "hb"]}
  /\ "morphgnt" \in disk => \A v \in Range(MorphgntRows.verse) : Original(v.osis) = {[text |-> v.text, lang |-> "gk"]}
Answered(limit) ==
  /\ WordsAnswered(limit) /\ TokensAnswered(limit) /\ ReferencesAnswered(limit) /\ VersesAnswered
  /\ \A strong \in Brief : LookupByStrong(strong) # {}

\* It holds after a pass.
LEMMA AllAnswered ==
  ASSUME NEW most, Ready(most), NEW limit \in Nat
  PROVE  Answered(limit)
<1> HIDE DEF Range
<1>1. \A strong \in Brief : Lexeme(strong).lex # {} /\ LookupByStrong(strong) # {}
  <2>1. SUFFICES ASSUME NEW strong \in Brief
                 PROVE  Lexeme(strong).lex # {} /\ LookupByStrong(strong) # {}
    OBVIOUS
  <2>2. "stepbible_tbesh" \in disk /\ \E x \in Range(TbeshEntries) : strong = x.base
    BY <2>1 DEF Brief
  <2> QED
    BY <2>2, BriefIsFound
<1>2. WordsAnswered(limit)
  BY <1>1, WordOccurs, NumberIsFound, CountIsReached DEF WordsAnswered, Listed
<1>3. TokensAnswered(limit)
  <2>1. SUFFICES ASSUME {"morphgnt", "stepbible_tagnt"} \subseteq disk, NEW t \in Range(TagntTokens), t.strong \in Greek, t.verse # Null
                 PROVE  \/ \E o \in ConcordanceWalk(t.strong, {}, limit).occurrences :
                             o.tok = t.id /\ VerseId(o.ref) = t.verse
                        \/ ConcordanceWalk(t.strong, {}, limit).truncated
    BY DEF TokensAnswered
  <2>2. PICK l \in Nodes("GreekLemma", <<>>) : Prop(l, "strong") = t.strong
    BY <2>1 DEF Greek
  <2>3. t.strong # Null /\ l \in AllOf("GreekLemma")
    BY <2>1, Reached DEF Greek, Ready
  <2> QED
    BY <2>1, <2>2, <2>3, TokenOccurs
<1>4. ReferencesAnswered(limit)
  BY VoteIsFound, TreasureIsFound DEF ReferencesAnswered, Listed
<1>5. VersesAnswered
  BY HebrewTextIs, GreekTextIs DEF VersesAnswered
<1> QED
  BY <1>1, <1>2, <1>3, <1>4, <1>5 DEF Answered

\* cd_mcp/tools, concordance_walk.py, lexical_lookup.py, cross_ref.py and
\* parallel_translation.py, for all files that settle: after a pass with those of
\* MACULA-Hebrew, whatever came before it, what the tools answer is what the files say, up to the limit of a list.
THEOREM FilesAreAnswered ==
  ASSUME NEW most, FilesSettle(most), BundleSettles, AnchorsSettle(most), ToolsSettle
  PROVE  Spec => []("macula_hebrew" \in disk => ToolsAnswerFromFiles)
<1>1. Inv(most) /\ PassInOrder /\ (~Early => AllSent(graph))
        => ("macula_hebrew" \in disk => ToolsAnswerFromFiles)
  <2> SUFFICES ASSUME Inv(most), InOrder, ~Early, AllSent(graph), Settled PROVE ToolsAnswerFromFiles
    BY DEF ToolsAnswerFromFiles, InOrder, Settled, PassInOrder
  <2>1. Ready(most)
    BY SentIsSound DEF Ready, Settled
  <2>2. \A limit \in ToolLimits : Answered(limit)
    BY <2>1, ToolLimitsAssumption, AllAnswered
  <2> HIDE DEF Range
  <2> QED
    BY <2>2 DEF ToolsAnswerFromFiles, Answered, WordsAnswered, TokensAnswered, ReferencesAnswered,
       VersesAnswered, Brief, Greek, Listed, RefRow
<1>2. Spec => [](Inv(most) /\ PassInOrder)
  BY PassesAreInOrder
<1>3. Spec => [](~Early => AllSent(graph))
  BY NothingIsInvented
<1> QED
  BY <1>1, <1>2, <1>3, PTL
=============================================================================
