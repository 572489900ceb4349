--------------------------- MODULE PropertyGraph ---------------------------
(***************************************************************************)
(* The property graph the ingest adapters write, and the Cypher statements *)
(* they write it with.  A statement is a template of the adapter and a     *)
(* batch of rows: UNWIND $rows AS row, then one of                         *)
(*   MERGE (n:Label {key: row.key}) SET n += row         NodeT             *)
(*   MATCH (n:Label {key: row.key}) SET n += row         AttachT           *)
(*   MATCH (a ...), (b ...) MERGE (a)-[r:TYPE {pat}]->(b) SET r += set     *)
(*                                                       EdgeT             *)
(* A row whose endpoints do not match writes nothing and reports nothing.  *)
(*                                                                         *)
(* Values are strings; names, ids and references are joined with \o.       *)
(***************************************************************************)
EXTENDS Naturals, Sequences, FiniteSets, TLC, SequencesExt, Functions, FiniteSetsExt

CONSTANT BATCH_SIZE
ASSUME BatchAssumption == BATCH_SIZE \in Nat \ {0}

Null == "null"
MinOf(x, y) == IF x <= y THEN x ELSE y

\* Dicts: d[k] = v, and d.update(new).
Put(d, k, v)    == [x \in DOMAIN d \cup {k} |-> IF x = k THEN v ELSE d[x]]
Updated(d, new) ==
  [x \in DOMAIN d \cup DOMAIN new |-> IF x \in DOMAIN new THEN new[x] ELSE d[x]]
\* for row in rows: g = Step(g, row)
After(g, rows, Step(_, _)) ==
  LET after[n \in 0 .. Len(rows)] == IF n = 0 THEN g ELSE Step(after[n - 1], rows[n])
  IN  after[Len(rows)]

\* SET n += new: a null removes the property.
SetProps(old, new) ==
  LET both == Updated(old, new) IN Restrict(both, {f \in DOMAIN both : both[f] # Null})

NodeT(label, key)   == [kind |-> "node", label |-> label, keys |-> {key}]
NodeByT(label, ks)  == [kind |-> "node", label |-> label, keys |-> ks]
AttachT(label, key) == [kind |-> "attach", label |-> label, keys |-> {key}]

\* One end of an edge: the label, the property matched with the row, and
\* the properties the statement itself fixes.
End(label, prop)             == [label |-> label, prop |-> prop, fixed |-> <<>>]
EndWhere(label, prop, fixed) == [label |-> label, prop |-> prop, fixed |-> fixed]
EdgeT(type, a, b) == [kind |-> "edge", type |-> type, a |-> a, b |-> b]
\* The common case: both ends by id.
IdEdgeT(type, la, lb) == EdgeT(type, End(la, "id"), End(lb, "id"))

\* Rows of edge statements.
Link(x, y)            == [from |-> x, to |-> y, pat |-> <<>>, set |-> <<>>]
LinkAs(x, y, pat)     == [from |-> x, to |-> y, pat |-> pat, set |-> <<>>]
LinkSet(x, y, p, set) == [from |-> x, to |-> y, pat |-> p, set |-> set]

\* nodes[label] maps the key a node was created with to its properties;
\* edges maps an edge to the properties that were SET on it.
EmptyGraph(Labels) ==
  [nodes |-> [l \in Labels |-> <<>>], edges |-> <<>>]

Has(props, wanted) ==
  \A f \in DOMAIN wanted : f \in DOMAIN props /\ props[f] = wanted[f]
Find(g, label, wanted) ==
  {k \in DOMAIN g.nodes[label] : Has(g.nodes[label][k], wanted)}

SetNodes(g, label, ks, row) ==
  [g EXCEPT !.nodes[label] =
     Updated(@, [k \in ks |-> SetProps(IF k \in DOMAIN @ THEN @[k] ELSE <<>>, row)])]

MergeNode(g, t, row) ==
  LET key == Restrict(row, t.keys)
      hit == Find(g, t.label, key)
  IN  SetNodes(g, t.label, IF hit = {} THEN {key} ELSE hit, row)
AttachNode(g, t, row) ==
  SetNodes(g, t.label, Find(g, t.label, Restrict(row, t.keys)), row)

Matches(g, end, v) == Find(g, end.label, Put(end.fixed, end.prop, v))
EdgesOf(g, t, row) ==
  {[type |-> t.type, a |-> <<t.a.label, x>>, b |-> <<t.b.label, y>>, pat |-> row.pat] :
     x \in Matches(g, t.a, row.from), y \in Matches(g, t.b, row.to)}
MergeEdge(g, t, row) ==
  [g EXCEPT !.edges =
     Updated(@, [e \in EdgesOf(g, t, row) |->
                   SetProps(IF e \in DOMAIN @ THEN @[e] ELSE <<>>, row.set)])]

ApplyRow(g, t, row) ==
  CASE t.kind = "node"   -> MergeNode(g, t, row)
    [] t.kind = "attach" -> AttachNode(g, t, row)
    [] t.kind = "edge"   -> MergeEdge(g, t, row)
\* One session.run.
ApplyBatch(g, t, rows) == After(g, rows, LAMBDA h, row : ApplyRow(h, t, row))

\* CREATE CONSTRAINT ... REQUIRE x.p IS UNIQUE; Unique is a set of <<label, p>>.
Respects(g, Unique) ==
  \A u \in Unique :
    LET ns   == g.nodes[u[1]]
        with == {k \in DOMAIN ns : u[2] \in DOMAIN ns[k]}
    IN  Cardinality({ns[k][u[2]] : k \in with}) = Cardinality(with)

-----------------------------------------------------------------------------
(* Row building shared by the adapters.                                    *)

\* for x in xs: rows.append(Op(x))
Each(xs, Op(_)) == [i \in DOMAIN xs |-> Op(xs[i])]
\* for x in xs: rows.extend(Op(x))
EachAll(xs, Op(_)) == FlattenSeq(Each(xs, Op))
When(c, row) == IF c THEN <<row>> ELSE <<>>
\* [x for x in xs if Test(x)]
Only(xs, Test(_)) == EachAll(xs, LAMBDA x : When(Test(x), x))
\* A seen-set: the first row of each f wins.
FirstBy(f, rows) ==
  EachAll([i \in DOMAIN rows |-> i],
          LAMBDA i : When(\A j \in 1 .. i - 1 : rows[j][f] # rows[i][f], rows[i]))
\* A dict keyed by f: the last row wins, in the place of the first.
LastBy(f, rows) ==
  LET first == FirstBy(f, rows)
      Latest(v) == CHOOSE j \in DOMAIN rows :
                   /\ rows[j][f] = v
                   /\ \A k \in DOMAIN rows : rows[k][f] = v => k <= j
  IN  [i \in DOMAIN first |-> rows[Latest(first[i][f])]]

SourceRow(slug) == <<[slug |-> slug]>>
\* has holds the names of the datasets whose files are on the disk.  An adapter that
\* finds no files sends its sources and no rows, and says nothing.
ReadFrom(has, name, rows) ==
  [list \in DOMAIN rows |-> IF name \in has \/ list = "source" THEN rows[list] ELSE <<>>]
Pad2(n) == IF n < 10 THEN "0" \o ToString(n) ELSE ToString(n)
Osis(book, c, v) == book \o "." \o ToString(c) \o "." \o ToString(v)
VerseId(osis) == "verse:" \o osis

-----------------------------------------------------------------------------
(* Scripts.                                                                *)

\* An adapter is a record of templates, a record of the rows it collected and
\* the order in which it sends them; BATCH_SIZE rows go into one session.run.
\* A script is the sequence of its session.runs.
Chunks(xs) ==
  [i \in 1 .. (Len(xs) + BATCH_SIZE - 1) \div BATCH_SIZE |->
     SubSeq(xs, (i - 1) * BATCH_SIZE + 1, MinOf(i * BATCH_SIZE, Len(xs)))]
Batched(t, rows) == [i \in DOMAIN Chunks(rows) |-> [t |-> t, rows |-> Chunks(rows)[i]]]
Script(order, templates, rows) ==
  EachAll(order, LAMBDA name : Batched(templates[name], rows[name]))

\* An adapter that flushes all its lists whenever it has read a chunk of its
\* input.  Rows(n) are the rows collected after n chunks; a row is sent with
\* the chunk that brought it.
Flushed(order, templates, n, Rows(_)) ==
  LET Sent(i, name) == SubSeq(Rows(i)[name], Len(Rows(i - 1)[name]) + 1, Len(Rows(i)[name]))
      Flush(i) == EachAll(order, LAMBDA name :
                    When(Sent(i, name) # <<>>,
                         [t |-> templates[name], rows |-> Sent(i, name)]))
  IN  EachAll([i \in 1 .. n |-> i], Flush)

=============================================================================
