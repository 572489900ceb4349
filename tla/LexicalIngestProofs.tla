------------------------ MODULE LexicalIngestProofs ------------------------
(***************************************************************************)
(* Proofs about LexicalIngest.                                             *)
(*                                                                         *)
(* What the adapters send is data: 23 scripts of rows.  The proofs ask     *)
(* FilesSettle of them, row by row: there is a graph above, for each disk, *)
(* in which every row has settled, and a lemma has one number.  What they  *)
(* then show is about the runs: in whatever order, however often and       *)
(* however far the scripts are sent, the store only grows, stays below     *)
(* that graph, and after a whole pass is above what an undisturbed pass    *)
(* leaves.  The order on graphs is GraphIn.                                *)
(*                                                                         *)
(*  - a row on a graph below one in which it has settled makes it larger   *)
(*    and keeps it below (RowGrows), keeps the order of two graphs         *)
(*    (RowBelow), and changes nothing between two graphs in which it has   *)
(*    settled (RowBetween);                                                *)
(*  - so does a session.run, by induction on its rows (BatchGrows,         *)
(*    BatchBelow, BatchIdle);                                              *)
(*  - the undisturbed pass is laid out statement by statement (Stage);     *)
(*  - the inductive invariant Inv follows a run along its list and its     *)
(*    script, and compares the store with Stage at the same place;         *)
(*  - what the collation of 3 John sends is read off its script, and the   *)
(*    invariant ReadsAreSent says that nothing else is read;               *)
(*  - a lemma is early when the brief lexicon made it before MACULA-Hebrew *)
(*    brings it: what is above then holds until there is one, and the      *)
(*    invariant LemmaInv shows that with one no pass over the files of     *)
(*    MACULA-Hebrew ends, so that it holds after every such pass;          *)
(*  - the invariant AllSent leads every node and edge back to a row, and   *)
(*    what BundleSettles asks of the rows makes the gate and the bundle,   *)
(*    each with queries of its own, find the same;                         *)
(*  - what OSHB, MorphGNT, the two MACULA editions and the tagged texts    *)
(*    send is read off their scripts as lists, and AnchorsSettle makes the *)
(*    words and lemmas of an anchor arrive in the bundle.                  *)
(***************************************************************************)
EXTENDS ContextBundle, SequenceLemmas, FiniteSetTheorems

-----------------------------------------------------------------------------
(* Maps of properties: the nodes of a label, the edges. *)

OldProps(F, k) == IF k \in DOMAIN F THEN F[k] ELSE <<>>
\* The properties of row set on the members X.
SetIn(F, X, row) == Updated(F, [k \in X |-> SetProps(OldProps(F, k), row)])

LEMMA InItself == ASSUME NEW F PROVE AllIn(F, F)
BY DEF AllIn, PropsIn

LEMMA InTransitive == ASSUME NEW F, NEW G, NEW H, AllIn(F, G), AllIn(G, H) PROVE AllIn(F, H)
<1>1. SUFFICES ASSUME NEW x \in DOMAIN F PROVE x \in DOMAIN H /\ PropsIn(F[x], H[x])
  BY DEF AllIn
<1>2. x \in DOMAIN G /\ PropsIn(F[x], G[x])
  BY DEF AllIn
<1>3. x \in DOMAIN H /\ PropsIn(G[x], H[x])
  BY <1>2 DEF AllIn
<1> QED
  BY <1>2, <1>3 DEF PropsIn

\* A SET leaves what it does not name and sets what it names, or removes it.
LEMMA SetPropsAre ==
  ASSUME NEW p, NEW row, NEW s, s = SetProps(p, row)
  PROVE  /\ s = [f \in DOMAIN s |-> s[f]]
         /\ \A f : f \in DOMAIN s <=> \/ f \in DOMAIN row /\ row[f] # Null
                                      \/ f \in DOMAIN p \ DOMAIN row /\ p[f] # Null
         /\ \A f \in DOMAIN s : s[f] = IF f \in DOMAIN row THEN row[f] ELSE p[f]
<1> DEFINE both == Updated(p, row)
<1>1. /\ DOMAIN both = DOMAIN p \cup DOMAIN row
      /\ \A f \in DOMAIN both : both[f] = IF f \in DOMAIN row THEN row[f] ELSE p[f]
  BY DEF Updated
<1>2. SetProps(p, row) = [x \in {y \in DOMAIN both : both[y] # Null} |-> both[x]]
  BY DEF SetProps, Restrict
<1> HIDE DEF both
<1>3. /\ DOMAIN s = {y \in DOMAIN both : both[y] # Null} /\ \A f \in DOMAIN s : s[f] = both[f]
      /\ s = [f \in DOMAIN s |-> s[f]]
  BY <1>2
<1> QED
  BY <1>1, <1>3

IsSetIn(G, F, X, row) ==
  /\ DOMAIN G = DOMAIN F \cup X
  /\ \A k \in X : G[k] = SetProps(OldProps(F, k), row)
  /\ \A k \in DOMAIN F \ X : G[k] = F[k]
  /\ IsMap(F) => IsMap(G)
LEMMA SetInIs == ASSUME NEW F, NEW X, NEW row PROVE IsSetIn(SetIn(F, X, row), F, X, row)
<1> DEFINE G   == SetIn(F, X, row)
           new == [k \in X |-> SetProps(OldProps(F, k), row)]
<1>1. DOMAIN new = X /\ \A k \in X : new[k] = SetProps(OldProps(F, k), row)
  OBVIOUS
<1>2. G = Updated(F, new)
  BY DEF SetIn
<1> HIDE DEF new, G
<1>3. /\ DOMAIN G = DOMAIN F \cup X /\ G = [k \in DOMAIN G |-> G[k]]
      /\ \A k \in X : G[k] = new[k]
      /\ \A k \in DOMAIN F \ X : G[k] = F[k]
  BY <1>1, <1>2 DEF Updated
<1>4. ASSUME IsMap(F), NEW k \in DOMAIN G PROVE G[k] = [f \in DOMAIN G[k] |-> G[k][f]]
  <2>1. CASE k \in X
    BY <1>1, <1>3, <2>1, SetPropsAre
  <2>2. CASE k \notin X
    BY <1>3, <1>4, <2>2 DEF IsMap
  <2> QED
    BY <2>1, <2>2
<1> QED
  BY <1>1, <1>3, <1>4 DEF IsMap, IsSetIn, G

\* Setting the same keeps the order.
LEMMA SetPropsIn ==
  ASSUME NEW p, NEW q, PropsIn(p, q), NEW row
  PROVE  PropsIn(SetProps(p, row), SetProps(q, row))
<1> DEFINE s == SetProps(p, row)
           t == SetProps(q, row)
<1>1. /\ \A f : f \in DOMAIN s <=> \/ f \in DOMAIN row /\ row[f] # Null
                                   \/ f \in DOMAIN p \ DOMAIN row /\ p[f] # Null
      /\ \A f \in DOMAIN s : s[f] = IF f \in DOMAIN row THEN row[f] ELSE p[f]
  BY SetPropsAre
<1>2. /\ \A f : f \in DOMAIN t <=> \/ f \in DOMAIN row /\ row[f] # Null
                                   \/ f \in DOMAIN q \ DOMAIN row /\ q[f] # Null
      /\ \A f \in DOMAIN t : t[f] = IF f \in DOMAIN row THEN row[f] ELSE q[f]
  BY SetPropsAre
<1> HIDE DEF s, t
<1>3. \A f \in DOMAIN p : f \in DOMAIN q /\ q[f] = p[f]
  BY DEF PropsIn
<1>4. \A f \in DOMAIN s : f \in DOMAIN t /\ t[f] = s[f]
  BY <1>1, <1>2, <1>3
<1> QED
  BY <1>4 DEF PropsIn, s, t

\* A map in which a SET changes nothing bounds the smaller ones and what the
\* SET makes of them, and they only grow.
LEMMA SetBelow ==
  ASSUME NEW F, NEW U, AllIn(F, U), NEW X, NEW Y, X \subseteq Y, NEW row, SetIn(U, Y, row) = U
  PROVE  AllIn(F, SetIn(F, X, row)) /\ AllIn(SetIn(F, X, row), U)
<1> DEFINE G == SetIn(F, X, row)
<1>0. IsSetIn(G, F, X, row) /\ IsSetIn(U, U, Y, row)
  BY SetInIs
<1> HIDE DEF G
<1>1. /\ DOMAIN G = DOMAIN F \cup X
      /\ \A k \in X : G[k] = SetProps(OldProps(F, k), row)
      /\ \A k \in DOMAIN F \ X : G[k] = F[k]
  BY <1>0 DEF IsSetIn
<1>2. DOMAIN U = DOMAIN U \cup Y /\ \A k \in Y : U[k] = SetProps(OldProps(U, k), row)
  BY <1>0 DEF IsSetIn
<1>3. ASSUME NEW k \in X
      PROVE  /\ k \in DOMAIN U /\ U[k] = SetProps(U[k], row)
             /\ PropsIn(G[k], U[k]) /\ (k \in DOMAIN F => PropsIn(F[k], G[k]))
  <2>1. k \in DOMAIN U /\ U[k] = SetProps(U[k], row)
    BY <1>2 DEF OldProps
  <2>2. PropsIn(OldProps(F, k), U[k])
    BY DEF AllIn, OldProps, PropsIn
  <2>3. PropsIn(G[k], U[k])
    BY <1>1, <2>1, <2>2, SetPropsIn
  <2>4. ASSUME k \in DOMAIN F PROVE PropsIn(F[k], G[k])
    <3>1. PropsIn(F[k], U[k]) /\ G[k] = SetProps(F[k], row)
      BY <1>1, <2>4 DEF AllIn, OldProps
    <3>2. \A f \in DOMAIN U[k] : \/ f \in DOMAIN row /\ row[f] # Null /\ U[k][f] = row[f]
                                 \/ f \notin DOMAIN row /\ U[k][f] # Null
      BY <2>1, SetPropsAre
    <3>3. \A f \in DOMAIN F[k] : f \in DOMAIN U[k] /\ U[k][f] = F[k][f]
      BY <3>1 DEF PropsIn
    <3>4. \A f : (f \in DOMAIN row /\ row[f] # Null) \/ (f \in DOMAIN F[k] \ DOMAIN row /\ F[k][f] # Null)
                   => f \in DOMAIN G[k] /\ G[k][f] = IF f \in DOMAIN row THEN row[f] ELSE F[k][f]
      BY <3>1, SetPropsAre
    <3>5. \A f \in DOMAIN F[k] : f \in DOMAIN G[k] /\ G[k][f] = F[k][f]
      BY <3>2, <3>3, <3>4
    <3> QED
      BY <3>5 DEF PropsIn
  <2> QED
    BY <2>1, <2>3, <2>4
<1>4. ASSUME NEW k \in DOMAIN F \ X PROVE k \in DOMAIN U /\ PropsIn(G[k], U[k]) /\ PropsIn(F[k], G[k])
  BY <1>1 DEF AllIn, PropsIn
<1>5. AllIn(F, G)
  BY <1>1, <1>3, <1>4 DEF AllIn
<1>6. AllIn(G, U)
  BY <1>1, <1>3, <1>4 DEF AllIn
<1> QED
  BY <1>5, <1>6 DEF G

\* The same SET on a smaller and a larger map, on fewer members of the smaller.
LEMMA SetBoth ==
  ASSUME NEW F, NEW G, AllIn(F, G), NEW X, NEW Y, X \subseteq Y, NEW row, AllIn(G, SetIn(G, Y, row))
  PROVE  AllIn(SetIn(F, X, row), SetIn(G, Y, row))
<1> DEFINE A == SetIn(F, X, row)
           B == SetIn(G, Y, row)
<1>0. IsSetIn(A, F, X, row) /\ IsSetIn(B, G, Y, row) /\ AllIn(G, B)
  BY SetInIs
<1> HIDE DEF A, B
<1>1. /\ DOMAIN A = DOMAIN F \cup X
      /\ \A k \in X : A[k] = SetProps(OldProps(F, k), row)
      /\ \A k \in DOMAIN F \ X : A[k] = F[k]
  BY <1>0 DEF IsSetIn
<1>2. /\ DOMAIN B = DOMAIN G \cup Y
      /\ \A k \in Y : B[k] = SetProps(OldProps(G, k), row)
  BY <1>0 DEF IsSetIn
<1>3. ASSUME NEW k \in X PROVE k \in DOMAIN B /\ PropsIn(A[k], B[k])
  <2>1. PropsIn(OldProps(F, k), OldProps(G, k))
    BY DEF AllIn, OldProps, PropsIn
  <2> QED
    BY <1>1, <1>2, <2>1, SetPropsIn
<1>4. ASSUME NEW k \in DOMAIN F \ X PROVE k \in DOMAIN B /\ PropsIn(A[k], B[k])
  <2>1. k \in DOMAIN G /\ PropsIn(F[k], G[k]) /\ k \in DOMAIN B /\ PropsIn(G[k], B[k])
    BY <1>0 DEF AllIn
  <2> QED
    BY <1>1, <2>1 DEF PropsIn
<1>5. AllIn(A, B)
  BY <1>1, <1>3, <1>4 DEF AllIn
<1> QED
  BY <1>5 DEF A, B

\* Between two maps in which a SET changes nothing it changes nothing.
LEMMA SetBetween ==
  ASSUME NEW C, NEW F, NEW U, AllIn(C, F), AllIn(F, U), IsMap(F), NEW X, NEW row,
         SetIn(C, X, row) = C, SetIn(U, X, row) = U
  PROVE  SetIn(F, X, row) = F
<1> DEFINE G == SetIn(F, X, row)
<1>0. IsSetIn(G, F, X, row) /\ IsSetIn(C, C, X, row)
  BY SetInIs
<1>3. AllIn(F, G) /\ AllIn(G, U)
  BY SetBelow
<1> HIDE DEF G
<1>1. /\ DOMAIN G = DOMAIN F \cup X /\ IsMap(G)
      /\ \A k \in X : G[k] = SetProps(OldProps(F, k), row)
      /\ \A k \in DOMAIN F \ X : G[k] = F[k]
  BY <1>0 DEF IsSetIn
<1>2. /\ X \subseteq DOMAIN C /\ \A k \in X : C[k] = SetProps(C[k], row)
  <2>1. DOMAIN C = DOMAIN C \cup X /\ \A k \in X : C[k] = SetProps(OldProps(C, k), row)
    BY <1>0 DEF IsSetIn
  <2> QED
    BY <2>1 DEF OldProps
<1>4. DOMAIN G = DOMAIN F
  BY <1>1, <1>2 DEF AllIn
<1>5. ASSUME NEW k \in X PROVE G[k] = F[k]
  <2>1. k \in DOMAIN C /\ k \in DOMAIN F /\ PropsIn(C[k], F[k]) /\ PropsIn(F[k], G[k])
    BY <1>2, <1>3 DEF AllIn
  <2>2. G[k] = SetProps(F[k], row) /\ C[k] = SetProps(C[k], row)
    BY <1>1, <1>2, <2>1 DEF OldProps
  <2>3. \A f \in DOMAIN row : row[f] # Null => f \in DOMAIN C[k] /\ C[k][f] = row[f]
    BY <2>2, SetPropsAre
  <2>4. \A f \in DOMAIN row : row[f] # Null => f \in DOMAIN F[k]
    BY <2>1, <2>3 DEF PropsIn
  <2>5. \A f \in DOMAIN G[k] : \/ f \in DOMAIN row /\ row[f] # Null
                               \/ f \in DOMAIN F[k]
    BY <2>2, SetPropsAre
  <2>6. DOMAIN G[k] = DOMAIN F[k] /\ \A f \in DOMAIN F[k] : G[k][f] = F[k][f]
    BY <2>1, <2>4, <2>5 DEF PropsIn
  <2>7. G[k] = [f \in DOMAIN G[k] |-> G[k][f]] /\ F[k] = [f \in DOMAIN F[k] |-> F[k][f]]
    BY <1>1, <2>1, <1>4 DEF IsMap
  <2> QED
    BY <2>6, <2>7
<1>6. \A k \in DOMAIN F : G[k] = F[k]
  BY <1>1, <1>5
<1> QED
  BY <1>1, <1>4, <1>6 DEF IsMap, G

-----------------------------------------------------------------------------
(* Graphs, and what a row makes of them. *)

\* h is g with row set on the nodes X of label l, or on the edges X.
NodesSet(h, g, l, X, row) ==
  /\ IsGraph(h) /\ h.edges = g.edges
  /\ h.nodes[l] = SetIn(g.nodes[l], X, row)
  /\ \A m \in Labels \ {l} : h.nodes[m] = g.nodes[m]
EdgesSet(h, g, X, row) ==
  IsGraph(h) /\ h.nodes = g.nodes /\ h.edges = SetIn(g.edges, X, row)

LEMMA NodesAreSet ==
  ASSUME NEW g, IsGraph(g), NEW l \in Labels, NEW X, NEW row
  PROVE  NodesSet(SetNodes(g, l, X, row), g, l, X, row)
<1> DEFINE u == SetIn(g.nodes[l], X, row)
           h == [nodes |-> [m \in Labels |-> IF m = l THEN u ELSE g.nodes[m]], edges |-> g.edges]
<1>1. SetNodes(g, l, X, row) = [g EXCEPT !.nodes[l] = u]
  BY DEF SetNodes, SetIn, OldProps
<1>2. IsMap(u)
  <2>1. IsSetIn(u, g.nodes[l], X, row)
    BY SetInIs
  <2> QED
    BY <2>1 DEF IsSetIn, IsGraph
<1> HIDE DEF u
<1>3. g = [nodes |-> g.nodes, edges |-> g.edges] /\ g.nodes = [m \in Labels |-> g.nodes[m]]
  BY DEF IsGraph
<1>4. [g EXCEPT !.nodes[l] = u] = [nodes |-> [g.nodes EXCEPT ![l] = u], edges |-> g.edges]
  BY <1>3
<1>5. [g.nodes EXCEPT ![l] = u] = [m \in Labels |-> IF m = l THEN u ELSE g.nodes[m]]
  BY <1>3
<1>6. SetNodes(g, l, X, row) = h
  BY <1>1, <1>4, <1>5
<1>7. /\ h = [nodes |-> h.nodes, edges |-> h.edges] /\ h.nodes = [m \in Labels |-> h.nodes[m]]
      /\ h.edges = g.edges /\ h.nodes[l] = u /\ \A m \in Labels \ {l} : h.nodes[m] = g.nodes[m]
  OBVIOUS
<1> HIDE DEF h
<1>8. IsGraph(h)
  BY <1>2, <1>7 DEF IsGraph
<1> QED
  BY <1>6, <1>7, <1>8 DEF NodesSet, u

LEMMA EdgesAreSet ==
  ASSUME NEW g, IsGraph(g), NEW t, NEW row
  PROVE  EdgesSet(MergeEdge(g, t, row), g, EdgesOf(g, t, row), row.set)
<1> DEFINE u == SetIn(g.edges, EdgesOf(g, t, row), row.set)
           h == [nodes |-> g.nodes, edges |-> u]
<1>1. MergeEdge(g, t, row) = [g EXCEPT !.edges = u]
  BY DEF MergeEdge, SetIn, OldProps
<1>2. IsMap(u)
  <2>1. IsSetIn(u, g.edges, EdgesOf(g, t, row), row.set)
    BY SetInIs
  <2> QED
    BY <2>1 DEF IsSetIn, IsGraph
<1> HIDE DEF u
<1>3. g = [nodes |-> g.nodes, edges |-> g.edges]
  BY DEF IsGraph
<1>4. [g EXCEPT !.edges = u] = h
  BY <1>3
<1>5. h = [nodes |-> h.nodes, edges |-> h.edges] /\ h.nodes = g.nodes /\ h.edges = u
  OBVIOUS
<1> HIDE DEF h
<1>6. IsGraph(h)
  BY <1>2, <1>5 DEF IsGraph
<1> QED
  BY <1>1, <1>4, <1>5, <1>6 DEF EdgesSet, u

\* The nodes or edges a row is set on.
KeyOf(x) == Restrict(x.row, x.t.keys)
NodesOf(g, x) ==
  LET hit == Find(g, x.t.label, KeyOf(x))
  IN  IF x.t.kind = "node" /\ hit = {} THEN {KeyOf(x)} ELSE hit
Applied(g, x) == ApplyRow(g, x.t, x.row)

LEMMA NodeApplied ==
  ASSUME NEW g, IsGraph(g), NEW x, Fits(x.t), x.t.kind # "edge"
  PROVE  NodesSet(Applied(g, x), g, x.t.label, NodesOf(g, x), x.row)
<1>1. x.t.label \in Labels /\ x.t.kind \in {"node", "attach"}
  BY DEF Fits
<1>2. Applied(g, x) = SetNodes(g, x.t.label, NodesOf(g, x), x.row)
  <2>1. CASE x.t.kind = "node"
    BY <2>1 DEF Applied, ApplyRow, MergeNode, NodesOf, KeyOf
  <2>2. CASE x.t.kind = "attach"
    BY <2>2 DEF Applied, ApplyRow, AttachNode, NodesOf, KeyOf
  <2> QED
    BY <1>1, <2>1, <2>2
<1> QED
  BY <1>1, <1>2, NodesAreSet

LEMMA EdgeApplied ==
  ASSUME NEW g, IsGraph(g), NEW x, x.t.kind = "edge"
  PROVE  EdgesSet(Applied(g, x), g, EdgesOf(g, x.t, x.row), x.row.set)
<1>1. Applied(g, x) = MergeEdge(g, x.t, x.row)
  BY DEF Applied, ApplyRow
<1> QED
  BY <1>1, EdgesAreSet

LEMMA GraphInItself == ASSUME NEW g PROVE GraphIn(g, g)
BY InItself DEF GraphIn

LEMMA GraphTransitive == ASSUME NEW g, NEW h, NEW k, GraphIn(g, h), GraphIn(h, k) PROVE GraphIn(g, k)
BY InTransitive DEF GraphIn

\* A larger graph finds no less.
LEMMA FindsMore ==
  ASSUME NEW g, NEW h, GraphIn(g, h), NEW l \in Labels, NEW wanted
  PROVE  Find(g, l, wanted) \subseteq Find(h, l, wanted)
<1>1. SUFFICES ASSUME NEW k \in DOMAIN g.nodes[l], Has(g.nodes[l][k], wanted)
               PROVE  k \in DOMAIN h.nodes[l] /\ Has(h.nodes[l][k], wanted)
  BY DEF Find
<1>2. k \in DOMAIN h.nodes[l] /\ PropsIn(g.nodes[l][k], h.nodes[l][k])
  BY DEF GraphIn, AllIn
<1> QED
  BY <1>1, <1>2 DEF Has, PropsIn

LEMMA ReachesMore ==
  ASSUME NEW g, NEW h, GraphIn(g, h), NEW x, Fits(x.t), x.t.kind = "edge"
  PROVE  EdgesOf(g, x.t, x.row) \subseteq EdgesOf(h, x.t, x.row)
<1>1. x.t.a.label \in Labels /\ x.t.b.label \in Labels
  BY DEF Fits
<1>2. /\ Matches(g, x.t.a, x.row.from) \subseteq Matches(h, x.t.a, x.row.from)
      /\ Matches(g, x.t.b, x.row.to) \subseteq Matches(h, x.t.b, x.row.to)
  BY <1>1, FindsMore DEF Matches
<1> QED
  BY <1>2 DEF EdgesOf

-----------------------------------------------------------------------------
(* A row on a graph below one in which it has settled. *)

\* A row that merges finds its node, or makes the one that is its own above.
Met(g, u, x) == x.t.kind = "node" => OwnNode(u, x) \/ Find(g, x.t.label, KeyOf(x)) # {}

LEMMA NodesBelow ==
  ASSUME NEW p, NEW g, NEW u, GraphIn(p, g), GraphIn(g, u),
         NEW x, Fits(x.t), x.t.kind # "edge", Met(p, u, x)
  PROVE  NodesOf(p, x) \subseteq NodesOf(g, x)
<1>1. x.t.label \in Labels
  BY DEF Fits
<1>2. /\ Find(p, x.t.label, KeyOf(x)) \subseteq Find(g, x.t.label, KeyOf(x))
      /\ Find(g, x.t.label, KeyOf(x)) \subseteq Find(u, x.t.label, KeyOf(x))
  BY <1>1, FindsMore
<1>3. CASE x.t.kind = "node" /\ Find(p, x.t.label, KeyOf(x)) = {}
  <2>1. Find(u, x.t.label, KeyOf(x)) = {KeyOf(x)}
    BY <1>3 DEF Met, OwnNode, KeyOf
  <2>2. Find(g, x.t.label, KeyOf(x)) = {} \/ Find(g, x.t.label, KeyOf(x)) = {KeyOf(x)}
    BY <1>2, <2>1
  <2> QED
    BY <1>3, <2>2 DEF NodesOf
<1>4. CASE ~ (x.t.kind = "node" /\ Find(p, x.t.label, KeyOf(x)) = {})
  BY <1>2, <1>4 DEF NodesOf
<1> QED
  BY <1>3, <1>4

\* It takes nothing away and adds nothing that is not above.
LEMMA RowGrows ==
  ASSUME NEW g, NEW u, IsGraph(g), IsGraph(u), GraphIn(g, u),
         NEW x, Fits(x.t), Met(g, u, x), SettledIn(u, x)
  PROVE  IsGraph(Applied(g, x)) /\ GraphIn(g, Applied(g, x)) /\ GraphIn(Applied(g, x), u)
<1> DEFINE h == Applied(g, x)
<1>1. Applied(u, x) = u
  BY DEF Applied, SettledIn
<1>2. CASE x.t.kind = "edge"
  <2> DEFINE X == EdgesOf(g, x.t, x.row)
             Y == EdgesOf(u, x.t, x.row)
  <2>1. EdgesSet(h, g, X, x.row.set) /\ EdgesSet(u, u, Y, x.row.set)
    BY <1>1, <1>2, EdgeApplied
  <2>2. X \subseteq Y
    BY <1>2, ReachesMore
  <2> HIDE DEF h, X, Y
  <2>3. AllIn(g.edges, u.edges) /\ SetIn(u.edges, Y, x.row.set) = u.edges
    BY <2>1 DEF EdgesSet, GraphIn
  <2>4. AllIn(g.edges, h.edges) /\ AllIn(h.edges, u.edges)
    BY <2>1, <2>2, <2>3, SetBelow DEF EdgesSet
  <2>5. \A l \in Labels : h.nodes[l] = g.nodes[l] /\ AllIn(g.nodes[l], g.nodes[l])
    BY <2>1, InItself DEF EdgesSet
  <2> QED
    BY <2>1, <2>4, <2>5 DEF EdgesSet, GraphIn, h
<1>3. CASE x.t.kind # "edge"
  <2> DEFINE X == NodesOf(g, x)
             Y == NodesOf(u, x)
             l == x.t.label
  <2>1. NodesSet(h, g, l, X, x.row) /\ NodesSet(u, u, l, Y, x.row)
    BY <1>1, <1>3, NodeApplied
  <2>2. X \subseteq Y
    BY <1>3, NodesBelow, GraphInItself
  <2>3. l \in Labels
    BY <1>3 DEF Fits
  <2> HIDE DEF h, X, Y, l
  <2>4. AllIn(g.nodes[l], u.nodes[l]) /\ SetIn(u.nodes[l], Y, x.row) = u.nodes[l]
    BY <2>1, <2>3 DEF NodesSet, GraphIn
  <2>5. AllIn(g.nodes[l], h.nodes[l]) /\ AllIn(h.nodes[l], u.nodes[l])
    BY <2>1, <2>2, <2>4, SetBelow DEF NodesSet
  <2>6. \A m \in Labels \ {l} : h.nodes[m] = g.nodes[m] /\ AllIn(g.nodes[m], g.nodes[m])
    BY <2>1, InItself DEF NodesSet
  <2>7. h.edges = g.edges /\ AllIn(g.edges, g.edges)
    BY <2>1, InItself DEF NodesSet
  <2> QED
    BY <2>1, <2>5, <2>6, <2>7 DEF NodesSet, GraphIn, h
<1> QED
  BY <1>2, <1>3

\* On two graphs, one in the other, it keeps that.
LEMMA RowBelow ==
  ASSUME NEW p, NEW g, NEW u, IsGraph(p), IsGraph(g), GraphIn(p, g), GraphIn(g, u),
         NEW x, Fits(x.t), Met(p, u, x), GraphIn(g, Applied(g, x))
  PROVE  GraphIn(Applied(p, x), Applied(g, x))
<1> DEFINE h == Applied(g, x)
           q == Applied(p, x)
<1>1. CASE x.t.kind = "edge"
  <2> DEFINE X == EdgesOf(p, x.t, x.row)
             Y == EdgesOf(g, x.t, x.row)
  <2>1. EdgesSet(q, p, X, x.row.set) /\ EdgesSet(h, g, Y, x.row.set)
    BY <1>1, EdgeApplied
  <2>2. X \subseteq Y
    BY <1>1, ReachesMore
  <2>0. GraphIn(g, h)
    OBVIOUS
  <2> HIDE DEF h, q, X, Y
  <2>3. AllIn(p.edges, g.edges) /\ AllIn(g.edges, SetIn(g.edges, Y, x.row.set))
    BY <2>0, <2>1 DEF EdgesSet, GraphIn
  <2>4. AllIn(SetIn(p.edges, X, x.row.set), SetIn(g.edges, Y, x.row.set))
    BY <2>2, <2>3, SetBoth
  <2>5. \A l \in Labels : q.nodes[l] = p.nodes[l] /\ h.nodes[l] = g.nodes[l]
    BY <2>1 DEF EdgesSet
  <2> QED
    BY <2>1, <2>4, <2>5 DEF EdgesSet, GraphIn, h, q
<1>2. CASE x.t.kind # "edge"
  <2> DEFINE X == NodesOf(p, x)
             Y == NodesOf(g, x)
             l == x.t.label
  <2>1. NodesSet(q, p, l, X, x.row) /\ NodesSet(h, g, l, Y, x.row)
    BY <1>2, NodeApplied
  <2>2. X \subseteq Y
    BY <1>2, NodesBelow
  <2>3. l \in Labels
    BY <1>2 DEF Fits
  <2>0. GraphIn(g, h)
    OBVIOUS
  <2> HIDE DEF h, q, X, Y, l
  <2>4. AllIn(p.nodes[l], g.nodes[l]) /\ AllIn(g.nodes[l], SetIn(g.nodes[l], Y, x.row))
    BY <2>0, <2>1, <2>3 DEF NodesSet, GraphIn
  <2>5. AllIn(SetIn(p.nodes[l], X, x.row), SetIn(g.nodes[l], Y, x.row))
    BY <2>2, <2>4, SetBoth
  <2>6. \A m \in Labels \ {l} : q.nodes[m] = p.nodes[m] /\ h.nodes[m] = g.nodes[m]
    BY <2>1 DEF NodesSet
  <2> QED
    BY <2>1, <2>5, <2>6 DEF NodesSet, GraphIn, h, q
<1> QED
  BY <1>1, <1>2

\* Between two graphs in which it has settled, and which it finds alike, it has settled.
LEMMA RowBetween ==
  ASSUME NEW c, NEW g, NEW u, IsGraph(c), IsGraph(g), IsGraph(u), GraphIn(c, g), GraphIn(g, u),
         NEW x, Fits(x.t), SettledIn(c, x), SettledIn(u, x), FindsAlike(u, c, x)
  PROVE  SettledIn(g, x)
<1> DEFINE h == Applied(g, x)
<1>1. Applied(c, x) = c /\ Applied(u, x) = u
  BY DEF Applied, SettledIn
<1>2. h = g => SettledIn(g, x)
  BY DEF Applied, SettledIn
<1>3. CASE x.t.kind = "edge"
  <2> DEFINE X == EdgesOf(g, x.t, x.row)
  <2>1. EdgesOf(c, x.t, x.row) = X /\ EdgesOf(u, x.t, x.row) = X
    <3>1. EdgesOf(u, x.t, x.row) = EdgesOf(c, x.t, x.row)
      BY <1>3 DEF FindsAlike
    <3>2. EdgesOf(c, x.t, x.row) \subseteq X /\ X \subseteq EdgesOf(u, x.t, x.row)
      BY <1>3, ReachesMore
    <3> QED
      BY <3>1, <3>2
  <2>2. EdgesSet(h, g, X, x.row.set) /\ EdgesSet(c, c, X, x.row.set) /\ EdgesSet(u, u, X, x.row.set)
    BY <1>1, <1>3, <2>1, EdgeApplied
  <2> HIDE DEF h, X
  <2>3. /\ AllIn(c.edges, g.edges) /\ AllIn(g.edges, u.edges) /\ IsMap(g.edges)
        /\ SetIn(c.edges, X, x.row.set) = c.edges /\ SetIn(u.edges, X, x.row.set) = u.edges
    BY <2>2 DEF EdgesSet, GraphIn, IsGraph
  <2>4. h.edges = g.edges
    BY <2>2, <2>3, SetBetween DEF EdgesSet
  <2>5. h = g
    BY <2>2, <2>4 DEF EdgesSet, IsGraph
  <2> QED
    BY <1>2, <2>5 DEF h
<1>4. CASE x.t.kind # "edge"
  <2> DEFINE X == NodesOf(g, x)
             l == x.t.label
  <2>0. l \in Labels
    BY <1>4 DEF Fits
  <2>1. NodesOf(c, x) = X /\ NodesOf(u, x) = X
    <3>1. Find(u, l, KeyOf(x)) = Find(c, l, KeyOf(x))
      BY <1>4 DEF FindsAlike, KeyOf
    <3>2. Find(c, l, KeyOf(x)) \subseteq Find(g, l, KeyOf(x)) /\ Find(g, l, KeyOf(x)) \subseteq Find(u, l, KeyOf(x))
      BY <2>0, FindsMore
    <3>3. Find(g, l, KeyOf(x)) = Find(c, l, KeyOf(x))
      BY <3>1, <3>2
    <3> QED
      BY <3>1, <3>3 DEF NodesOf
  <2>2. NodesSet(h, g, l, X, x.row) /\ NodesSet(c, c, l, X, x.row) /\ NodesSet(u, u, l, X, x.row)
    BY <1>1, <1>4, <2>1, NodeApplied
  <2> HIDE DEF h, X, l
  <2>3. /\ AllIn(c.nodes[l], g.nodes[l]) /\ AllIn(g.nodes[l], u.nodes[l]) /\ IsMap(g.nodes[l])
        /\ SetIn(c.nodes[l], X, x.row) = c.nodes[l] /\ SetIn(u.nodes[l], X, x.row) = u.nodes[l]
    BY <2>0, <2>2 DEF NodesSet, GraphIn, IsGraph
  <2>4. h.nodes[l] = g.nodes[l]
    BY <2>2, <2>3, SetBetween DEF NodesSet
  <2>5. \A m \in Labels : h.nodes[m] = g.nodes[m]
    BY <2>2, <2>4 DEF NodesSet
  <2>6. h.nodes = g.nodes /\ h.edges = g.edges
    <3>1. h.nodes = [m \in Labels |-> h.nodes[m]] /\ g.nodes = [m \in Labels |-> g.nodes[m]]
      BY <2>2 DEF NodesSet, IsGraph
    <3>2. [m \in Labels |-> h.nodes[m]] = [m \in Labels |-> g.nodes[m]]
      BY <2>5
    <3> QED
      BY <2>2, <3>1, <3>2 DEF NodesSet
  <2>7. h = g
    BY <2>2, <2>6 DEF NodesSet, IsGraph
  <2> QED
    BY <1>2, <2>7 DEF h
<1> QED
  BY <1>3, <1>4

\* What a merged row leaves is shown, and found by whoever looks for it.
Shown(g, x) ==
  /\ KeyOf(x) \in DOMAIN g.nodes[x.t.label]
  /\ \A f \in DOMAIN x.row : x.row[f] # Null =>
       /\ f \in DOMAIN g.nodes[x.t.label][KeyOf(x)]
       /\ g.nodes[x.t.label][KeyOf(x)][f] = x.row[f]

LEMMA RowIsShown ==
  ASSUME NEW g, NEW u, IsGraph(g), GraphIn(g, u),
         NEW x, Fits(x.t), x.t.kind = "node", OwnNode(u, x)
  PROVE  Shown(Applied(g, x), x)
<1> DEFINE h == Applied(g, x)
           l == x.t.label
           k == KeyOf(x)
<1>1. l \in Labels /\ NodesSet(h, g, l, NodesOf(g, x), x.row)
  BY NodeApplied DEF Fits
<1>2. Find(g, l, k) \subseteq {k}
  BY <1>1, FindsMore DEF OwnNode, KeyOf
<1>3. NodesOf(g, x) = {k}
  BY <1>2 DEF NodesOf
<1> HIDE DEF h, l, k
<1>4. h.nodes[l] = SetIn(g.nodes[l], {k}, x.row)
  BY <1>1, <1>3 DEF NodesSet
<1>5. IsSetIn(h.nodes[l], g.nodes[l], {k}, x.row)
  BY <1>4, SetInIs
<1>6. k \in DOMAIN h.nodes[l] /\ h.nodes[l][k] = SetProps(OldProps(g.nodes[l], k), x.row)
  BY <1>5 DEF IsSetIn
<1>7. \A f \in DOMAIN x.row : x.row[f] # Null => f \in DOMAIN h.nodes[l][k] /\ h.nodes[l][k][f] = x.row[f]
  BY <1>6, SetPropsAre
<1> QED
  BY <1>6, <1>7 DEF Shown, h, l, k

LEMMA ShownStays ==
  ASSUME NEW g, NEW h, GraphIn(g, h), NEW x, x.t.label \in Labels, Shown(g, x)
  PROVE  Shown(h, x)
<1>1. KeyOf(x) \in DOMAIN g.nodes[x.t.label]
  BY DEF Shown
<1>2. /\ KeyOf(x) \in DOMAIN h.nodes[x.t.label]
      /\ PropsIn(g.nodes[x.t.label][KeyOf(x)], h.nodes[x.t.label][KeyOf(x)])
  BY <1>1 DEF GraphIn, AllIn
<1> QED
  BY <1>2 DEF Shown, PropsIn

-----------------------------------------------------------------------------
(* A lemma is early, or the row meets its node. *)

\* The nodes of g are in h, whatever they have there.
Wider(g, h) == \A l \in Labels : DOMAIN g.nodes[l] \subseteq DOMAIN h.nodes[l]
ByNumber(t) == t = NodeT("Lemma", "strong")
Owns(u, x)  == x.t.kind = "node" => OwnNode(u, x) \/ Borrows(x)

LEMMA EarlyStays == ASSUME NEW g, NEW h, Wider(g, h), "Lemma" \in Labels, EarlyIn(g) PROVE EarlyIn(h)
<1>1. PICK v \in HebrewNumbers : [strong |-> v] \in DOMAIN g.nodes["Lemma"]
  BY DEF EarlyIn
<1> QED
  BY <1>1 DEF EarlyIn, Wider

LEMMA RowWidens ==
  ASSUME NEW g, IsGraph(g), NEW x, Fits(x.t)
  PROVE  IsGraph(Applied(g, x)) /\ Wider(g, Applied(g, x))
<1> DEFINE h == Applied(g, x)
<1>1. CASE x.t.kind = "edge"
  <2>1. EdgesSet(h, g, EdgesOf(g, x.t, x.row), x.row.set)
    BY <1>1, EdgeApplied
  <2> HIDE DEF h
  <2> QED
    BY <2>1 DEF EdgesSet, Wider, h
<1>2. CASE x.t.kind # "edge"
  <2> DEFINE l == x.t.label
  <2>1. l \in Labels /\ NodesSet(h, g, l, NodesOf(g, x), x.row)
    BY <1>2, NodeApplied DEF Fits
  <2> HIDE DEF h, l
  <2>2. IsSetIn(h.nodes[l], g.nodes[l], NodesOf(g, x), x.row)
    BY <2>1, SetInIs DEF NodesSet
  <2>3. DOMAIN g.nodes[l] \subseteq DOMAIN h.nodes[l]
    BY <2>2 DEF IsSetIn
  <2> QED
    BY <2>1, <2>3 DEF NodesSet, Wider, h
<1> QED
  BY <1>1, <1>2

\* A row that borrows and finds nothing makes the lemma early.
LEMMA RowIsMet ==
  ASSUME NEW g, NEW u, IsGraph(g), NEW x, Fits(x.t), Owns(u, x),
         ~EarlyIn(Applied(g, x)) \/ ~ByNumber(x.t)
  PROVE  Met(g, u, x)
<1> DEFINE h == Applied(g, x)
<1>1. SUFFICES ASSUME x.t.kind = "node", Borrows(x), Find(g, x.t.label, KeyOf(x)) = {} PROVE FALSE
  BY DEF Met, Owns
<1>2. /\ x.t = NodeT("Lemma", "strong") /\ x.row.strong \in HebrewNumbers
      /\ x.t.label = "Lemma" /\ x.t.keys = {"strong"}
  BY <1>1 DEF Borrows, NodeT
<1>3. ~EarlyIn(h)
  BY <1>2 DEF ByNumber
<1>4. NodesSet(h, g, "Lemma", NodesOf(g, x), x.row) /\ NodesOf(g, x) = {KeyOf(x)}
  BY <1>1, <1>2, NodeApplied DEF NodesOf
<1> HIDE DEF h
<1>5. IsSetIn(h.nodes["Lemma"], g.nodes["Lemma"], {KeyOf(x)}, x.row)
  BY <1>4, SetInIs DEF NodesSet
<1>6. KeyOf(x) \in DOMAIN h.nodes["Lemma"]
  BY <1>5 DEF IsSetIn
<1>7. KeyOf(x) = [strong |-> x.row.strong]
  BY <1>2 DEF KeyOf, Restrict
<1> QED
  BY <1>2, <1>3, <1>6, <1>7 DEF EarlyIn

-----------------------------------------------------------------------------
(* A session.run: its rows, one after the other. *)

\* The equation of the graphs in ApplyBatch, up to row m.
Batches(f, g, s, m) == f = [n \in 0 .. m |-> IF n = 0 THEN g ELSE ApplyRow(f[n - 1], s.t, s.rows[n])]

LEMMA BatchExists ==
  ASSUME NEW g, NEW s, NEW m \in Nat
  PROVE  \E f : Batches(f, g, s, m)
<1> DEFINE S == {n \in Nat : \E f : Batches(f, g, s, n)}
<1>1. 0 \in S
  <2> DEFINE f == [n \in 0 .. 0 |-> g]
  <2>1. f = [n \in 0 .. 0 |-> IF n = 0 THEN g ELSE ApplyRow(f[n - 1], s.t, s.rows[n])]
    OBVIOUS
  <2>2. Batches(f, g, s, 0)
    BY <2>1 DEF Batches
  <2> QED
    BY <2>2
<1>2. ASSUME NEW n \in Nat, n \in S PROVE n + 1 \in S
  <2>1. PICK f : Batches(f, g, s, n)
    BY <1>2
  <2> DEFINE next == ApplyRow(f[n], s.t, s.rows[n + 1])
             h    == [i \in 0 .. n + 1 |-> IF i <= n THEN f[i] ELSE next]
  <2>2. \A i \in 0 .. n : f[i] = IF i = 0 THEN g ELSE ApplyRow(f[i - 1], s.t, s.rows[i])
    BY <2>1 DEF Batches
  <2>3. ASSUME NEW i \in 0 .. n + 1
        PROVE  h[i] = IF i = 0 THEN g ELSE ApplyRow(h[i - 1], s.t, s.rows[i])
    <3>1. CASE i <= n
      <4>1. i \in 0 .. n /\ h[i] = f[i] /\ (i # 0 => i - 1 \in 0 .. n + 1 /\ h[i - 1] = f[i - 1])
        BY <3>1
      <4> QED
        BY <2>2, <4>1
    <3>2. CASE i = n + 1
      <4>1. h[i] = next /\ i # 0 /\ i - 1 = n /\ n \in 0 .. n + 1 /\ h[n] = f[n]
        BY <3>2
      <4> HIDE DEF h
      <4> QED
        BY <3>2, <4>1
    <3> QED
      BY <3>1, <3>2
  <2>4. h = [i \in 0 .. n + 1 |-> IF i = 0 THEN g ELSE ApplyRow(h[i - 1], s.t, s.rows[i])]
    BY <2>3
  <2>5. Batches(h, g, s, n + 1)
    BY <2>4 DEF Batches
  <2> QED
    BY <2>5
<1> HIDE DEF S
<1>3. Nat \subseteq S
  BY <1>1, <1>2, InductionOnNat
<1> QED
  BY <1>3 DEF S

Row(s, n) == [t |-> s.t, row |-> s.rows[n]]
\* f has the graphs of a session.run, from g to h.
RowByRow(f, g, s, h) ==
  /\ f[0] = g /\ h = f[Len(s.rows)] /\ Len(s.rows) \in Nat
  /\ \A n \in Nat : n + 1 <= Len(s.rows) => f[n + 1] = Applied(f[n], Row(s, n + 1))
SentTo(g, s) == ApplyBatch(g, s.t, s.rows)

LEMMA BatchIs ==
  ASSUME NEW g, NEW s, Len(s.rows) \in Nat
  PROVE  \E f : RowByRow(f, g, s, SentTo(g, s))
<1> DEFINE f == CHOOSE f : Batches(f, g, s, Len(s.rows))
<1>1. Batches(f, g, s, Len(s.rows))
  BY BatchExists
<1>2. SentTo(g, s) = f[Len(s.rows)]
  BY DEF SentTo, ApplyBatch, After, Batches
<1> HIDE DEF f
<1>3. \A n \in 0 .. Len(s.rows) : f[n] = IF n = 0 THEN g ELSE ApplyRow(f[n - 1], s.t, s.rows[n])
  BY <1>1 DEF Batches
<1>4. 0 \in 0 .. Len(s.rows)
  OBVIOUS
<1>5. ASSUME NEW n \in Nat, n + 1 <= Len(s.rows) PROVE f[n + 1] = Applied(f[n], Row(s, n + 1))
  <2>1. n + 1 \in 0 .. Len(s.rows) /\ n + 1 # 0 /\ (n + 1) - 1 = n
    BY <1>5
  <2> QED
    BY <1>3, <2>1 DEF Applied, Row
<1> QED
  BY <1>2, <1>3, <1>4, <1>5 DEF RowByRow

\* A statement that fits, and its rows one by one.
Statement(s) == Fits(s.t) /\ s.rows \in Seq(Range(s.rows))

\* Its graphs are graphs, and each is in breadth below the last.
LEMMA BatchWidens ==
  ASSUME NEW g, IsGraph(g), NEW s, Statement(s), NEW f, NEW h, RowByRow(f, g, s, h)
  PROVE  \A n \in 0 .. Len(s.rows) : IsGraph(f[n]) /\ Wider(f[n], h)
<1>1. Len(s.rows) \in Nat /\ Fits(s.t)
  BY LenProperties DEF Statement
<1>2. /\ f[0] = g /\ h = f[Len(s.rows)]
      /\ \A n \in Nat : n + 1 <= Len(s.rows) => f[n + 1] = Applied(f[n], Row(s, n + 1))
  BY DEF RowByRow
<1> DEFINE S == {n \in Nat : n <= Len(s.rows) =>
                   IsGraph(f[n]) /\ \A i \in 0 .. n : Wider(f[i], f[n])}
<1>3. 0 \in S
  BY <1>2 DEF Wider
<1>4. ASSUME NEW n \in Nat, n \in S PROVE n + 1 \in S
  <2>1. SUFFICES ASSUME n + 1 <= Len(s.rows)
                 PROVE  IsGraph(f[n + 1]) /\ \A i \in 0 .. n + 1 : Wider(f[i], f[n + 1])
    OBVIOUS
  <2>2. IsGraph(f[n]) /\ \A i \in 0 .. n : Wider(f[i], f[n])
    BY <1>1, <1>4, <2>1
  <2>3. Row(s, n + 1).t = s.t
    BY DEF Row
  <2>4. IsGraph(f[n + 1]) /\ Wider(f[n], f[n + 1])
    BY <1>1, <1>2, <2>1, <2>2, <2>3, RowWidens
  <2>5. \A i \in 0 .. n + 1 : i \in 0 .. n \/ i = n + 1
    OBVIOUS
  <2> QED
    BY <2>2, <2>4, <2>5 DEF Wider
<1> HIDE DEF S
<1>5. Nat \subseteq S
  BY <1>3, <1>4, InductionOnNat
<1> QED
  BY <1>1, <1>2, <1>5 DEF S

LEMMA SentIsWider ==
  ASSUME NEW g, IsGraph(g), NEW s, Statement(s)
  PROVE  IsGraph(SentTo(g, s)) /\ Wider(g, SentTo(g, s))
<1>1. Len(s.rows) \in Nat
  BY LenProperties DEF Statement
<1>2. PICK f : RowByRow(f, g, s, SentTo(g, s))
  BY <1>1, BatchIs
<1>3. f[0] = g /\ f[Len(s.rows)] = SentTo(g, s) /\ 0 \in 0 .. Len(s.rows) /\ Len(s.rows) \in 0 .. Len(s.rows)
  BY <1>1, <1>2 DEF RowByRow
<1> QED
  BY <1>2, <1>3, BatchWidens

\* Sending s on g makes no lemma early.
Quiet(g, s) == ~EarlyIn(SentTo(g, s)) \/ ~ByNumber(s.t)

LEMMA BatchIsMet ==
  ASSUME NEW g, NEW u, IsGraph(g), NEW s, Statement(s), "Lemma" \in Labels, Quiet(g, s),
         \A n \in 1 .. Len(s.rows) : Owns(u, Row(s, n)),
         NEW f, RowByRow(f, g, s, SentTo(g, s))
  PROVE  \A n \in Nat : n + 1 <= Len(s.rows) => Met(f[n], u, Row(s, n + 1))
<1>1. Len(s.rows) \in Nat /\ Fits(s.t)
  BY LenProperties DEF Statement
<1>2. SUFFICES ASSUME NEW n \in Nat, n + 1 <= Len(s.rows) PROVE Met(f[n], u, Row(s, n + 1))
  OBVIOUS
<1>3. n \in 0 .. Len(s.rows) /\ n + 1 \in 0 .. Len(s.rows) /\ n + 1 \in 1 .. Len(s.rows)
  BY <1>1, <1>2
<1>4. IsGraph(f[n]) /\ Wider(f[n + 1], SentTo(g, s))
  BY <1>3, BatchWidens
<1>5. f[n + 1] = Applied(f[n], Row(s, n + 1)) /\ Row(s, n + 1).t = s.t
  BY <1>2 DEF RowByRow, Row
<1>6. ~EarlyIn(f[n + 1]) \/ ~ByNumber(s.t)
  BY <1>4, EarlyStays DEF Quiet
<1> QED
  BY <1>1, <1>3, <1>4, <1>5, <1>6, RowIsMet

LEMMA BatchGrows ==
  ASSUME NEW g, NEW u, IsGraph(g), IsGraph(u), GraphIn(g, u), NEW s, Statement(s),
         "Lemma" \in Labels, Quiet(g, s),
         \A n \in 1 .. Len(s.rows) : SettledIn(u, Row(s, n)) /\ Owns(u, Row(s, n))
  PROVE  IsGraph(SentTo(g, s)) /\ GraphIn(g, SentTo(g, s)) /\ GraphIn(SentTo(g, s), u)
<1>1. Len(s.rows) \in Nat /\ Fits(s.t)
  BY LenProperties DEF Statement
<1>2. PICK f : RowByRow(f, g, s, SentTo(g, s))
  BY <1>1, BatchIs
<1> DEFINE Good(n) == IsGraph(f[n]) /\ GraphIn(g, f[n]) /\ GraphIn(f[n], u)
           S == {n \in Nat : n <= Len(s.rows) => Good(n)}
<1>3. 0 \in S
  BY <1>2, GraphInItself DEF RowByRow
<1>4. ASSUME NEW n \in Nat, n \in S PROVE n + 1 \in S
  <2>1. SUFFICES ASSUME n + 1 <= Len(s.rows) PROVE Good(n + 1)
    OBVIOUS
  <2> DEFINE x == Row(s, n + 1)
  <2>2. Good(n) /\ n + 1 \in 1 .. Len(s.rows)
    BY <1>1, <1>4, <2>1
  <2>3. f[n + 1] = Applied(f[n], x)
    BY <1>2, <2>1 DEF RowByRow
  <2>4. x.t = s.t
    BY DEF Row
  <2>5. SettledIn(u, x) /\ Met(f[n], u, x)
    BY <1>2, <2>1, <2>2, BatchIsMet
  <2> HIDE DEF x
  <2>6. IsGraph(f[n + 1]) /\ GraphIn(f[n], f[n + 1]) /\ GraphIn(f[n + 1], u)
    BY <1>1, <2>2, <2>3, <2>4, <2>5, RowGrows
  <2> QED
    BY <2>2, <2>6, GraphTransitive
<1> HIDE DEF S
<1>5. Nat \subseteq S
  BY <1>3, <1>4, InductionOnNat
<1>6. Good(Len(s.rows))
  BY <1>1, <1>5 DEF S
<1>7. SentTo(g, s) = f[Len(s.rows)]
  BY <1>2 DEF RowByRow
<1> QED
  BY <1>6, <1>7

LEMMA BatchBelow ==
  ASSUME NEW p, NEW g, NEW u, IsGraph(p), IsGraph(g), IsGraph(u), GraphIn(p, g), GraphIn(g, u),
         NEW s, Statement(s), "Lemma" \in Labels, Quiet(p, s), Quiet(g, s),
         \A n \in 1 .. Len(s.rows) : SettledIn(u, Row(s, n)) /\ Owns(u, Row(s, n))
  PROVE  GraphIn(SentTo(p, s), SentTo(g, s))
<1>1. Len(s.rows) \in Nat /\ Fits(s.t)
  BY LenProperties DEF Statement
<1>2. PICK e : RowByRow(e, p, s, SentTo(p, s))
  BY <1>1, BatchIs
<1>3. PICK f : RowByRow(f, g, s, SentTo(g, s))
  BY <1>1, BatchIs
<1> DEFINE Good(n) == /\ IsGraph(e[n]) /\ IsGraph(f[n])
                      /\ GraphIn(e[n], f[n]) /\ GraphIn(f[n], u)
           S == {n \in Nat : n <= Len(s.rows) => Good(n)}
<1>4. 0 \in S
  BY <1>2, <1>3 DEF RowByRow
<1>5. ASSUME NEW n \in Nat, n \in S PROVE n + 1 \in S
  <2>1. SUFFICES ASSUME n + 1 <= Len(s.rows) PROVE Good(n + 1)
    OBVIOUS
  <2> DEFINE x == Row(s, n + 1)
  <2>2. Good(n) /\ n + 1 \in 1 .. Len(s.rows)
    BY <1>1, <1>5, <2>1
  <2>3. e[n + 1] = Applied(e[n], x) /\ f[n + 1] = Applied(f[n], x)
    BY <1>2, <1>3, <2>1 DEF RowByRow
  <2>4. x.t = s.t
    BY DEF Row
  <2>5. SettledIn(u, x) /\ Met(e[n], u, x) /\ Met(f[n], u, x)
    BY <1>2, <1>3, <2>1, <2>2, BatchIsMet
  <2> HIDE DEF x
  <2>6. GraphIn(e[n], u)
    BY <2>2, GraphTransitive
  <2>7. IsGraph(e[n + 1])
    BY <1>1, <2>2, <2>3, <2>4, <2>5, <2>6, RowGrows
  <2>8. IsGraph(f[n + 1]) /\ GraphIn(f[n], f[n + 1]) /\ GraphIn(f[n + 1], u)
    BY <1>1, <2>2, <2>3, <2>4, <2>5, RowGrows
  <2>9. GraphIn(e[n + 1], f[n + 1])
    BY <1>1, <2>2, <2>3, <2>4, <2>5, <2>8, RowBelow
  <2> QED
    BY <2>7, <2>8, <2>9
<1> HIDE DEF S
<1>6. Nat \subseteq S
  BY <1>4, <1>5, InductionOnNat
<1>7. Good(Len(s.rows))
  BY <1>1, <1>6 DEF S
<1>8. SentTo(p, s) = e[Len(s.rows)] /\ SentTo(g, s) = f[Len(s.rows)]
  BY <1>2, <1>3 DEF RowByRow
<1> QED
  BY <1>7, <1>8

LEMMA BatchIdle ==
  ASSUME NEW g, NEW s, Statement(s), \A n \in 1 .. Len(s.rows) : SettledIn(g, Row(s, n))
  PROVE  SentTo(g, s) = g
<1>1. Len(s.rows) \in Nat
  BY LenProperties DEF Statement
<1>2. PICK f : RowByRow(f, g, s, SentTo(g, s))
  BY <1>1, BatchIs
<1> DEFINE S == {n \in Nat : n <= Len(s.rows) => f[n] = g}
<1>3. 0 \in S
  BY <1>2 DEF RowByRow
<1>4. ASSUME NEW n \in Nat, n \in S PROVE n + 1 \in S
  <2>1. SUFFICES ASSUME n + 1 <= Len(s.rows) PROVE f[n + 1] = g
    OBVIOUS
  <2>2. f[n] = g /\ n + 1 \in 1 .. Len(s.rows)
    BY <1>1, <1>4, <2>1
  <2>3. f[n + 1] = Applied(g, Row(s, n + 1))
    BY <1>2, <2>1, <2>2 DEF RowByRow
  <2> QED
    BY <2>2, <2>3 DEF SettledIn, Applied
<1> HIDE DEF S
<1>5. Nat \subseteq S
  BY <1>3, <1>4, InductionOnNat
<1> QED
  BY <1>1, <1>2, <1>5 DEF S, RowByRow

-----------------------------------------------------------------------------
(* Constraints. *)

\* The members of F with property f, and their values of it.
With(F, f)   == {k \in DOMAIN F : f \in DOMAIN F[k]}
Values(F, f) == {F[k][f] : k \in With(F, f)}

\* As many values as members: no two members share one.
LEMMA OneValueEach ==
  ASSUME NEW F, NEW f, IsFiniteSet(With(F, f))
  PROVE  Cardinality(Values(F, f)) = Cardinality(With(F, f))
           <=> \A j, k \in With(F, f) : F[j][f] = F[k][f] => j = k
<1> DEFINE S == With(F, f)
           T == Values(F, f)
           v == [k \in S |-> F[k][f]]
<1>1. T = {F[k][f] : k \in S} /\ IsFiniteSet(S)
  BY DEF Values
<1> HIDE DEF S, T
<1>2. v \in [S -> T] /\ \A y \in T : \E k \in S : v[k] = y
  BY <1>1
<1>3. v \in Surjection(S, T)
  BY <1>2 DEF Surjection
<1>4. Cardinality(T) = Cardinality(S) <=> v \in Injection(S, T)
  BY <1>1, <1>3, FS_Surjection
<1>5. v \in Injection(S, T) <=> \A j, k \in S : v[j] = v[k] => j = k
  BY <1>2 DEF Injection, IsInjective
<1> QED
  BY <1>4, <1>5 DEF S, T

\* A graph below one that respects the constraints respects them.
LEMMA RespectsBelow ==
  ASSUME NEW g, NEW u, GraphIn(g, u), Respects(u, Unique),
         \A l \in Labels : IsFiniteSet(DOMAIN u.nodes[l])
  PROVE  Respects(g, Unique)
<1>1. SUFFICES ASSUME NEW c \in Unique
               PROVE  Cardinality(Values(g.nodes[c[1]], c[2])) = Cardinality(With(g.nodes[c[1]], c[2]))
  BY DEF Respects, Values, With
<1> DEFINE F == g.nodes[c[1]]
           U == u.nodes[c[1]]
           f == c[2]
<1>2. c[1] \in Labels
  BY UniqueAssumption
<1>3. AllIn(F, U) /\ IsFiniteSet(DOMAIN U)
  BY <1>2 DEF GraphIn
<1>4. Cardinality(Values(U, f)) = Cardinality(With(U, f))
  BY DEF Respects, Values, With
<1> HIDE DEF F, U, f
<1>5. \A k \in With(F, f) : k \in With(U, f) /\ U[k][f] = F[k][f]
  BY <1>3 DEF AllIn, PropsIn, With
<1>6. IsFiniteSet(With(U, f)) /\ IsFiniteSet(With(F, f))
  <2>1. With(U, f) \subseteq DOMAIN U /\ With(F, f) \subseteq With(U, f)
    BY <1>5 DEF With
  <2> QED
    BY <1>3, <2>1, FS_Subset
<1>7. \A j, k \in With(U, f) : U[j][f] = U[k][f] => j = k
  BY <1>4, <1>6, OneValueEach
<1>8. \A j, k \in With(F, f) : F[j][f] = F[k][f] => j = k
  BY <1>5, <1>7
<1>9. Cardinality(Values(F, f)) = Cardinality(With(F, f))
  BY <1>6, <1>8, OneValueEach
<1> QED
  BY <1>9 DEF F, f

\* A row of the brief lexicon: nothing but its number is unique.
Numbers(x) ==
  /\ ByNumber(x.t) /\ "strong" \in DOMAIN x.row /\ x.row.strong # Null
  /\ \A f \in DOMAIN x.row : <<"Lemma", f>> \in Unique => f = "strong"
Finite(g) == \A l \in Labels : IsFiniteSet(DOMAIN g.nodes[l])

\* It breaks no constraint: the lemmas it sets are those that have the number, or
\* one that has it alone.
LEMMA NumberRespects ==
  ASSUME NEW g, IsGraph(g), Finite(g), Respects(g, Unique), "Lemma" \in Labels,
         NEW x, Fits(x.t), Numbers(x)
  PROVE  IsGraph(Applied(g, x)) /\ Finite(Applied(g, x)) /\ Respects(Applied(g, x), Unique)
<1> DEFINE h == Applied(g, x)
           F == g.nodes["Lemma"]
           H == h.nodes["Lemma"]
           X == NodesOf(g, x)
           v == x.row["strong"]
<1>1. /\ x.t.kind = "node" /\ x.t.label = "Lemma" /\ x.t.keys = {"strong"}
      /\ "strong" \in DOMAIN x.row /\ v # Null
      /\ \A f \in DOMAIN x.row : <<"Lemma", f>> \in Unique => f = "strong"
  BY DEF Numbers, ByNumber, NodeT
<1>2. NodesSet(h, g, "Lemma", X, x.row)
  BY <1>1, NodeApplied
<1>3. KeyOf(x) = [strong |-> v]
  BY <1>1 DEF KeyOf, Restrict
<1>4. Find(g, "Lemma", KeyOf(x)) = {k \in DOMAIN F : "strong" \in DOMAIN F[k] /\ F[k]["strong"] = v}
  <2>1. DOMAIN KeyOf(x) = {"strong"} /\ KeyOf(x)["strong"] = v
    BY <1>3
  <2> QED
    BY <2>1 DEF Find, Has
<1> DEFINE hit == {k \in DOMAIN F : "strong" \in DOMAIN F[k] /\ F[k]["strong"] = v}
<1>5. X = IF hit = {} THEN {KeyOf(x)} ELSE hit
  BY <1>1, <1>4 DEF NodesOf
<1> HIDE DEF h, X
<1>6. IsSetIn(H, F, X, x.row)
  BY <1>2, SetInIs DEF NodesSet
<1> HIDE DEF H
<1>7. /\ DOMAIN H = DOMAIN F \cup X
      /\ \A k \in X : H[k] = SetProps(OldProps(F, k), x.row)
      /\ \A k \in DOMAIN F \ X : H[k] = F[k]
  BY <1>6 DEF IsSetIn
<1>8. Finite(h)
  <2>1. IsFiniteSet(DOMAIN F)
    BY DEF Finite
  <2>2. IsFiniteSet(X)
    <3>1. hit \subseteq DOMAIN F /\ IsFiniteSet({KeyOf(x)})
      BY FS_Singleton
    <3>2. IsFiniteSet(hit)
      BY <2>1, <3>1, FS_Subset
    <3> QED
      BY <1>5, <3>1, <3>2
  <2>3. IsFiniteSet(DOMAIN H)
    BY <1>7, <2>1, <2>2, FS_Union
  <2> QED
    BY <1>2, <2>3 DEF Finite, NodesSet, H
<1>9. ASSUME NEW c \in Unique
      PROVE  Cardinality(Values(h.nodes[c[1]], c[2])) = Cardinality(With(h.nodes[c[1]], c[2]))
  <2>1. c[1] \in Labels
    BY UniqueAssumption
  <2>2. Cardinality(Values(g.nodes[c[1]], c[2])) = Cardinality(With(g.nodes[c[1]], c[2]))
    BY DEF Respects, Values, With
  <2>3. CASE c[1] # "Lemma"
    <3>1. h.nodes[c[1]] = g.nodes[c[1]]
      BY <1>2, <2>1, <2>3 DEF NodesSet
    <3> QED
      BY <2>2, <3>1
  <2>4. CASE c[1] = "Lemma"
    <3> DEFINE f == c[2]
    <3>1. IsFiniteSet(With(F, f)) /\ IsFiniteSet(With(H, f))
      <4>1. IsFiniteSet(DOMAIN F) /\ IsFiniteSet(DOMAIN H)
        BY <1>8 DEF Finite, H
      <4>2. With(F, f) \subseteq DOMAIN F /\ With(H, f) \subseteq DOMAIN H
        BY DEF With
      <4> QED
        BY <4>1, <4>2, FS_Subset
    <3>2. \A j, k \in With(F, f) : F[j][f] = F[k][f] => j = k
      BY <2>2, <2>4, <3>1, OneValueEach
    <3>3. ASSUME NEW j \in With(H, f), NEW k \in With(H, f), H[j][f] = H[k][f] PROVE j = k
      <4>1. CASE f # "strong"
        <5>1. f \notin DOMAIN x.row
          BY <1>1, <2>4, <4>1, UniqueAssumption
        <5>2. \A i \in With(H, f) : i \in With(F, f) /\ H[i][f] = F[i][f]
          <6>1. SUFFICES ASSUME NEW i \in With(H, f) PROVE i \in With(F, f) /\ H[i][f] = F[i][f]
            OBVIOUS
          <6>2. CASE i \in X
            <7>1. H[i] = SetProps(OldProps(F, i), x.row) /\ f \in DOMAIN H[i]
              BY <1>7, <6>2 DEF With
            <7>2. f \in DOMAIN OldProps(F, i) /\ H[i][f] = OldProps(F, i)[f]
              BY <5>1, <7>1, SetPropsAre
            <7>3. i \in DOMAIN F
              BY <7>2 DEF OldProps
            <7> QED
              BY <7>2, <7>3 DEF OldProps, With
          <6>3. CASE i \notin X
            BY <1>7, <6>3 DEF With
          <6> QED
            BY <6>2, <6>3
        <5> QED
          BY <3>2, <3>3, <5>2
      <4>2. CASE f = "strong"
        <5>1. \A i \in X : H[i]["strong"] = v
          <6>1. SUFFICES ASSUME NEW i \in X PROVE H[i]["strong"] = v
            OBVIOUS
          <6>2. H[i] = SetProps(OldProps(F, i), x.row)
            BY <1>7
          <6> QED
            BY <1>1, <6>2, SetPropsAre
        <5>2. \A i \in DOMAIN H \ X : "strong" \in DOMAIN H[i] => /\ i \in With(F, f) /\ H[i] = F[i]
                                                                 /\ H[i]["strong"] # v
          BY <1>5, <1>7, <4>2 DEF With
        <5>3. \A i, n \in X : i = n
          <6>1. hit \subseteq With(F, f) /\ \A i \in hit : F[i][f] = v
            BY <4>2 DEF With
          <6> QED
            BY <1>5, <3>2, <6>1
        <5>4. j \in DOMAIN H /\ k \in DOMAIN H /\ "strong" \in DOMAIN H[j] /\ "strong" \in DOMAIN H[k]
          BY <4>2 DEF With
        <5>5. CASE j \in X \/ k \in X
          BY <3>3, <4>2, <5>1, <5>2, <5>3, <5>4, <5>5
        <5>6. CASE j \notin X /\ k \notin X
          BY <3>2, <3>3, <4>2, <5>2, <5>4, <5>6
        <5> QED
          BY <5>5, <5>6
      <4> QED
        BY <4>1, <4>2
    <3>4. Cardinality(Values(H, f)) = Cardinality(With(H, f))
      BY <3>1, <3>3, OneValueEach
    <3> QED
      BY <2>4, <3>4 DEF H
  <2> QED
    BY <2>3, <2>4
<1> QED
  BY <1>2, <1>8, <1>9 DEF Respects, Values, With, NodesSet, h

LEMMA NumbersRespect ==
  ASSUME NEW g, IsGraph(g), Finite(g), Respects(g, Unique), "Lemma" \in Labels,
         NEW s, Statement(s), \A n \in 1 .. Len(s.rows) : Numbers(Row(s, n))
  PROVE  Respects(SentTo(g, s), Unique)
<1>1. Len(s.rows) \in Nat /\ Fits(s.t)
  BY LenProperties DEF Statement
<1>2. PICK f : RowByRow(f, g, s, SentTo(g, s))
  BY <1>1, BatchIs
<1>3. /\ f[0] = g /\ SentTo(g, s) = f[Len(s.rows)]
      /\ \A n \in Nat : n + 1 <= Len(s.rows) => f[n + 1] = Applied(f[n], Row(s, n + 1))
  BY <1>2 DEF RowByRow
<1> DEFINE Good(n) == IsGraph(f[n]) /\ Finite(f[n]) /\ Respects(f[n], Unique)
           S == {n \in Nat : n <= Len(s.rows) => Good(n)}
<1>4. 0 \in S
  BY <1>3
<1>5. ASSUME NEW n \in Nat, n \in S PROVE n + 1 \in S
  <2>1. SUFFICES ASSUME n + 1 <= Len(s.rows) PROVE Good(n + 1)
    OBVIOUS
  <2>2. Good(n) /\ n + 1 \in 1 .. Len(s.rows) /\ f[n + 1] = Applied(f[n], Row(s, n + 1))
    BY <1>1, <1>3, <1>5, <2>1
  <2>3. Row(s, n + 1).t = s.t
    BY DEF Row
  <2> QED
    BY <1>1, <2>2, <2>3, NumberRespects
<1> HIDE DEF S
<1>6. Nat \subseteq S
  BY <1>4, <1>5, InductionOnNat
<1> QED
  BY <1>1, <1>3, <1>6 DEF S

\* Two graphs, each in the other, are one.
LEMMA SameGraph ==
  ASSUME NEW g, NEW h, IsGraph(g), IsGraph(h), GraphIn(g, h), GraphIn(h, g)
  PROVE  g = h
<1>1. ASSUME NEW F, NEW G, IsMap(F), IsMap(G), AllIn(F, G), AllIn(G, F) PROVE F = G
  <2>1. DOMAIN F = DOMAIN G
    BY <1>1 DEF AllIn
  <2>2. ASSUME NEW x \in DOMAIN F PROVE F[x] = G[x]
    <3>1. PropsIn(F[x], G[x]) /\ PropsIn(G[x], F[x])
      BY <1>1, <2>1 DEF AllIn
    <3>2. DOMAIN F[x] = DOMAIN G[x] /\ \A f \in DOMAIN F[x] : F[x][f] = G[x][f]
      BY <3>1 DEF PropsIn
    <3>3. F[x] = [f \in DOMAIN F[x] |-> F[x][f]] /\ G[x] = [f \in DOMAIN G[x] |-> G[x][f]]
      BY <1>1, <2>1 DEF IsMap
    <3> QED
      BY <3>2, <3>3
  <2>3. F = [x \in DOMAIN F |-> F[x]] /\ G = [x \in DOMAIN G |-> G[x]]
    BY <1>1 DEF IsMap
  <2> QED
    BY <2>1, <2>2, <2>3
<1>2. g.edges = h.edges
  BY <1>1 DEF IsGraph, GraphIn
<1>3. \A l \in Labels : g.nodes[l] = h.nodes[l]
  BY <1>1 DEF IsGraph, GraphIn
<1>4. g.nodes = h.nodes
  <2>1. g.nodes = [l \in Labels |-> g.nodes[l]] /\ h.nodes = [l \in Labels |-> h.nodes[l]]
    BY DEF IsGraph
  <2>2. [l \in Labels |-> g.nodes[l]] = [l \in Labels |-> h.nodes[l]]
    BY <1>3
  <2> QED
    BY <2>1, <2>2
<1> QED
  BY <1>2, <1>4 DEF IsGraph

\* The empty store is in every graph.
LEMMA EmptyIsLeast ==
  /\ IsGraph(EmptyGraph(Labels))
  /\ \A g : GraphIn(EmptyGraph(Labels), g)
<1> DEFINE e == EmptyGraph(Labels)
<1>1. /\ e = [nodes |-> e.nodes, edges |-> e.edges] /\ e.edges = <<>>
      /\ e.nodes = [l \in Labels |-> e.nodes[l]] /\ \A l \in Labels : e.nodes[l] = <<>>
  BY DEF EmptyGraph
<1>2. DOMAIN <<>> = {} /\ <<>> = [x \in {} |-> <<>>[x]]
  OBVIOUS
<1>3. IsMap(<<>>) /\ \A G : AllIn(<<>>, G)
  BY <1>2 DEF IsMap, AllIn
<1> HIDE DEF e
<1>4. IsGraph(e)
  BY <1>1, <1>3 DEF IsGraph
<1>5. \A g : GraphIn(e, g)
  BY <1>1, <1>3 DEF GraphIn
<1> QED
  BY <1>4, <1>5 DEF e

-----------------------------------------------------------------------------
(* An undisturbed pass over an empty store, statement by statement. *)

\* The equation of the graphs in SentWhole, up to statement m.
Sendings(f, g, script, m) ==
  f = [n \in 0 .. m |->
         IF n = 0 THEN g ELSE The({ApplyBatch(x, script[n].t, script[n].rows) : x \in {f[n - 1]}})]
\* And in PassOver an empty store, up to dataset m.
CleanPass(f, has, m) ==
  f = [n \in 0 .. m |->
         IF n = 0 THEN EmptyGraph(Labels)
         ELSE IF Raises(Datasets[n], has) THEN f[n - 1]
              ELSE The({SentWhole(x, Scripts[has][Datasets[n]]) : x \in {f[n - 1]}})]

LEMMA TheOne == ASSUME NEW x PROVE The({x}) = x
BY DEF The

LEMMA SendingsExist ==
  ASSUME NEW g, NEW script, NEW m \in Nat
  PROVE  \E f : Sendings(f, g, script, m)
<1> DEFINE S == {n \in Nat : \E f : Sendings(f, g, script, n)}
           Step(x, n) == The({ApplyBatch(y, script[n].t, script[n].rows) : y \in {x}})
<1>1. 0 \in S
  <2> DEFINE f == [n \in 0 .. 0 |-> g]
  <2>1. f = [n \in 0 .. 0 |-> IF n = 0 THEN g ELSE Step(f[n - 1], n)]
    OBVIOUS
  <2>2. Sendings(f, g, script, 0)
    BY <2>1 DEF Sendings
  <2> QED
    BY <2>2
<1>2. ASSUME NEW n \in Nat, n \in S PROVE n + 1 \in S
  <2>1. PICK f : Sendings(f, g, script, n)
    BY <1>2
  <2> DEFINE next == Step(f[n], n + 1)
             h    == [i \in 0 .. n + 1 |-> IF i <= n THEN f[i] ELSE next]
  <2>2. \A i \in 0 .. n : f[i] = IF i = 0 THEN g ELSE Step(f[i - 1], i)
    BY <2>1 DEF Sendings
  <2> HIDE DEF Step
  <2>3. ASSUME NEW i \in 0 .. n + 1
        PROVE  h[i] = IF i = 0 THEN g ELSE Step(h[i - 1], i)
    <3>1. CASE i <= n
      <4>1. i \in 0 .. n /\ h[i] = f[i] /\ (i # 0 => i - 1 \in 0 .. n + 1 /\ h[i - 1] = f[i - 1])
        BY <3>1
      <4> QED
        BY <2>2, <4>1
    <3>2. CASE i = n + 1
      <4>1. h[i] = next /\ i # 0 /\ i - 1 = n /\ n \in 0 .. n + 1 /\ h[n] = f[n]
        BY <3>2
      <4> HIDE DEF h
      <4> QED
        BY <3>2, <4>1
    <3> QED
      BY <3>1, <3>2
  <2>4. h = [i \in 0 .. n + 1 |-> IF i = 0 THEN g ELSE Step(h[i - 1], i)]
    BY <2>3
  <2>5. Sendings(h, g, script, n + 1)
    BY <2>4 DEF Sendings, Step
  <2> QED
    BY <2>5
<1> HIDE DEF S
<1>3. Nat \subseteq S
  BY <1>1, <1>2, InductionOnNat
<1> QED
  BY <1>3 DEF S

LEMMA CleanPassExists ==
  ASSUME NEW has, NEW m \in Nat
  PROVE  \E f : CleanPass(f, has, m)
<1> DEFINE S == {n \in Nat : \E f : CleanPass(f, has, n)}
           Step(x, n) == IF Raises(Datasets[n], has) THEN x
                         ELSE The({SentWhole(y, Scripts[has][Datasets[n]]) : y \in {x}})
           g == EmptyGraph(Labels)
<1>1. 0 \in S
  <2> DEFINE f == [n \in 0 .. 0 |-> g]
  <2> HIDE DEF g, Step
  <2>1. f = [n \in 0 .. 0 |-> IF n = 0 THEN g ELSE Step(f[n - 1], n)]
    OBVIOUS
  <2>2. CleanPass(f, has, 0)
    BY <2>1 DEF CleanPass, Step, g
  <2> QED
    BY <2>2
<1>2. ASSUME NEW n \in Nat, n \in S PROVE n + 1 \in S
  <2>1. PICK f : CleanPass(f, has, n)
    BY <1>2
  <2> DEFINE next == Step(f[n], n + 1)
             h    == [i \in 0 .. n + 1 |-> IF i <= n THEN f[i] ELSE next]
  <2>0. f = [i \in 0 .. n |-> IF i = 0 THEN g ELSE Step(f[i - 1], i)]
    BY <2>1 DEF CleanPass
  <2> HIDE DEF Step, g
  <2>2. \A i \in 0 .. n : f[i] = IF i = 0 THEN g ELSE Step(f[i - 1], i)
    BY <2>0
  <2>3. ASSUME NEW i \in 0 .. n + 1
        PROVE  h[i] = IF i = 0 THEN g ELSE Step(h[i - 1], i)
    <3>1. CASE i <= n
      <4>1. i \in 0 .. n /\ h[i] = f[i] /\ (i # 0 => i - 1 \in 0 .. n + 1 /\ h[i - 1] = f[i - 1])
        BY <3>1
      <4> QED
        BY <2>2, <4>1
    <3>2. CASE i = n + 1
      <4>1. h[i] = next /\ i # 0 /\ i - 1 = n /\ n \in 0 .. n + 1 /\ h[n] = f[n]
        BY <3>2
      <4> HIDE DEF h
      <4> QED
        BY <3>2, <4>1
    <3> QED
      BY <3>1, <3>2
  <2>4. h = [i \in 0 .. n + 1 |-> IF i = 0 THEN g ELSE Step(h[i - 1], i)]
    BY <2>3
  <2>5. CleanPass(h, has, n + 1)
    BY <2>4 DEF CleanPass, Step, g
  <2> QED
    BY <2>5
<1> HIDE DEF S
<1>3. Nat \subseteq S
  BY <1>1, <1>2, InductionOnNat
<1> QED
  BY <1>3 DEF S

\* The graphs of a script sent on g, and those of an undisturbed pass.
SendRun(g, script) == CHOOSE f : Sendings(f, g, script, Len(script))
CleanRun(has)      == CHOOSE f : CleanPass(f, has, Len(Datasets))
\* Where the undisturbed pass stands after statement q of dataset i.
Stage(has, i, q) ==
  IF i = 0 THEN EmptyGraph(Labels)
  ELSE SendRun(CleanRun(has)[i - 1], Scripts[has][Datasets[i]])[q]

LEMMA SendRunIs ==
  ASSUME NEW g, NEW script, Len(script) \in Nat
  PROVE  /\ SendRun(g, script)[0] = g
         /\ SentWhole(g, script) = SendRun(g, script)[Len(script)]
         /\ \A n \in Nat : n + 1 <= Len(script) =>
              SendRun(g, script)[n + 1] = SentTo(SendRun(g, script)[n], script[n + 1])
<1> DEFINE f == SendRun(g, script)
<1>1. Sendings(f, g, script, Len(script))
  BY SendingsExist DEF SendRun
<1>2. SentWhole(g, script) = f[Len(script)]
  BY DEF SentWhole, After, SendRun, Sendings
<1> HIDE DEF f
<1>3. \A n \in 0 .. Len(script) :
        f[n] = IF n = 0 THEN g ELSE The({ApplyBatch(x, script[n].t, script[n].rows) : x \in {f[n - 1]}})
  BY <1>1 DEF Sendings
<1>4. ASSUME NEW n \in Nat, n + 1 <= Len(script) PROVE f[n + 1] = SentTo(f[n], script[n + 1])
  <2>1. n + 1 \in 0 .. Len(script) /\ n + 1 # 0 /\ (n + 1) - 1 = n
    BY <1>4
  <2>2. f[n + 1] = The({ApplyBatch(x, script[n + 1].t, script[n + 1].rows) : x \in {f[n]}})
    BY <1>3, <2>1
  <2>3. {ApplyBatch(x, script[n + 1].t, script[n + 1].rows) : x \in {f[n]}} = {SentTo(f[n], script[n + 1])}
    BY DEF SentTo
  <2> QED
    BY <2>2, <2>3, TheOne
<1>5. f[0] = g
  <2>1. 0 \in 0 .. Len(script)
    OBVIOUS
  <2> QED
    BY <1>3, <2>1
<1> QED
  BY <1>2, <1>4, <1>5 DEF f

LEMMA CleanRunIs ==
  ASSUME NEW has \in Disks
  PROVE  /\ CleanRun(has)[0] = EmptyGraph(Labels)
         /\ CleanGraphs[has] = CleanRun(has)[Len(Datasets)]
         /\ \A i \in 1 .. Len(Datasets) : Datasets[i] \in Sendable(has) =>
              CleanRun(has)[i] = SentWhole(CleanRun(has)[i - 1], Scripts[has][Datasets[i]])
<1> DEFINE f == CleanRun(has)
<1>0. Len(Datasets) \in Nat
  BY DEF Datasets
<1>1. CleanPass(f, has, Len(Datasets))
  BY <1>0, CleanPassExists DEF CleanRun
<1>2. CleanGraphs[has] = f[Len(Datasets)]
  BY DEF CleanGraphs, PassOver, After, CleanRun, CleanPass
<1> HIDE DEF f
<1>3. \A n \in 0 .. Len(Datasets) :
        f[n] = IF n = 0 THEN EmptyGraph(Labels)
               ELSE IF Raises(Datasets[n], has) THEN f[n - 1]
                    ELSE The({SentWhole(x, Scripts[has][Datasets[n]]) : x \in {f[n - 1]}})
  BY <1>1 DEF CleanPass
<1>4. ASSUME NEW i \in 1 .. Len(Datasets), Datasets[i] \in Sendable(has)
      PROVE  f[i] = SentWhole(f[i - 1], Scripts[has][Datasets[i]])
  <2>1. i \in 0 .. Len(Datasets) /\ i # 0 /\ ~Raises(Datasets[i], has)
    BY <1>0, <1>4 DEF Sendable
  <2>2. f[i] = The({SentWhole(x, Scripts[has][Datasets[i]]) : x \in {f[i - 1]}})
    BY <1>3, <2>1
  <2>3. {SentWhole(x, Scripts[has][Datasets[i]]) : x \in {f[i - 1]}}
          = {SentWhole(f[i - 1], Scripts[has][Datasets[i]])}
    OBVIOUS
  <2> QED
    BY <2>2, <2>3, TheOne
<1>5. f[0] = EmptyGraph(Labels)
  <2>1. 0 \in 0 .. Len(Datasets)
    BY <1>0
  <2> QED
    BY <1>3, <2>1
<1> QED
  BY <1>2, <1>4, <1>5 DEF f

-----------------------------------------------------------------------------
(* Where a run stands. *)

\* The datasets the run has come to, the script of the last one, and how many
\* of its statements have been sent.
Place == Len(chosen) - Len(todo)
Full  == Scripts[disk][at.name]
Done  == Len(Full) - Len(at.script)

\* The run is at some place in its list, and its adapter in its script.
AtIn ==
  /\ at.name = chosen[Place]
  /\ at.script \in Seq(Range(Full)) /\ Done \in Nat
  /\ \A k \in 1 .. Len(at.script) : at.script[k] = Full[Done + k]
RunIn ==
  /\ chosen \in Subsets \cup {Datasets} /\ Place \in Nat
  /\ \A k \in 1 .. Len(todo) : todo[k] = chosen[Place + k]
  /\ \A i \in 1 .. Place : chosen[i] \in Sendable(disk)
  /\ IF Place = 0 THEN at.script = <<>> ELSE AtIn
Names == STRING \cup Range(Datasets)
Position ==
  /\ disk \in Disks /\ chosen \in Seq(Names) /\ todo \in Seq(Names)
  /\ at = [name |-> at.name, script |-> at.script]
  /\ IF result = "running" THEN RunIn ELSE at.script = <<>>

\* The rows of a statement are rows of its adapter, and the other way round.
LEMMA RowsOf ==
  ASSUME NEW has, NEW name, \A s \in Range(Scripts[has][name]) : Statement(s)
  PROVE  \A x : x \in Rowed(name, has)
           <=> \E s \in Range(Scripts[has][name]) : \E n \in 1 .. Len(s.rows) : x = Row(s, n)
<1>1. ASSUME NEW s, Statement(s)
      PROVE  {[t |-> s.t, row |-> r] : r \in Range(s.rows)} = {Row(s, n) : n \in 1 .. Len(s.rows)}
  <2>1. DOMAIN s.rows = 1 .. Len(s.rows)
    BY <1>1, LenProperties DEF Statement
  <2> QED
    BY <2>1 DEF Range, Row
<1>2. \A x : x \in Rowed(name, has)
        <=> \E s \in Range(Scripts[has][name]) : x \in {[t |-> s.t, row |-> r] : r \in Range(s.rows)}
  BY DEF Rowed
<1> QED
  BY <1>1, <1>2

\* The statement a run sends next.
LEMMA Ahead ==
  ASSUME NEW most, FilesSettle(most), Position, result = "running", at.script # <<>>
  PROVE  /\ Place \in 1 .. Len(chosen) /\ at.name = chosen[Place]
         /\ at.name \in Sendable(disk) /\ Len(Full) \in Nat
         /\ at.script \in Seq(Range(Full)) /\ Len(at.script) \in Nat \ {0}
         /\ Done + 1 <= Len(Full) /\ Head(at.script) = Full[Done + 1]
         /\ Head(at.script) \in Range(Full) /\ Head(at.script) \in Range(at.script)
         /\ \A s \in Range(Full) : Statement(s)
<1>1. RunIn /\ disk \in Disks /\ chosen \in Seq(Names) /\ todo \in Seq(Names)
  BY DEF Position
<1>2. Place \in 1 .. Len(chosen) /\ AtIn
  <2>1. Place # 0 /\ AtIn /\ Place \in Nat
    BY <1>1 DEF RunIn
  <2>2. Len(chosen) \in Nat /\ Len(todo) \in Nat
    BY <1>1, LenProperties
  <2> QED
    BY <2>1, <2>2 DEF Place
<1>3. at.name = chosen[Place] /\ at.name \in Sendable(disk)
  BY <1>1, <1>2 DEF AtIn, RunIn
<1>4. Full \in Seq(Range(Full)) /\ \A s \in Range(Full) : Statement(s)
  BY <1>1, <1>3 DEF FilesSettle, ScriptsFit, Full, Statement
<1>5. Len(Full) \in Nat
  BY <1>4, LenProperties
<1>6. /\ at.script \in Seq(Range(Full)) /\ Done \in Nat
      /\ \A k \in 1 .. Len(at.script) : at.script[k] = Full[Done + k]
  BY <1>2 DEF AtIn
<1>7. Len(at.script) \in Nat \ {0} /\ DOMAIN at.script = 1 .. Len(at.script)
  BY <1>6, LenProperties, EmptySeq
<1>8. Head(at.script) = at.script[1] /\ 1 \in DOMAIN at.script
  BY <1>6, <1>7
<1>9. Head(at.script) = Full[Done + 1] /\ Done + 1 <= Len(Full)
  <2>1. 1 \in 1 .. Len(at.script)
    BY <1>7
  <2>2. Head(at.script) = Full[Done + 1]
    BY <1>6, <1>8, <2>1
  <2>3. \A a \in Nat, b \in Nat \ {0} : (a - b) + 1 <= a
    OBVIOUS
  <2>4. Done + 1 <= Len(Full)
    BY <1>5, <1>7, <2>3 DEF Done
  <2> QED
    BY <2>2, <2>4
<1>10. Head(at.script) \in Range(Full) /\ Head(at.script) \in Range(at.script)
  BY <1>6, <1>8 DEF Range
<1> QED
  BY <1>2, <1>3, <1>4, <1>5, <1>6, <1>7, <1>9, <1>10

\* Each of its rows has settled above and owns or borrows its node.
LEMMA AheadOwns ==
  ASSUME NEW most, FilesSettle(most), Position, result = "running", at.script # <<>>,
         NEW n \in 1 .. Len(Head(at.script).rows)
  PROVE  LET x == Row(Head(at.script), n)
         IN  /\ x \in AllRowed(disk) /\ Fits(x.t)
             /\ SettledIn(most[disk], x) /\ Owns(most[disk], x)
             /\ "macula_hebrew" \in disk =>
                  SettledIn(CleanGraphs[disk], x) /\ FindsAlike(most[disk], CleanGraphs[disk], x)
<1> DEFINE s == Head(at.script)
           x == Row(s, n)
<1>1. /\ Place \in 1 .. Len(chosen) /\ at.name = chosen[Place]
      /\ at.name \in Sendable(disk) /\ s \in Range(Full)
      /\ \A r \in Range(Full) : Statement(r)
  BY Ahead
<1>2. disk \in Disks /\ n \in 1 .. Len(s.rows)
  BY DEF Position
<1> HIDE DEF s
<1>3. x.t = s.t /\ Fits(x.t)
  BY <1>1 DEF Row, Statement
<1>4. x \in Rowed(at.name, disk)
  BY <1>1, <1>2, RowsOf DEF Full
<1> HIDE DEF x
<1>5. x \in AllRowed(disk)
  BY <1>1, <1>4 DEF AllRowed
<1>6. /\ SettledIn(most[disk], x) /\ Owns(most[disk], x)
      /\ "macula_hebrew" \in disk =>
           SettledIn(CleanGraphs[disk], x) /\ FindsAlike(most[disk], CleanGraphs[disk], x)
  BY <1>2, <1>5 DEF FilesSettle, Ceiling, Owns
<1> QED
  BY <1>3, <1>5, <1>6 DEF s, x

LEMMA IdleIs == Idle = [name |-> Idle.name, script |-> Idle.script] /\ Idle.script = <<>>
BY DEF Idle

LEMMA ListsAreSeqs == \A list \in Subsets \cup {Datasets} : list \in Seq(Names)
<1>1. DOMAIN Datasets = 1 .. 23 /\ Datasets = [i \in 1 .. 23 |-> Datasets[i]]
  BY DEF Datasets
<1>2. Datasets \in [1 .. 23 -> Range(Datasets)]
  BY <1>1 DEF Range
<1>3. Datasets \in Seq(Range(Datasets))
  BY <1>2, SeqDef
<1>4. Seq(Range(Datasets)) \subseteq Seq(Names) /\ Seq(STRING) \subseteq Seq(Names)
  BY SeqOfMore DEF Names
<1> QED
  BY <1>3, <1>4, ListsAssumption

LEMMA StartKeepsPosition ==
  ASSUME Position, NEW list \in Subsets \cup {Datasets}, Start(list)
  PROVE  Position' /\ Place' = 0 /\ result' = "running" /\ chosen' = list
<1>1. list \in Seq(Names) /\ Len(list) \in Nat
  BY ListsAreSeqs, LenProperties
<1>2. /\ todo' = list /\ chosen' = list /\ at' = Idle /\ result' = "running" /\ disk' = disk
      /\ disk \in Disks
  BY DEF Start, Position
<1>3. Place' = 0
  BY <1>1, <1>2 DEF Place
<1>4. RunIn'
  BY <1>1, <1>2, <1>3, IdleIs DEF RunIn
<1> QED
  BY <1>1, <1>2, <1>3, <1>4, IdleIs DEF Position

LEMMA LoadKeepsPosition ==
  ASSUME NEW most, FilesSettle(most), Position, Load
  PROVE  /\ Position' /\ Place' = Place + 1 /\ Done' = 0 /\ Place \in Nat
         /\ Place + 1 \in 1 .. Len(chosen)
         /\ at'.name = chosen[Place + 1] /\ at'.name \in Sendable(disk)
         /\ at'.script = Scripts[disk][at'.name] /\ at'.script \in Seq(Range(at'.script))
<1>1. /\ result = "running" /\ todo # <<>> /\ ~Raises(Head(todo), disk)
      /\ at' = [name |-> Head(todo), script |-> Scripts[disk][Head(todo)]]
      /\ todo' = Tail(todo) /\ chosen' = chosen /\ disk' = disk /\ result' = result
  BY DEF Load, Reading
<1>2. disk \in Disks /\ chosen \in Seq(Names) /\ todo \in Seq(Names) /\ RunIn
  BY <1>1 DEF Position
<1>3. /\ Len(chosen) \in Nat /\ Len(todo) \in Nat \ {0} /\ Tail(todo) \in Seq(Names)
      /\ Len(Tail(todo)) = Len(todo) - 1 /\ Head(todo) = todo[1]
      /\ \A k \in 1 .. Len(todo) - 1 : Tail(todo)[k] = todo[k + 1]
  BY <1>1, <1>2
<1>4. Place' = Place + 1 /\ Place + 1 \in 1 .. Len(chosen) /\ Place \in Nat
  BY <1>1, <1>2, <1>3 DEF Place, RunIn
<1>5. Head(todo) = chosen[Place + 1]
  <2>1. 1 \in 1 .. Len(todo)
    BY <1>3
  <2> QED
    BY <1>2, <1>3, <2>1 DEF RunIn
<1>6. Head(todo) \in Sendable(disk)
  BY <1>1 DEF Raises, Sendable
<1>7. Scripts[disk][Head(todo)] \in Seq(Range(Scripts[disk][Head(todo)]))
  BY <1>2, <1>6 DEF FilesSettle, ScriptsFit
<1>8. at'.name = Head(todo) /\ at'.script = Scripts[disk][Head(todo)]
      /\ at' = [name |-> at'.name, script |-> at'.script]
  BY <1>1
<1>9. Full' = at'.script
  BY <1>1, <1>8 DEF Full
<1>10. Len(at'.script) \in Nat
  BY <1>7, <1>8, LenProperties
<1>11. Done' = 0
  BY <1>9, <1>10 DEF Done
<1>12. AtIn'
  <2>1. \A k \in 1 .. Len(at'.script) : at'.script[k] = Full'[Done' + k]
    BY <1>9, <1>10, <1>11
  <2>2. at'.script \in Seq(Range(Full'))
    BY <1>7, <1>8, <1>9
  <2>3. at'.name = chosen'[Place']
    BY <1>1, <1>4, <1>5, <1>8
  <2> QED
    BY <1>11, <2>1, <2>2, <2>3 DEF AtIn
<1>13. RunIn'
  <2>1. \A k \in 1 .. Len(todo') : todo'[k] = chosen'[Place' + k]
    <3>1. SUFFICES ASSUME NEW k \in 1 .. Len(todo) - 1 PROVE todo[k + 1] = chosen[(Place + 1) + k]
      BY <1>1, <1>3, <1>4
    <3>2. k + 1 \in 1 .. Len(todo) /\ Place + (k + 1) = (Place + 1) + k
      BY <1>3, <1>4
    <3> QED
      BY <1>2, <3>2 DEF RunIn
  <2>2. \A i \in 1 .. Place' : chosen'[i] \in Sendable(disk')
    <3>1. SUFFICES ASSUME NEW i \in 1 .. Place + 1 PROVE chosen[i] \in Sendable(disk)
      BY <1>1, <1>4
    <3>2. CASE i = Place + 1
      BY <1>5, <1>6, <3>2
    <3>3. CASE i # Place + 1
      <4>1. i \in 1 .. Place
        BY <1>4, <3>3
      <4> QED
        BY <1>2, <4>1 DEF RunIn
    <3> QED
      BY <3>2, <3>3
  <2> QED
    BY <1>1, <1>2, <1>4, <1>12, <2>1, <2>2 DEF RunIn
<1> QED
  BY <1>1, <1>2, <1>3, <1>4, <1>5, <1>6, <1>7, <1>8, <1>11, <1>13 DEF Position

\* A statement that is let through.
Sends ==
  /\ result = "running" /\ at.script # <<>>
  /\ at' = [at EXCEPT !.script = Tail(@)]
  /\ UNCHANGED <<disk, todo, chosen, result>>

LEMMA SendKeepsPosition ==
  ASSUME NEW most, FilesSettle(most), Position, Sends
  PROVE  /\ Position' /\ Place' = Place /\ Done' = Done + 1 /\ Done \in Nat /\ Full' = Full
         /\ \A s : s \in Range(at.script) => s = Head(at.script) \/ s \in Range(at'.script)
<1>1. /\ result = "running" /\ at.script # <<>>
      /\ disk' = disk /\ todo' = todo /\ chosen' = chosen /\ result' = result
  BY DEF Sends
<1>2. /\ Place \in 1 .. Len(chosen) /\ at.name = chosen[Place] /\ Len(Full) \in Nat
      /\ at.script \in Seq(Range(Full)) /\ Len(at.script) \in Nat \ {0}
  BY <1>1, Ahead
<1>3. RunIn /\ disk \in Disks /\ chosen \in Seq(Names) /\ todo \in Seq(Names)
  BY <1>1 DEF Position
<1>4. at'.name = at.name /\ at'.script = Tail(at.script) /\ at' = [name |-> at'.name, script |-> at'.script]
  BY DEF Sends, Position
<1>5. Place' = Place /\ Full' = Full
  BY <1>1, <1>4 DEF Place, Full
<1>6. Place # 0 /\ AtIn
  <2>1. Len(chosen) \in Nat
    BY <1>3, LenProperties
  <2> QED
    BY <1>2, <1>3, <2>1 DEF RunIn
<1>7. /\ Tail(at.script) \in Seq(Range(Full)) /\ Len(Tail(at.script)) = Len(at.script) - 1
      /\ \A k \in 1 .. Len(at.script) - 1 : Tail(at.script)[k] = at.script[k + 1]
      /\ Head(at.script) = at.script[1]
  BY <1>1, <1>2
<1>8. Done' = Done + 1 /\ Done \in Nat
  <2>1. Len(at'.script) = Len(at.script) - 1
    BY <1>4, <1>7
  <2>2. Done' = Len(Full) - Len(at'.script) /\ Done = Len(Full) - Len(at.script)
    BY <1>5 DEF Done
  <2> QED
    BY <1>2, <1>6, <2>1, <2>2 DEF AtIn
<1>9. AtIn'
  <2>1. ASSUME NEW k \in 1 .. Len(at'.script) PROVE at'.script[k] = Full'[Done' + k]
    <3>1. k \in 1 .. Len(at.script) - 1 /\ k + 1 \in 1 .. Len(at.script)
      BY <1>2, <1>4, <1>7
    <3>2. at'.script[k] = Full[Done + (k + 1)]
      BY <1>4, <1>6, <1>7, <3>1 DEF AtIn
    <3>3. Done + (k + 1) = Done' + k
      BY <1>8
    <3> QED
      BY <1>5, <3>2, <3>3
  <2>2. Done' \in Nat
    BY <1>8
  <2>3. at'.script \in Seq(Range(Full')) /\ at'.name = chosen'[Place']
    BY <1>1, <1>2, <1>4, <1>5, <1>7
  <2> QED
    BY <2>1, <2>2, <2>3 DEF AtIn
<1>10. RunIn'
  BY <1>1, <1>3, <1>5, <1>6, <1>9 DEF RunIn
<1>11. Position'
  BY <1>1, <1>3, <1>4, <1>10 DEF Position
<1>12. ASSUME NEW s \in Range(at.script) PROVE s = Head(at.script) \/ s \in Range(at'.script)
  <2>1. PICK k \in 1 .. Len(at.script) : s = at.script[k]
    <3>1. DOMAIN at.script = 1 .. Len(at.script)
      BY <1>2, LenProperties
    <3> QED
      BY <3>1 DEF Range
  <2>2. CASE k = 1
    BY <1>7, <2>1, <2>2
  <2>3. CASE k # 1
    <3>1. k - 1 \in 1 .. Len(at.script) - 1 /\ (k - 1) + 1 = k
      BY <1>2, <2>3
    <3>2. s = Tail(at.script)[k - 1]
      BY <1>7, <2>1, <3>1
    <3>3. k - 1 \in DOMAIN Tail(at.script)
      BY <1>7, <3>1, LenProperties
    <3> QED
      BY <1>4, <3>2, <3>3 DEF Range
  <2> QED
    BY <2>2, <2>3
<1> QED
  BY <1>5, <1>8, <1>11, <1>12

\* A run ends, or none is on.
LEMMA RestKeepsPosition ==
  ASSUME Position, result' # "running", disk' \in Disks, chosen' = chosen,
         todo' = todo \/ todo' = <<>>,
         at' = Idle \/ (result # "running" /\ at' = at)
  PROVE  Position' /\ at'.script = <<>>
<1>1. chosen' \in Seq(Names) /\ todo' \in Seq(Names)
  <2>1. chosen \in Seq(Names) /\ todo \in Seq(Names) /\ <<>> \in Seq(Names)
    BY EmptySeq DEF Position
  <2> QED
    BY <2>1
<1>2. at' = [name |-> at'.name, script |-> at'.script] /\ at'.script = <<>>
  BY IdleIs DEF Position
<1> QED
  BY <1>1, <1>2 DEF Position

-----------------------------------------------------------------------------
(* The next statement, and the undisturbed pass. *)

LEMMA SendGrows ==
  ASSUME NEW most, FilesSettle(most), Position, result = "running", at.script # <<>>,
         NEW g, IsGraph(g), GraphIn(g, most[disk]), Quiet(g, Head(at.script))
  PROVE  LET h == SentTo(g, Head(at.script))
         IN  IsGraph(h) /\ GraphIn(g, h) /\ GraphIn(h, most[disk])
<1> DEFINE s == Head(at.script)
           u == most[disk]
<1>1. Statement(s)
  BY Ahead
<1>2. IsGraph(u) /\ "Lemma" \in Labels
  BY DEF Position, FilesSettle, Ceiling, LemmasSettle
<1>3. \A n \in 1 .. Len(s.rows) : SettledIn(u, Row(s, n)) /\ Owns(u, Row(s, n))
  BY AheadOwns
<1> HIDE DEF s, u
<1> QED
  BY <1>1, <1>2, <1>3, BatchGrows DEF s, u

\* The brief lexicon sends nothing else that is unique.
LEMMA AheadNumbers ==
  ASSUME NEW most, FilesSettle(most), Position, result = "running", at.script # <<>>,
         ByNumber(Head(at.script).t), NEW n \in 1 .. Len(Head(at.script).rows)
  PROVE  Numbers(Row(Head(at.script), n))
<1> DEFINE x == Row(Head(at.script), n)
<1>1. x \in AllRowed(disk) /\ disk \in Disks
  BY AheadOwns DEF Position
<1>2. x.t = NodeT("Lemma", "strong")
  BY DEF Row, ByNumber
<1> HIDE DEF x
<1>3. LemmaRow(x) /\ ~ById(x)
  BY <1>2 DEF LemmaRow, ById, NodeT
<1>4. /\ "strong" \in DOMAIN x.row /\ x.row.strong # Null
      /\ \A f \in DOMAIN x.row : <<"Lemma", f>> \in Unique => f = "strong"
  BY <1>1, <1>3 DEF FilesSettle, LemmasSettle
<1> QED
  BY <1>2, <1>4 DEF Numbers, ByNumber, x

\* A graph below most respects the constraints, and so does what becomes of it.
LEMMA NextRespects ==
  ASSUME NEW most, FilesSettle(most), Position, result = "running", at.script # <<>>,
         NEW g, IsGraph(g), GraphIn(g, most[disk])
  PROVE  Respects(SentTo(g, Head(at.script)), Unique)
<1> DEFINE s == Head(at.script)
           u == most[disk]
<1>1. /\ Statement(s) /\ disk \in Disks /\ Respects(u, Unique) /\ "Lemma" \in Labels
      /\ \A l \in Labels : IsFiniteSet(DOMAIN u.nodes[l])
  BY Ahead DEF Position, FilesSettle, Ceiling, LemmasSettle
<1>2. CASE Quiet(g, s)
  <2>1. GraphIn(SentTo(g, s), u)
    BY <1>2, SendGrows
  <2> QED
    BY <1>1, <2>1, RespectsBelow
<1>3. CASE ~Quiet(g, s)
  <2>1. \A n \in 1 .. Len(s.rows) : Numbers(Row(s, n))
    BY <1>3, AheadNumbers DEF Quiet
  <2>2. Respects(g, Unique)
    BY <1>1, RespectsBelow
  <2>3. Finite(g)
    <3>1. \A l \in Labels : DOMAIN g.nodes[l] \subseteq DOMAIN u.nodes[l]
      BY DEF GraphIn, AllIn
    <3> QED
      BY <1>1, <3>1, FS_Subset DEF Finite
  <2> HIDE DEF s
  <2> QED
    BY <1>1, <2>1, <2>2, <2>3, NumbersRespect DEF s
<1> QED
  BY <1>2, <1>3

LEMMA ScriptLen ==
  ASSUME ScriptsFit, NEW has \in Disks, NEW name \in Sendable(has)
  PROVE  Len(Scripts[has][name]) \in Nat
<1>1. Scripts[has][name] \in Seq(Range(Scripts[has][name]))
  BY DEF ScriptsFit
<1> QED
  BY <1>1, LenProperties

LEMMA StageLoads ==
  ASSUME ScriptsFit, NEW has \in Disks, NEW i \in Nat, NEW q, i + 1 \in 1 .. Len(Datasets),
         Datasets[i + 1] \in Sendable(has),
         i # 0 => Datasets[i] \in Sendable(has) /\ q = Len(Scripts[has][Datasets[i]])
  PROVE  Stage(has, i + 1, 0) = Stage(has, i, q)
<1>1. Stage(has, i + 1, 0) = CleanRun(has)[i]
  <2>1. i + 1 # 0 /\ (i + 1) - 1 = i
    OBVIOUS
  <2>2. Stage(has, i + 1, 0) = SendRun(CleanRun(has)[i], Scripts[has][Datasets[i + 1]])[0]
    BY <2>1 DEF Stage
  <2> QED
    BY <2>2, ScriptLen, SendRunIs
<1>2. CASE i = 0
  BY <1>1, <1>2, CleanRunIs DEF Stage
<1>3. CASE i # 0
  <2>1. Stage(has, i, q) = SentWhole(CleanRun(has)[i - 1], Scripts[has][Datasets[i]])
    BY <1>3, ScriptLen, SendRunIs DEF Stage
  <2>2. i \in 1 .. Len(Datasets)
    <3>1. Len(Datasets) \in Nat
      BY DEF Datasets
    <3> QED
      BY <1>3, <3>1
  <2> QED
    BY <1>1, <1>3, <2>1, <2>2, CleanRunIs
<1> QED
  BY <1>2, <1>3

LEMMA StageSends ==
  ASSUME ScriptsFit, NEW has \in Disks, NEW i \in Nat \ {0}, NEW n \in Nat,
         Datasets[i] \in Sendable(has), n + 1 <= Len(Scripts[has][Datasets[i]])
  PROVE  Stage(has, i, n + 1) = SentTo(Stage(has, i, n), Scripts[has][Datasets[i]][n + 1])
BY ScriptLen, SendRunIs DEF Stage

LEMMA StageEnds ==
  ASSUME ScriptsFit, NEW has \in Disks, NEW i, i = Len(Datasets), Datasets[i] \in Sendable(has),
         NEW q, q = Len(Scripts[has][Datasets[i]])
  PROVE  Stage(has, i, q) = CleanGraphs[has]
<1>1. i \in 1 .. Len(Datasets) /\ i # 0
  BY DEF Datasets
<1>2. Stage(has, i, q) = SentWhole(CleanRun(has)[i - 1], Scripts[has][Datasets[i]])
  BY <1>1, ScriptLen, SendRunIs DEF Stage
<1> QED
  BY <1>1, <1>2, CleanRunIs

-----------------------------------------------------------------------------
(* The inductive invariant. *)

\* As long as no lemma is early, what the store goes through is below most, and no
\* run is refused.
Bounded(most) ==
  /\ IsGraph(graph)
  /\ result = "refused" => Early
  /\ ~Early => GraphIn(graph, most[disk])
\* A whole pass keeps above what an undisturbed one has at the same place.
Above(p) == IsGraph(p) /\ (~EarlyIn(p) => GraphIn(p, graph))
WholeRun ==
  result = "running" /\ chosen = Datasets /\ ~Early => Above(Stage(disk, Place, Done))
\* The files of MACULA-Hebrew are there, and its lemmas came first.
InOrder == "macula_hebrew" \in disk /\ ~Early
Passed  == passed /\ InOrder => IsGraph(CleanGraphs[disk]) /\ GraphIn(CleanGraphs[disk], graph)
\* What was written from one disk is below what an undisturbed pass writes.
Written ==
  /\ \A d \in disks : d \subseteq disk
  /\ disks = {} => graph = EmptyGraph(Labels) /\ at.script = <<>>
OneDisk ==
  disks \subseteq {disk} /\ InOrder /\ IsGraph(CleanGraphs[disk]) =>
    GraphIn(graph, CleanGraphs[disk])
Inv(most) ==
  Position /\ Bounded(most) /\ WholeRun /\ Passed /\ Written /\ OneDisk

LEMMA InvInit == ASSUME NEW most, FilesSettle(most), Init PROVE Inv(most)
<1>1. /\ graph = EmptyGraph(Labels) /\ disk \in Disks /\ disks = {} /\ todo = <<>> /\ at = Idle
      /\ chosen = <<>> /\ result = "fresh" /\ passed = FALSE
  BY DEF Init
<1>2. Position
  BY <1>1, IdleIs, EmptySeq DEF Position
<1>3. Bounded(most)
  BY <1>1, EmptyIsLeast DEF Bounded
<1>4. Written
  BY <1>1, IdleIs DEF Written
<1> QED
  BY <1>1, <1>2, <1>3, <1>4, EmptyIsLeast DEF Inv, WholeRun, Passed, OneDisk

LEMMA StartKeeps ==
  ASSUME NEW most, FilesSettle(most), Inv(most), NEW list \in Subsets \cup {Datasets}, Start(list)
  PROVE  Inv(most)'
<1>1. /\ Position' /\ Place' = 0 /\ result' = "running" /\ chosen' = list
  BY StartKeepsPosition DEF Inv
<1>2. /\ graph' = graph /\ disk' = disk /\ disks' = disks /\ passed' = passed
      /\ at' = Idle
  BY DEF Start
<1>3. Bounded(most)'
  BY <1>1, <1>2 DEF Bounded, Inv, Early
<1>4. WholeRun'
  <2>1. Stage(disk', Place', Done') = EmptyGraph(Labels)
    BY <1>1 DEF Stage
  <2> QED
    BY <2>1, EmptyIsLeast DEF WholeRun, Above
<1>5. Passed' /\ OneDisk' /\ Written'
  BY <1>2, IdleIs DEF Inv, Passed, OneDisk, Written, InOrder, Early
<1> QED
  BY <1>1, <1>3, <1>4, <1>5 DEF Inv

LEMMA LoadKeeps ==
  ASSUME NEW most, FilesSettle(most), Inv(most), Load PROVE Inv(most)'
<1>1. /\ Position' /\ Place' = Place + 1 /\ Done' = 0 /\ Place \in Nat
      /\ Place + 1 \in 1 .. Len(chosen)
      /\ at'.name = chosen[Place + 1] /\ at'.name \in Sendable(disk)
      /\ at'.script = Scripts[disk][at'.name]
  BY LoadKeepsPosition DEF Inv
<1>2. /\ graph' = graph /\ disk' = disk /\ disks' = disks \cup {disk} /\ passed' = passed
      /\ chosen' = chosen /\ result' = result /\ result = "running" /\ at.script = <<>>
  BY DEF Load, Reading
<1>3. Bounded(most)'
  BY <1>2 DEF Bounded, Inv, Early
<1>4. WholeRun'
  <2>1. SUFFICES ASSUME chosen = Datasets, ~Early
                 PROVE  Above(Stage(disk, Place, Done)) /\ Stage(disk', Place', Done') = Stage(disk, Place, Done)
    BY <1>2 DEF WholeRun, Above, Early
  <2>2. RunIn /\ disk \in Disks
    BY <1>2 DEF Inv, Position
  <2>3. ASSUME Place # 0 PROVE Datasets[Place] \in Sendable(disk) /\ Done = Len(Scripts[disk][Datasets[Place]])
    <3>1. AtIn /\ at.name = Datasets[Place] /\ Place \in 1 .. Place
      BY <1>1, <2>1, <2>2, <2>3 DEF RunIn, AtIn
    <3>2. Datasets[Place] \in Sendable(disk)
      BY <2>1, <2>2, <3>1 DEF RunIn
    <3>3. Len(Scripts[disk][Datasets[Place]]) \in Nat
      BY <2>2, <3>2, ScriptLen DEF FilesSettle
    <3>4. Done = Len(Scripts[disk][Datasets[Place]])
      BY <1>2, <3>1, <3>3 DEF Done, Full
    <3> QED
      BY <3>2, <3>4
  <2>4. Stage(disk, Place + 1, 0) = Stage(disk, Place, Done)
    BY <1>1, <2>1, <2>2, <2>3, StageLoads DEF FilesSettle
  <2> QED
    BY <1>1, <1>2, <2>1, <2>4 DEF Inv, WholeRun
<1>5. Passed' /\ OneDisk' /\ Written'
  <2>1. disk \in disks' /\ disks \subseteq disks'
    BY <1>2
  <2> QED
    BY <1>2, <2>1 DEF Inv, Passed, OneDisk, Written, InOrder, Early
<1> QED
  BY <1>1, <1>3, <1>4, <1>5 DEF Inv

\* A statement that is let through leaves an early lemma early.
LEMMA SendKeeps ==
  ASSUME NEW most, FilesSettle(most), Inv(most), Send
  PROVE  /\ Inv(most)' /\ (Early => Early')
         /\ ~Early' => /\ GraphIn(graph, graph')
                       /\ graph' = SentTo(graph, Head(at.script)) /\ Quiet(graph, Head(at.script))
<1> DEFINE s    == Head(at.script)
           u    == most[disk]
           next == SentTo(graph, s)
           p    == Stage(disk, Place, Done)
           c    == CleanGraphs[disk]
<1>1. /\ result = "running" /\ at.script # <<>>
      /\ disk' = disk /\ disks' = disks /\ passed' = passed /\ chosen' = chosen
      /\ Position /\ disk \in Disks /\ disks # {}
  BY DEF Send, Inv, Position, Written
<1>2. /\ IsGraph(graph) /\ IsGraph(u) /\ "Lemma" \in Labels
      /\ ~Early => GraphIn(graph, u)
  BY <1>1 DEF Inv, Bounded, FilesSettle, Ceiling, LemmasSettle
<1>3. /\ Place \in 1 .. Len(chosen) /\ at.name = chosen[Place] /\ at.name \in Sendable(disk)
      /\ Done + 1 <= Len(Full) /\ s = Full[Done + 1] /\ Statement(s)
  BY <1>1, Ahead
<1>4. IsGraph(next) /\ Wider(graph, next)
  BY <1>2, <1>3, SentIsWider
<1>5. Early => EarlyIn(next)
  BY <1>2, <1>4, EarlyStays DEF Early
<1>6. \/ graph' = next /\ Sends
      \/ graph' = graph /\ todo' = <<>> /\ at' = Idle /\ result' = "refused" /\ ~Respects(next, Unique)
  <2>1. PICK n \in {Sent(Head(at.script))} :
           IF Respects(n, Unique)
           THEN /\ graph' = n /\ at' = [at EXCEPT !.script = Tail(@)]
                /\ UNCHANGED <<todo, result>>
           ELSE /\ todo' = <<>> /\ at' = Idle /\ result' = "refused"
                /\ UNCHANGED graph
    BY DEF Send
  <2>2. n = next
    BY DEF Sent, SentTo
  <2> QED
    BY <1>1, <2>1, <2>2 DEF Sends
<1>7. CASE graph' = graph /\ todo' = <<>> /\ at' = Idle /\ result' = "refused" /\ ~Respects(next, Unique)
  <2>1. Early
    BY <1>1, <1>2, <1>7, NextRespects
  <2>2. Position' /\ at'.script = <<>>
    BY <1>1, <1>7, RestKeepsPosition
  <2>3. Early' /\ Bounded(most)'
    BY <1>2, <1>7, <2>1 DEF Bounded, Early
  <2>4. WholeRun' /\ Passed' /\ OneDisk' /\ Written'
    BY <1>1, <1>7, <2>3 DEF Inv, WholeRun, Passed, OneDisk, Written, InOrder
  <2> QED
    BY <2>1, <2>2, <2>3, <2>4 DEF Inv
<1>8. CASE graph' = next /\ Sends
  <2>1. Position' /\ Place' = Place /\ Done' = Done + 1 /\ Done \in Nat
    BY <1>1, <1>8, SendKeepsPosition
  <2>2. result' = "running" /\ IsGraph(graph')
    BY <1>1, <1>4, <1>8 DEF Sends
  <2>3. (Early => Early') /\ Written'
    BY <1>1, <1>5, <1>8 DEF Early, Inv, Written
  <2>4. CASE Early'
    BY <1>1, <2>1, <2>2, <2>3, <2>4 DEF Inv, Bounded, WholeRun, Passed, OneDisk, InOrder
  <2>5. CASE ~Early'
    <3>1. ~EarlyIn(next) /\ ~Early /\ Quiet(graph, s)
      BY <1>8, <2>3, <2>5 DEF Early, Quiet
    <3>2. GraphIn(graph, u) /\ GraphIn(graph, next) /\ GraphIn(next, u)
      BY <1>1, <1>2, <3>1, SendGrows
    <3>3. Bounded(most)'
      BY <1>1, <1>8, <2>2, <3>2 DEF Bounded
    <3>4. \A n \in 1 .. Len(s.rows) :
            /\ SettledIn(u, Row(s, n)) /\ Owns(u, Row(s, n))
            /\ "macula_hebrew" \in disk => SettledIn(c, Row(s, n)) /\ FindsAlike(u, c, Row(s, n))
      BY <1>1, AheadOwns
    <3> HIDE DEF s, u, next, p, c
    <3>5. WholeRun'
      <4> DEFINE a == SentTo(p, s)
                 q == Stage(disk', Place', Done')
      <4>1. SUFFICES ASSUME chosen = Datasets PROVE IsGraph(q) /\ (~EarlyIn(q) => GraphIn(q, graph'))
        BY <1>1 DEF WholeRun, Above
      <4>0. q = a
        <5>1. Place \in Nat \ {0}
          BY <1>1, <1>3 DEF Position, RunIn
        <5>2. Datasets[Place] \in Sendable(disk) /\ Full = Scripts[disk][Datasets[Place]]
          BY <1>3, <4>1 DEF Full
        <5> QED
          BY <1>1, <1>3, <2>1, <5>1, <5>2, StageSends DEF FilesSettle, p
      <4>2. IsGraph(p) /\ (~EarlyIn(p) => GraphIn(p, graph))
        BY <1>1, <3>1, <4>1 DEF Inv, WholeRun, Above, p
      <4>3. IsGraph(SentTo(p, s)) /\ Wider(p, SentTo(p, s))
        BY <1>3, <4>2, SentIsWider
      <4>4. ASSUME ~EarlyIn(SentTo(p, s)) PROVE GraphIn(SentTo(p, s), next)
        <5>1. GraphIn(p, graph)
          BY <1>2, <4>2, <4>3, <4>4, EarlyStays
        <5>2. Quiet(p, s)
          BY <4>4 DEF Quiet
        <5> QED
          BY <1>2, <1>3, <3>1, <3>2, <3>4, <4>2, <5>1, <5>2, BatchBelow DEF next
      <4> QED
        BY <1>8, <4>0, <4>3, <4>4
    <3>6. Passed'
      <4>1. SUFFICES ASSUME passed, "macula_hebrew" \in disk PROVE IsGraph(c) /\ GraphIn(c, next)
        BY <1>1, <1>8 DEF Passed, InOrder, c
      <4>2. IsGraph(c) /\ GraphIn(c, graph)
        BY <3>1, <4>1 DEF Inv, Passed, InOrder, c
      <4> QED
        BY <3>2, <4>2, GraphTransitive
    <3>7. OneDisk'
      <4>1. SUFFICES ASSUME disks \subseteq {disk}, "macula_hebrew" \in disk, IsGraph(c)
                     PROVE  GraphIn(next, c)
        BY <1>1, <1>8 DEF OneDisk, InOrder, c
      <4>2. GraphIn(graph, c)
        BY <3>1, <4>1 DEF Inv, OneDisk, InOrder, c
      <4>3. ASSUME NEW n \in 1 .. Len(s.rows)
            PROVE  SettledIn(c, Row(s, n)) /\ Owns(c, Row(s, n))
        <5>1. SettledIn(c, Row(s, n)) /\ FindsAlike(u, c, Row(s, n)) /\ Owns(u, Row(s, n))
          BY <3>4, <4>1
        <5> QED
          BY <5>1 DEF FindsAlike, Owns, OwnNode
      <4> QED
        BY <1>2, <1>3, <3>1, <4>1, <4>2, <4>3, BatchGrows DEF next
    <3> QED
      BY <1>8, <2>1, <2>3, <3>1, <3>2, <3>3, <3>5, <3>6, <3>7 DEF Inv, next, s
  <2> QED
    BY <2>4, <2>5
<1> QED
  BY <1>6, <1>7, <1>8

\* A whole pass ends above what an undisturbed one ends with.
LEMMA FinishKeeps ==
  ASSUME NEW most, FilesSettle(most), Inv(most), Finish PROVE Inv(most)'
<1>1. /\ result = "running" /\ at.script = <<>> /\ todo = <<>> /\ at' = Idle /\ result' = "ok"
      /\ passed' = (passed \/ chosen = Datasets)
      /\ graph' = graph /\ disk' = disk /\ todo' = todo /\ chosen' = chosen /\ disks' = disks
      /\ Position /\ disk \in Disks
  BY DEF Finish, Reading, Inv, Position
<1>2. Position' /\ at'.script = <<>>
  BY <1>1, RestKeepsPosition
<1>3. ASSUME chosen = Datasets, InOrder
      PROVE  IsGraph(CleanGraphs[disk]) /\ GraphIn(CleanGraphs[disk], graph)
  <2>1. RunIn
    BY <1>1 DEF Position
  <2>2. Place = Len(Datasets) /\ Place \in Nat \ {0}
    <3>1. Len(todo) = 0 /\ Len(Datasets) = 23
      BY <1>1 DEF Datasets
    <3> QED
      BY <1>3, <3>1 DEF Place
  <2>3. Datasets[Place] \in Sendable(disk) /\ AtIn /\ at.name = Datasets[Place]
    BY <1>3, <2>1, <2>2 DEF RunIn, AtIn
  <2>4. Done = Len(Scripts[disk][Datasets[Place]])
    <3>1. Len(Scripts[disk][Datasets[Place]]) \in Nat
      BY <1>1, <2>3, ScriptLen DEF FilesSettle
    <3> QED
      BY <1>1, <2>3, <3>1 DEF Done, Full
  <2>5. Stage(disk, Place, Done) = CleanGraphs[disk]
    BY <1>1, <2>2, <2>3, <2>4, StageEnds DEF FilesSettle
  <2>6. ~EarlyIn(CleanGraphs[disk])
    BY <1>1, <1>3 DEF FilesSettle, Ceiling, InOrder
  <2> QED
    BY <1>1, <1>3, <2>5, <2>6 DEF Inv, WholeRun, Above, InOrder
<1>4. Bounded(most)' /\ WholeRun'
  BY <1>1 DEF Inv, Bounded, WholeRun, Early
<1>5. Passed' /\ OneDisk' /\ Written'
  BY <1>1, <1>2, <1>3 DEF Inv, Passed, OneDisk, Written, InOrder, Early
<1> QED
  BY <1>2, <1>4, <1>5 DEF Inv

LEMMA EndKeeps ==
  ASSUME NEW most, FilesSettle(most), Inv(most), RaiseOnLoad \/ Stop PROVE Inv(most)'
<1>1. /\ result' = "stopped" /\ todo' = <<>> /\ at' = Idle
      /\ graph' = graph /\ disk' = disk /\ chosen' = chosen /\ disks' = disks /\ passed' = passed
      /\ Position /\ disk \in Disks
  BY DEF RaiseOnLoad, Stop, Inv, Position
<1>2. Position' /\ at'.script = <<>>
  BY <1>1, RestKeepsPosition
<1>3. Bounded(most)' /\ WholeRun'
  BY <1>1 DEF Inv, Bounded, WholeRun, Early
<1>4. Passed' /\ OneDisk' /\ Written'
  BY <1>1, <1>2 DEF Inv, Passed, OneDisk, Written, InOrder, Early
<1> QED
  BY <1>2, <1>3, <1>4 DEF Inv

LEMMA AddFilesKeeps ==
  ASSUME NEW most, FilesSettle(most), Inv(most), AddFiles PROVE Inv(most)'
<1>1. /\ result # "running" /\ result' = result /\ todo' = todo /\ at' = at /\ chosen' = chosen
      /\ graph' = graph /\ disks' = disks /\ passed' = FALSE
      /\ disk' \in Disks /\ disk \subseteq disk' /\ disk # disk'
      /\ Position /\ disk \in Disks
  BY DEF AddFiles, Inv, Position
<1>2. Position' /\ at'.script = <<>>
  BY <1>1, RestKeepsPosition
<1>3. Bounded(most)'
  <2>1. ASSUME ~Early PROVE GraphIn(graph, most[disk'])
    <3>1. GraphIn(graph, most[disk]) /\ GraphIn(most[disk], most[disk'])
      BY <1>1, <2>1 DEF Inv, Bounded, FilesSettle, Ceiling
    <3> QED
      BY <3>1, GraphTransitive
  <2> QED
    BY <1>1, <2>1 DEF Inv, Bounded, Early
<1>4. Written' /\ Passed' /\ WholeRun'
  BY <1>1, <1>2 DEF Inv, Written, Passed, WholeRun
<1>5. OneDisk'
  <2>1. SUFFICES ASSUME disks \subseteq {disk'} PROVE GraphIn(graph, CleanGraphs[disk'])
    BY <1>1 DEF OneDisk
  <2>2. disk' \notin disks
    BY <1>1 DEF Inv, Written
  <2>3. disks = {}
    BY <2>1, <2>2
  <2> QED
    BY <2>3, EmptyIsLeast DEF Inv, Written
<1> QED
  BY <1>2, <1>3, <1>4, <1>5 DEF Inv

LEMMA StutterKeeps ==
  ASSUME NEW most, Inv(most), UNCHANGED vars PROVE Inv(most)'
<1>1. /\ graph' = graph /\ disk' = disk /\ todo' = todo /\ at' = at /\ chosen' = chosen
      /\ result' = result /\ disks' = disks /\ passed' = passed
  BY DEF vars
<1>2. Place' = Place /\ Done' = Done /\ Full' = Full
  BY <1>1 DEF Place, Done, Full
<1>3. Position'
  BY <1>1, <1>2 DEF Inv, Position, RunIn, AtIn
<1> QED
  BY <1>1, <1>2, <1>3 DEF Inv, Bounded, WholeRun, Above, Passed, Written, OneDisk, InOrder, Early

\* A row of the disk's that is sent after a whole pass changes nothing.
LEMMA SendIsIdle ==
  ASSUME NEW most, FilesSettle(most), Inv(most), Send, passed, InOrder PROVE graph' = graph
<1> DEFINE s == Head(at.script)
           u == most[disk]
           c == CleanGraphs[disk]
<1>1. /\ result = "running" /\ at.script # <<>> /\ Position /\ disk \in Disks
      /\ IsGraph(graph) /\ GraphIn(graph, u) /\ IsGraph(u)
      /\ IsGraph(c) /\ GraphIn(c, graph)
  BY DEF Send, Inv, Position, Bounded, Passed, FilesSettle, Ceiling, InOrder
<1>2. Statement(s)
  BY <1>1, Ahead
<1>3. ASSUME NEW n \in 1 .. Len(s.rows) PROVE SettledIn(graph, Row(s, n))
  <2> DEFINE x == Row(s, n)
  <2>1. Fits(x.t) /\ SettledIn(u, x) /\ SettledIn(c, x) /\ FindsAlike(u, c, x)
    BY <1>1, AheadOwns DEF InOrder
  <2> HIDE DEF x, u, c
  <2> QED
    BY <1>1, <2>1, RowBetween DEF x
<1>4. SentTo(graph, s) = graph
  BY <1>2, <1>3, BatchIdle
<1> QED
  BY <1>4 DEF Send, Sent, SentTo

LEMMA InvNext == ASSUME NEW most, FilesSettle(most), Inv(most), [Next]_vars PROVE Inv(most)'
<1>1. CASE \E list \in Subsets \cup {Datasets} : Start(list)
  BY <1>1, StartKeeps
<1>2. CASE Load
  BY <1>2, LoadKeeps
<1>3. CASE Send
  BY <1>3, SendKeeps
<1>4. CASE Finish
  BY <1>4, FinishKeeps
<1>5. CASE RaiseOnLoad \/ Stop
  BY <1>5, EndKeeps
<1>6. CASE AddFiles
  BY <1>6, AddFilesKeeps
<1>7. CASE UNCHANGED vars
  BY <1>7, StutterKeeps
<1> QED
  BY <1>1, <1>2, <1>3, <1>4, <1>5, <1>6, <1>7 DEF Next

LEMMA OnlySendWrites == ASSUME [Next]_vars, ~Send PROVE graph' = graph
<1>1. ASSUME NEW list, Start(list) PROVE graph' = graph
  BY <1>1 DEF Start
<1> QED
  BY <1>1 DEF Next, vars, Load, RaiseOnLoad, Finish, Stop, AddFiles

-----------------------------------------------------------------------------
(* Finite sets as sequences. *)

\* A finite set as a sequence.
LEMMA RangeIsFinite == ASSUME NEW S, NEW q \in Seq(S) PROVE IsFiniteSet(Range(q))
<1> DEFINE n == Len(q)
<1>1. n \in Nat /\ DOMAIN q = 1 .. n /\ q = [i \in 1 .. n |-> q[i]]
  BY LenProperties
<1> HIDE DEF n
<1>2. IsFiniteSet(1 .. n)
  <2>1. 1 \in Int /\ n \in Int
    BY <1>1
  <2>2. \A a, b \in Int : IsFiniteSet(a .. b)
    BY FS_Interval
  <2> QED
    BY <2>1, <2>2
<1>3. q \in Surjection(1 .. n, Range(q))
  BY <1>1 DEF Surjection, Range
<1> HIDE DEF Range
<1> QED
  BY <1>2, <1>3, FS_Surjection

LEMMA SetAsSeq ==
  ASSUME NEW S, IsFiniteSet(S)
  PROVE  SetToSeq(S) \in Seq(S) /\ Range(SetToSeq(S)) = S
<1> DEFINE n == Cardinality(S)
           q == SetToSeq(S)
<1>1. n \in Nat /\ ExistsBijection(1 .. n, S)
  BY FS_CardinalityType
<1>2. PICK b : b \in Bijection(1 .. n, S)
  BY <1>1 DEF ExistsBijection
<1>3. b \in [1 .. n -> S] /\ IsInjective(b)
  BY <1>2 DEF Bijection, Injection, IsInjective
<1>4. q \in [1 .. n -> S] /\ IsInjective(q)
  BY <1>3 DEF SetToSeq
<1> HIDE DEF q
<1>5. q \in Injection(1 .. n, S)
  BY <1>4 DEF Injection, IsInjective
<1>6. IsFiniteSet(1 .. n) /\ Cardinality(1 .. n) = n
  <2> HIDE DEF n
  <2> QED
    BY <1>1, FS_Interval
<1>7. q \in Surjection(1 .. n, S)
  BY <1>5, <1>6, FS_Injection
<1> HIDE DEF n
<1>8. q \in Seq(S)
  BY <1>1, <1>4, SeqDef
<1>9. Range(q) = S
  BY <1>7 DEF Surjection, Range
<1> QED
  BY <1>8, <1>9 DEF q

-----------------------------------------------------------------------------
(* What a script sends. *)

\* Each list of an adapter goes with its template, all of it and nothing else.
LEMMA BatchedIs ==
  ASSUME NEW t, NEW S, NEW rows \in Seq(S)
  PROVE  /\ Batched(t, rows) \in Seq(Range(Batched(t, rows)))
         /\ \A s \in Range(Batched(t, rows)) : s.t = t /\ Range(s.rows) \subseteq Range(rows)
         /\ \A x \in Range(rows) : \E s \in Range(Batched(t, rows)) : s.t = t /\ x \in Range(s.rows)
<1> DEFINE C == Chunks(rows)
           B == Batched(t, rows)
<1>1. C = CutUp(rows, BATCH_SIZE)
  BY DEF Chunks, CutUp, EndOf, MinOf
<1> HIDE DEF C
<1>2. /\ C \in Seq(Seq(S))
      /\ \A b \in Range(C) : Range(b) \subseteq Range(rows)
      /\ \A x \in Range(rows) : \E b \in Range(C) : x \in Range(b)
  BY <1>1, BatchAssumption, CutUpHolds
<1>3. B = [i \in DOMAIN C |-> [t |-> t, rows |-> C[i]]]
  BY DEF Batched, C
<1> HIDE DEF B
<1>4. DOMAIN B = DOMAIN C /\ \A i \in DOMAIN C : B[i].t = t /\ B[i].rows = C[i]
  BY <1>3
<1>5. B \in [DOMAIN C -> Range(B)]
  BY <1>3 DEF Range
<1>6. B \in Seq(Range(B))
  BY <1>2, <1>5, EachOf
<1>7. \A s \in Range(B) : s.t = t /\ s.rows \in Range(C)
  BY <1>4 DEF Range
<1>8. \A b \in Range(C) : \E s \in Range(B) : s.t = t /\ s.rows = b
  BY <1>4 DEF Range
<1> HIDE DEF Range
<1>9. \A s \in Range(B) : s.t = t /\ Range(s.rows) \subseteq Range(rows)
  BY <1>2, <1>7
<1>10. \A x \in Range(rows) : \E s \in Range(B) : s.t = t /\ x \in Range(s.rows)
  <2>1. SUFFICES ASSUME NEW x \in Range(rows)
                 PROVE  \E s \in Range(B) : s.t = t /\ x \in Range(s.rows)
    OBVIOUS
  <2>2. PICK b \in Range(C) : x \in Range(b)
    BY <1>2
  <2>3. PICK s \in Range(B) : s.t = t /\ s.rows = b
    BY <1>8
  <2> QED
    BY <2>2, <2>3
<1> QED
  BY <1>6, <1>9, <1>10 DEF B

LEMMA ScriptSends ==
  ASSUME NEW S, NEW order \in Seq(S), NEW templates, NEW rows,
         \A n \in S : rows[n] \in Seq(Range(rows[n]))
  PROVE  /\ \A s \in Range(Script(order, templates, rows)) : \E n \in Range(order) :
              s.t = templates[n] /\ Range(s.rows) \subseteq Range(rows[n])
         /\ \A n \in Range(order) : \A x \in Range(rows[n]) :
              \E s \in Range(Script(order, templates, rows)) :
                s.t = templates[n] /\ x \in Range(s.rows)
<1> DEFINE f == [i \in DOMAIN order |-> Batched(templates[order[i]], rows[order[i]])]
           T == UNION {Range(Batched(templates[n], rows[n])) : n \in S}
           q == Script(order, templates, rows)
<1>1. q = FlattenSeq(f)
  BY DEF Script, EachAll, Each
<1>2. \A i \in DOMAIN order : order[i] \in S
  BY ElementOfSeq, LenProperties
<1>3. ASSUME NEW i \in DOMAIN order PROVE Batched(templates[order[i]], rows[order[i]]) \in Seq(T)
  <2> DEFINE B == Batched(templates[order[i]], rows[order[i]])
  <2>1. B \in Seq(Range(B)) /\ Range(B) \subseteq T
    <3>1. rows[order[i]] \in Seq(Range(rows[order[i]]))
      BY <1>2
    <3>2. B \in Seq(Range(B))
      BY <3>1, BatchedIs
    <3> HIDE DEF Range
    <3> QED
      BY <1>2, <3>2
  <2> HIDE DEF B, T
  <2> QED
    BY <2>1, SeqOfMore DEF B
<1>4. f \in [DOMAIN order -> Seq(T)] /\ \A i \in DOMAIN order : f[i] = Batched(templates[order[i]], rows[order[i]])
  <2> HIDE DEF T
  <2> QED
    BY <1>3
<1> HIDE DEF f, T, q
<1>5. \A x : x \in Range(q) <=> \E i \in DOMAIN order : x \in Range(f[i])
  BY <1>1, <1>4, FlattenOf
<1>6. /\ \A i \in DOMAIN order : order[i] \in Range(order)
      /\ \A n \in Range(order) : \E i \in DOMAIN order : n = order[i]
  BY DEF Range
<1> HIDE DEF Range
<1>7. ASSUME NEW s \in Range(q)
      PROVE  \E n \in Range(order) : s.t = templates[n] /\ Range(s.rows) \subseteq Range(rows[n])
  <2>1. PICK i \in DOMAIN order : s \in Range(Batched(templates[order[i]], rows[order[i]]))
    BY <1>4, <1>5
  <2>2. rows[order[i]] \in Seq(Range(rows[order[i]]))
    BY <1>2
  <2>3. s.t = templates[order[i]] /\ Range(s.rows) \subseteq Range(rows[order[i]])
    BY <2>1, <2>2, BatchedIs
  <2> QED
    BY <1>6, <2>3
<1>8. ASSUME NEW n \in Range(order), NEW x \in Range(rows[n])
      PROVE  \E s \in Range(q) : s.t = templates[n] /\ x \in Range(s.rows)
  <2>1. PICK i \in DOMAIN order : n = order[i]
    BY <1>6
  <2>2. rows[n] \in Seq(Range(rows[n]))
    BY <1>2, <2>1
  <2>3. PICK s \in Range(Batched(templates[n], rows[n])) : s.t = templates[n] /\ x \in Range(s.rows)
    BY <2>2, BatchedIs
  <2>4. s \in Range(q)
    BY <1>4, <1>5, <2>1, <2>3
  <2> QED
    BY <2>3, <2>4
<1> QED
  BY <1>7, <1>8 DEF q

-----------------------------------------------------------------------------
(* The collation of 3 John: what its rows are. *)

AppReading == [name : STRING, witnesses : Seq(CbgmToken)]
AppUnits   == {UnitOf(a) : a \in CbgmApp}

LEMMA UnitsAre ==
  CbgmUnits \in Seq(AppUnits) /\ \A u \in AppUnits : u.readings \in Seq(AppReading)
<1> DEFINE Kept(a) == a.chapter = CHAPTER /\ a.verse \in VERSE_MIN .. VERSE_MAX /\ a.readings # <<>>
           f == [i \in DOMAIN CbgmApps |-> IF Kept(CbgmApps[i]) THEN <<UnitOf(CbgmApps[i])>> ELSE <<>>]
<1>1. CbgmUnits = FlattenSeq(f)
  BY DEF CbgmUnits, EachAll, Each, When
<1> HIDE DEF Kept
<1>2. \A i \in DOMAIN CbgmApps : CbgmApps[i] \in CbgmApp
  BY CollationAssumption, ElementOfSeq, LenProperties
<1>3. \A x \in AppUnits : <<x>> \in Seq(AppUnits)
  OBVIOUS
<1>4. \A i \in DOMAIN CbgmApps : UnitOf(CbgmApps[i]) \in AppUnits
  BY <1>2 DEF AppUnits
<1>5. f \in [DOMAIN CbgmApps -> Seq(AppUnits)]
  <2> HIDE DEF AppUnits
  <2>1. <<>> \in Seq(AppUnits)
    BY EmptySeq
  <2> QED
    BY <1>3, <1>4, <2>1
<1> HIDE DEF f
<1>6. CbgmUnits \in Seq(AppUnits)
  BY <1>1, <1>5, CollationAssumption, FlattenOf
<1>7. \A u \in AppUnits : u.readings \in Seq(AppReading)
  <2>1. SUFFICES ASSUME NEW a \in CbgmApp PROVE UnitOf(a).readings \in Seq(AppReading)
    BY DEF AppUnits
  <2>2. UnitOf(a).readings = a.readings
    BY DEF UnitOf
  <2>3. a.readings \in Seq(AppReading)
    BY DEF CbgmApp, AppReading
  <2> QED
    BY <2>2, <2>3
<1> QED
  BY <1>6, <1>7

LEMMA UnitIs ==
  ASSUME NEW u \in Range(CbgmUnits)
  PROVE  u \in AppUnits /\ u.readings \in Seq(AppReading)
<1>1. \A i \in DOMAIN CbgmUnits : CbgmUnits[i] \in AppUnits
  BY UnitsAre, ElementOfSeq, LenProperties
<1> QED
  BY <1>1, UnitsAre DEF Range

LEMMA TokensAreFinite ==
  /\ IsFiniteSet(CbgmTokens) /\ IsFiniteSet(CbgmTokens \cup Range(CbgmDbWitnesses))
<1> DEFINE g(u) == [j \in DOMAIN u.readings |-> u.readings[j].witnesses]
           f    == [i \in DOMAIN CbgmUnits |-> FlattenSeq(g(CbgmUnits[i]))]
<1>1. ASSUME NEW u \in Range(CbgmUnits)
      PROVE  /\ FlattenSeq(g(u)) \in Seq(CbgmToken)
             /\ \A x : x \in Range(FlattenSeq(g(u))) <=> \E r \in Range(u.readings) : x \in Range(r.witnesses)
  <2>1. u.readings \in Seq(AppReading) /\ \A j \in DOMAIN u.readings : u.readings[j] \in AppReading
    BY UnitIs, ElementOfSeq, LenProperties
  <2> DEFINE h == g(u)
  <2>2. h \in [DOMAIN u.readings -> Seq(CbgmToken)] /\ \A j \in DOMAIN u.readings : h[j] = u.readings[j].witnesses
    BY <2>1 DEF AppReading
  <2> HIDE DEF h
  <2>3. /\ FlattenSeq(h) \in Seq(CbgmToken)
        /\ \A x : x \in Range(FlattenSeq(h)) <=> \E j \in DOMAIN u.readings : x \in Range(h[j])
    BY <2>1, <2>2, FlattenOf
  <2>4. \A x : (\E j \in DOMAIN u.readings : x \in Range(h[j])) <=> \E r \in Range(u.readings) : x \in Range(r.witnesses)
    BY <2>2 DEF Range
  <2> QED
    BY <2>3, <2>4 DEF h
<1> HIDE DEF g
<1>2. CbgmUnits \in Seq(AppUnits) /\ \A i \in DOMAIN CbgmUnits : CbgmUnits[i] \in Range(CbgmUnits)
  BY UnitsAre DEF Range
<1>3. f \in [DOMAIN CbgmUnits -> Seq(CbgmToken)] /\ \A i \in DOMAIN CbgmUnits : f[i] = FlattenSeq(g(CbgmUnits[i]))
  BY <1>1, <1>2
<1> HIDE DEF f
<1>4. /\ FlattenSeq(f) \in Seq(CbgmToken)
      /\ \A x : x \in Range(FlattenSeq(f)) <=> \E i \in DOMAIN CbgmUnits : x \in Range(f[i])
  BY <1>2, <1>3, FlattenOf
<1>5. \A x : x \in CbgmTokens <=> \E u \in Range(CbgmUnits) : \E r \in Range(u.readings) : x \in Range(r.witnesses)
  <2> HIDE DEF Range
  <2> QED
    BY DEF CbgmTokens
<1>6. \A x : x \in Range(FlattenSeq(f)) => x \in CbgmTokens
  <2> HIDE DEF Range
  <2> QED
    BY <1>1, <1>2, <1>3, <1>4, <1>5
<1>7. \A x : x \in CbgmTokens => x \in Range(FlattenSeq(f))
  <2>1. \A u \in Range(CbgmUnits) : \E i \in DOMAIN CbgmUnits : CbgmUnits[i] = u
    BY DEF Range
  <2> HIDE DEF Range
  <2> QED
    BY <1>1, <1>3, <1>4, <1>5, <2>1
<1>8. CbgmTokens = Range(FlattenSeq(f))
  <2> HIDE DEF Range
  <2> QED
    BY <1>6, <1>7
<1>9. IsFiniteSet(CbgmTokens) /\ IsFiniteSet(Range(CbgmDbWitnesses))
  BY <1>4, <1>8, RangeIsFinite, CollationAssumption
<1> QED
  BY <1>9, FS_Union

\* The names of finitely many tokens.
LEMMA NamesAreFinite ==
  ASSUME NEW tokens, IsFiniteSet(tokens)
  PROVE  /\ IsFiniteSet({Siglum(x) : x \in tokens}) /\ IsFiniteSet({x.base : x \in tokens})
         /\ IsFiniteSet({x.base \o "*" : x \in tokens})
<1>1. \A S, T, f : f \in Surjection(S, T) /\ IsFiniteSet(S) => IsFiniteSet(T)
  BY FS_Surjection
<1>2. [x \in tokens |-> Siglum(x)] \in Surjection(tokens, {Siglum(x) : x \in tokens})
  BY DEF Surjection
<1>3. [x \in tokens |-> x.base] \in Surjection(tokens, {x.base : x \in tokens})
  BY DEF Surjection
<1>4. [x \in tokens |-> x.base \o "*"] \in Surjection(tokens, {x.base \o "*" : x \in tokens})
  BY DEF Surjection
<1> QED
  BY <1>1, <1>2, <1>3, <1>4

LEMMA WitnessesAreFinite ==
  IsFiniteSet(CbgmInScope) /\ IsFiniteSet(CbgmWitnesses) /\ IsFiniteSet(Hands(CbgmTokens))
<1> DEFINE A == CbgmTokens \cup Range(CbgmDbWitnesses)
<1>1. IsFiniteSet(A) /\ IsFiniteSet(CbgmTokens) /\ \A S : Hands(S) \subseteq S
  BY TokensAreFinite DEF Hands
<1>2. IsFiniteSet(Hands(A)) /\ IsFiniteSet(Hands(CbgmTokens))
  <2> HIDE DEF A
  <2> QED
    BY <1>1, FS_Subset
<1>3. CbgmInScope = {Siglum(x) : x \in A} \cup {x.base : x \in Hands(A)}
  BY DEF CbgmInScope
<1>4. CbgmHands = {Siglum(x) : x \in Hands(A)} \cup {x.base \o "*" : x \in Hands(CbgmTokens)}
  BY DEF CbgmHands
<1> HIDE DEF A
<1>5. IsFiniteSet(CbgmInScope) /\ IsFiniteSet(CbgmHands)
  <2>1. /\ IsFiniteSet({Siglum(x) : x \in A}) /\ IsFiniteSet({x.base : x \in Hands(A)})
        /\ IsFiniteSet({Siglum(x) : x \in Hands(A)}) /\ IsFiniteSet({x.base \o "*" : x \in Hands(CbgmTokens)})
    BY <1>1, <1>2, NamesAreFinite
  <2> QED
    BY <1>3, <1>4, <2>1, FS_Union
<1> QED
  BY <1>2, <1>5, FS_Union DEF CbgmWitnesses

\* The readings of a unit: those of the collation, and the lacuna.
OwnReading(u, r) == [id |-> ReadingId(u, r.name), lacuna |-> FALSE, sigla |-> Each(r.witnesses, Siglum)]
LacunaOf(u)      == [id |-> ReadingId(u, "lac"), lacuna |-> TRUE, sigla |-> SetToSeq(CbgmMissing(u))]

LEMMA ReadingsAre ==
  ASSUME NEW u \in Range(CbgmUnits)
  PROVE  /\ CbgmReadings(u) \in Seq(Range(CbgmReadings(u)))
         /\ \A r : r \in Range(CbgmReadings(u))
              <=> \/ \E x \in Range(u.readings) : r = OwnReading(u, x)
                  \/ CbgmMissing(u) # {} /\ r = LacunaOf(u)
<1> DEFINE f == [i \in DOMAIN u.readings |-> OwnReading(u, u.readings[i])]
           g == IF CbgmMissing(u) # {} THEN <<LacunaOf(u)>> ELSE <<>>
           T == {OwnReading(u, x) : x \in Range(u.readings)} \cup {LacunaOf(u)}
           R == CbgmReadings(u)
<1>1. R = f \o g
  BY DEF CbgmReadings, Each, When, OwnReading, LacunaOf
<1>2. u.readings \in Seq(AppReading) /\ \A i \in DOMAIN u.readings : u.readings[i] \in Range(u.readings)
  BY UnitIs DEF Range
<1>3. f \in [DOMAIN u.readings -> T] /\ \A i \in DOMAIN u.readings : f[i] = OwnReading(u, u.readings[i])
  <2> HIDE DEF Range
  <2> QED
    BY <1>2
<1>4. g \in Seq(T) /\ \A r : r \in Range(g) <=> CbgmMissing(u) # {} /\ r = LacunaOf(u)
  <2> DEFINE l == LacunaOf(u)
  <2>1. l \in T
    OBVIOUS
  <2> HIDE DEF l, T
  <2>2. <<l>> \in Seq(T) /\ <<>> \in Seq(T)
    BY <2>1, EmptySeq
  <2>3. Range(<<l>>) = {l} /\ Range(<<>>) = {}
    BY DEF Range
  <2> HIDE DEF Range
  <2> QED
    BY <2>2, <2>3 DEF l
<1> HIDE DEF f, g, T, R
<1>5. f \in Seq(T) /\ DOMAIN f = DOMAIN u.readings
  BY <1>2, <1>3, EachOf
<1>6. \A r : r \in Range(f) <=> \E x \in Range(u.readings) : r = OwnReading(u, x)
  BY <1>3, <1>5 DEF Range
<1>7. R \in Seq(T) /\ Range(R) = Range(f) \cup Range(g)
  BY <1>1, <1>4, <1>5, ConcatRange
<1>8. R \in Seq(Range(R))
  BY <1>7, SeqOfOwn
<1> HIDE DEF Range
<1> QED
  BY <1>4, <1>6, <1>7, <1>8 DEF R

LEMMA SiglaAre ==
  ASSUME NEW u \in Range(CbgmUnits), NEW r \in Range(CbgmReadings(u))
  PROVE  r.sigla \in Seq(Range(r.sigla))
<1>1. CASE \E x \in Range(u.readings) : r = OwnReading(u, x)
  <2>1. PICK x \in Range(u.readings) : r = OwnReading(u, x)
    BY <1>1
  <2>2. x.witnesses \in Seq(CbgmToken)
    <3>1. \A i \in DOMAIN u.readings : u.readings[i] \in AppReading
      BY UnitIs, ElementOfSeq, LenProperties
    <3> QED
      BY <2>1, <3>1 DEF Range, AppReading
  <2> DEFINE f == [i \in DOMAIN x.witnesses |-> Siglum(x.witnesses[i])]
  <2>3. r.sigla = f
    BY <2>1 DEF OwnReading, Each
  <2>4. f \in [DOMAIN x.witnesses -> Range(f)]
    BY DEF Range
  <2> HIDE DEF f
  <2> QED
    BY <2>2, <2>3, <2>4, EachOf
<1>2. CASE r = LacunaOf(u)
  <2>1. IsFiniteSet(CbgmMissing(u))
    <3>1. CbgmMissing(u) \subseteq CbgmInScope
      BY DEF CbgmMissing
    <3> QED
      BY <3>1, WitnessesAreFinite, FS_Subset
  <2>2. r.sigla = SetToSeq(CbgmMissing(u))
    BY <1>2 DEF LacunaOf
  <2> QED
    BY <2>1, <2>2, SetAsSeq
<1> QED
  BY <1>1, <1>2, ReadingsAre

\* A witness is named by a reading of each unit; one whose lacuna it is, is
\* named nowhere else there.
LEMMA NamedOnce ==
  ASSUME NEW u \in Range(CbgmUnits), NEW s \in CbgmInScope
  PROVE  /\ \E r \in Range(CbgmReadings(u)) : s \in Range(r.sigla)
         /\ \A q, r \in Range(CbgmReadings(u)) :
              s \in Range(q.sigla) /\ s \in Range(r.sigla) /\ q.lacuna => q = r
<1> DEFINE N == {Siglum(x) : x \in UNION {Range(r.witnesses) : r \in Range(u.readings)}}
<1>1. CbgmMissing(u) = CbgmInScope \ N
  BY DEF CbgmMissing
<1>2. \A n : n \in N <=> \E x \in Range(u.readings) : \E w \in Range(x.witnesses) : n = Siglum(w)
  <2> HIDE DEF Range
  <2> QED
    OBVIOUS
<1> HIDE DEF N
<1>3. \A x : OwnReading(u, x).lacuna = FALSE /\ \A n : n \in Range(OwnReading(u, x).sigla) <=> \E w \in Range(x.witnesses) : n = Siglum(w)
  BY DEF OwnReading, Each, Range
<1>4. LacunaOf(u).lacuna = TRUE /\ Range(LacunaOf(u).sigla) = CbgmMissing(u)
  <2>1. IsFiniteSet(CbgmMissing(u))
    <3>1. CbgmMissing(u) \subseteq CbgmInScope
      BY DEF CbgmMissing
    <3> QED
      BY <3>1, WitnessesAreFinite, FS_Subset
  <2> HIDE DEF Range
  <2> QED
    BY <2>1, SetAsSeq DEF LacunaOf
<1> HIDE DEF Range
<1>5. \A r \in Range(CbgmReadings(u)) : s \in Range(r.sigla) =>
        IF r.lacuna THEN r = LacunaOf(u) /\ s \notin N ELSE s \in N
  <2>1. SUFFICES ASSUME NEW r \in Range(CbgmReadings(u)), s \in Range(r.sigla)
                 PROVE  IF r.lacuna THEN r = LacunaOf(u) /\ s \notin N ELSE s \in N
    OBVIOUS
  <2>2. CASE \E x \in Range(u.readings) : r = OwnReading(u, x)
    BY <1>2, <1>3, <2>1, <2>2
  <2>3. CASE r = LacunaOf(u)
    BY <1>1, <1>4, <2>1, <2>3
  <2> QED
    BY <2>2, <2>3, ReadingsAre
<1>6. \E r \in Range(CbgmReadings(u)) : s \in Range(r.sigla)
  <2>1. CASE s \in N
    <3>1. PICK x \in Range(u.readings) : \E w \in Range(x.witnesses) : s = Siglum(w)
      BY <1>2, <2>1
    <3>2. OwnReading(u, x) \in Range(CbgmReadings(u)) /\ s \in Range(OwnReading(u, x).sigla)
      BY <1>3, <3>1, ReadingsAre
    <3> QED
      BY <3>2
  <2>2. CASE s \notin N
    <3>1. s \in CbgmMissing(u)
      BY <1>1, <2>2
    <3>2. LacunaOf(u) \in Range(CbgmReadings(u)) /\ s \in Range(LacunaOf(u).sigla)
      BY <1>4, <3>1, ReadingsAre
    <3> QED
      BY <3>2
  <2> QED
    BY <2>1, <2>2
<1> QED
  BY <1>5, <1>6

\* Its rows, list by list.
WitnessRow(s)     == [siglum |-> s, ga_number |-> IF s \in CbgmHands THEN Null ELSE s]
ReadingRow(u, r)  == [reading_id |-> r.id, variant_unit_id |-> u.id,
                      is_lacuna |-> IF r.lacuna THEN "true" ELSE "false"]
ReadsRow(u, r, s) == LinkSet(s, r.id, [variant_unit_id |-> u.id], [source |-> Cbgm])
UnitsReads(u) ==
  EachAll(CbgmReadings(u), LAMBDA r : Each(r.sigla, LAMBDA s : ReadsRow(u, r, s)))

LEMMA WitnessRowsAre ==
  /\ CbgmRows.witness \in Seq(Range(CbgmRows.witness))
  /\ \A s \in CbgmWitnesses : WitnessRow(s) \in Range(CbgmRows.witness)
<1> DEFINE q == SetToSeq(CbgmWitnesses)
           f == [i \in DOMAIN q |-> WitnessRow(q[i])]
<1>1. CbgmRows.witness = f
  BY DEF CbgmRows, Each, WitnessRow
<1>2. q \in Seq(CbgmWitnesses) /\ Range(q) = CbgmWitnesses
  <2> HIDE DEF Range
  <2> QED
    BY WitnessesAreFinite, SetAsSeq
<1> HIDE DEF q
<1>3. f \in [DOMAIN q -> Range(f)]
  BY DEF Range
<1>4. \A s \in CbgmWitnesses : WitnessRow(s) \in Range(f)
  BY <1>2 DEF Range
<1> HIDE DEF f
<1> QED
  BY <1>1, <1>2, <1>3, <1>4, EachOf

LEMMA ReadingRowsAre ==
  /\ CbgmRows.reading \in Seq(Range(CbgmRows.reading))
  /\ \A u \in Range(CbgmUnits) : \A r \in Range(CbgmReadings(u)) :
       ReadingRow(u, r) \in Range(CbgmRows.reading)
<1> DEFINE g(u) == [j \in DOMAIN CbgmReadings(u) |-> ReadingRow(u, CbgmReadings(u)[j])]
           f == [i \in DOMAIN CbgmUnits |-> g(CbgmUnits[i])]
           T == UNION {Range(g(u)) : u \in Range(CbgmUnits)}
<1>1. CbgmRows.reading = FlattenSeq(f)
  BY DEF CbgmRows, EachAll, Each, ReadingRow
<1>2. ASSUME NEW u \in Range(CbgmUnits)
      PROVE  /\ g(u) \in Seq(T)
             /\ \A r \in Range(CbgmReadings(u)) : ReadingRow(u, r) \in Range(g(u))
  <2> DEFINE h == g(u)
  <2>1. h \in [DOMAIN CbgmReadings(u) -> Range(h)]
    BY DEF Range
  <2>2. \A r \in Range(CbgmReadings(u)) : ReadingRow(u, r) \in Range(h)
    BY DEF Range
  <2>3. Range(h) \subseteq T
    OBVIOUS
  <2> HIDE DEF h, T
  <2>4. h \in Seq(Range(h))
    BY <2>1, ReadingsAre, EachOf
  <2> QED
    BY <2>2, <2>3, <2>4, SeqOfMore DEF h
<1> HIDE DEF g, T
<1>3. CbgmUnits \in Seq(AppUnits) /\ \A i \in DOMAIN CbgmUnits : CbgmUnits[i] \in Range(CbgmUnits)
  BY UnitsAre DEF Range
<1>4. f \in [DOMAIN CbgmUnits -> Seq(T)] /\ \A i \in DOMAIN CbgmUnits : f[i] = g(CbgmUnits[i])
  BY <1>2, <1>3
<1> HIDE DEF f
<1>5. /\ FlattenSeq(f) \in Seq(T)
      /\ \A x : x \in Range(FlattenSeq(f)) <=> \E i \in DOMAIN CbgmUnits : x \in Range(f[i])
  BY <1>3, <1>4, FlattenOf
<1>6. \A u \in Range(CbgmUnits) : \E i \in DOMAIN CbgmUnits : CbgmUnits[i] = u
  BY DEF Range
<1>7. FlattenSeq(f) \in Seq(Range(FlattenSeq(f)))
  BY <1>5, SeqOfOwn
<1> HIDE DEF Range
<1> QED
  BY <1>1, <1>2, <1>4, <1>5, <1>6, <1>7

LEMMA UnitsReadsAre ==
  ASSUME NEW u \in Range(CbgmUnits)
  PROVE  /\ UnitsReads(u) \in Seq(Range(UnitsReads(u)))
         /\ \A x : x \in Range(UnitsReads(u))
              <=> \E r \in Range(CbgmReadings(u)) : \E s \in Range(r.sigla) : x = ReadsRow(u, r, s)
<1> DEFINE R == CbgmReadings(u)
           g(r) == [k \in DOMAIN r.sigla |-> ReadsRow(u, r, r.sigla[k])]
           f == [j \in DOMAIN R |-> g(R[j])]
           T == UNION {Range(g(r)) : r \in Range(R)}
<1>1. UnitsReads(u) = FlattenSeq(f)
  BY DEF UnitsReads, EachAll, Each
<1>2. ASSUME NEW r \in Range(R)
      PROVE  /\ g(r) \in Seq(T)
             /\ \A x : x \in Range(g(r)) <=> \E s \in Range(r.sigla) : x = ReadsRow(u, r, s)
  <2> DEFINE h == g(r)
  <2>1. h \in [DOMAIN r.sigla -> Range(h)]
    BY DEF Range
  <2>2. \A x : x \in Range(h) <=> \E s \in Range(r.sigla) : x = ReadsRow(u, r, s)
    BY DEF Range
  <2>3. Range(h) \subseteq T
    OBVIOUS
  <2> HIDE DEF h, T
  <2>4. h \in Seq(Range(h))
    BY <2>1, SiglaAre, EachOf
  <2> QED
    BY <2>2, <2>3, <2>4, SeqOfMore DEF h
<1>3. R \in Seq(Range(R))
  BY ReadingsAre
<1> HIDE DEF g, T, R
<1>4. /\ \A j \in DOMAIN R : R[j] \in Range(R)
      /\ \A r \in Range(R) : \E j \in DOMAIN R : R[j] = r
  BY DEF Range
<1>5. f \in [DOMAIN R -> Seq(T)] /\ \A j \in DOMAIN R : f[j] = g(R[j])
  BY <1>2, <1>4
<1> HIDE DEF f
<1>6. /\ FlattenSeq(f) \in Seq(T)
      /\ \A x : x \in Range(FlattenSeq(f)) <=> \E j \in DOMAIN R : x \in Range(f[j])
  BY <1>3, <1>5, FlattenOf
<1>7. FlattenSeq(f) \in Seq(Range(FlattenSeq(f)))
  BY <1>6, SeqOfOwn
<1> HIDE DEF Range
<1>8. \A x : x \in Range(FlattenSeq(f))
        <=> \E r \in Range(R) : \E s \in Range(r.sigla) : x = ReadsRow(u, r, s)
  <2>1. \A x : (\E j \in DOMAIN R : x \in Range(f[j])) <=> \E r \in Range(R) : x \in Range(g(r))
    BY <1>4, <1>5
  <2>2. \A r \in Range(R) : \A x :
          x \in Range(g(r)) <=> \E s \in Range(r.sigla) : x = ReadsRow(u, r, s)
    BY <1>2
  <2>3. \A x : (\E r \in Range(R) : x \in Range(g(r)))
          <=> \E r \in Range(R) : \E s \in Range(r.sigla) : x = ReadsRow(u, r, s)
    BY <2>2, Zenon
  <2> QED
    BY <1>6, <2>1, <2>3, Zenon
<1> QED
  BY <1>1, <1>7, <1>8 DEF R

LEMMA ReadsRowsAre ==
  /\ CbgmRows.reads_at \in Seq(Range(CbgmRows.reads_at))
  /\ \A x : x \in Range(CbgmRows.reads_at)
       <=> \E u \in Range(CbgmUnits) : \E r \in Range(CbgmReadings(u)) : \E s \in Range(r.sigla) :
             x = ReadsRow(u, r, s)
<1> DEFINE f == [i \in DOMAIN CbgmUnits |-> UnitsReads(CbgmUnits[i])]
           T == UNION {Range(UnitsReads(u)) : u \in Range(CbgmUnits)}
<1>1. CbgmRows.reads_at = FlattenSeq(f)
  BY DEF CbgmRows, EachAll, Each, UnitsReads, ReadsRow
<1>2. /\ CbgmUnits \in Seq(AppUnits)
      /\ \A i \in DOMAIN CbgmUnits : CbgmUnits[i] \in Range(CbgmUnits)
      /\ \A u \in Range(CbgmUnits) : \E i \in DOMAIN CbgmUnits : CbgmUnits[i] = u
  BY UnitsAre DEF Range
<1>3. ASSUME NEW u \in Range(CbgmUnits) PROVE UnitsReads(u) \in Seq(T)
  <2>1. Range(UnitsReads(u)) \subseteq T
    OBVIOUS
  <2> HIDE DEF T
  <2> QED
    BY <2>1, UnitsReadsAre, SeqOfMore
<1> HIDE DEF T
<1>4. f \in [DOMAIN CbgmUnits -> Seq(T)] /\ \A i \in DOMAIN CbgmUnits : f[i] = UnitsReads(CbgmUnits[i])
  BY <1>2, <1>3
<1> HIDE DEF f
<1>5. /\ FlattenSeq(f) \in Seq(T)
      /\ \A x : x \in Range(FlattenSeq(f)) <=> \E i \in DOMAIN CbgmUnits : x \in Range(f[i])
  BY <1>2, <1>4, FlattenOf
<1>6. FlattenSeq(f) \in Seq(Range(FlattenSeq(f)))
  BY <1>5, SeqOfOwn
<1> HIDE DEF Range
<1>7. \A x : (\E i \in DOMAIN CbgmUnits : x \in Range(f[i])) <=> \E u \in Range(CbgmUnits) : x \in Range(UnitsReads(u))
  BY <1>2, <1>4
<1> DEFINE Reads(u, x) == \E r \in Range(CbgmReadings(u)) : \E s \in Range(r.sigla) : x = ReadsRow(u, r, s)
<1>8. \A u \in Range(CbgmUnits) : \A x : x \in Range(UnitsReads(u)) <=> Reads(u, x)
  BY UnitsReadsAre
<1> HIDE DEF Reads
<1>9. \A x : x \in Range(CbgmRows.reads_at) <=> \E u \in Range(CbgmUnits) : Reads(u, x)
  BY <1>1, <1>5, <1>7, <1>8
<1> QED
  BY <1>1, <1>6, <1>9 DEF Reads

LEMMA OtherRowsAre ==
  \A n \in {"source", "unit", "attested_by", "corrector"} : CbgmRows[n] \in Seq(Range(CbgmRows[n]))
<1>1. CbgmRows.source \in Seq(Range(CbgmRows.source))
  <2>1. CbgmRows.source = <<[slug |-> Cbgm]>>
    BY DEF CbgmRows, SourceRow
  <2>2. \A x : <<x>> \in Seq({x})
    OBVIOUS
  <2> QED
    BY <2>1, <2>2, SeqOfOwn
<1>2. CbgmRows.unit \in Seq(Range(CbgmRows.unit))
  <2> DEFINE f == [i \in DOMAIN CbgmUnits |-> [variant_unit_id |-> CbgmUnits[i].id, verse |-> CbgmUnits[i].verse]]
  <2>1. CbgmRows.unit = f
    BY DEF CbgmRows, Each
  <2>2. f \in [DOMAIN CbgmUnits -> Range(f)]
    BY DEF Range
  <2> HIDE DEF f
  <2> QED
    BY <2>1, <2>2, UnitsAre, EachOf
<1>3. CbgmRows.attested_by \in Seq(Range(CbgmRows.attested_by))
  <2> DEFINE g(u) == [j \in DOMAIN CbgmReadings(u) |->
                        LinkSet(CbgmReadings(u)[j].id, u.id, <<>>, [source |-> Cbgm])]
             f == [i \in DOMAIN CbgmUnits |-> g(CbgmUnits[i])]
             T == UNION {Range(g(u)) : u \in Range(CbgmUnits)}
  <2>1. CbgmRows.attested_by = FlattenSeq(f)
    BY DEF CbgmRows, EachAll, Each
  <2>2. ASSUME NEW u \in Range(CbgmUnits) PROVE g(u) \in Seq(T)
    <3> DEFINE h == g(u)
    <3>1. h \in [DOMAIN CbgmReadings(u) -> Range(h)]
      BY DEF Range
    <3>2. Range(h) \subseteq T
      OBVIOUS
    <3> HIDE DEF h, T
    <3>3. h \in Seq(Range(h))
      BY <3>1, ReadingsAre, EachOf
    <3> QED
      BY <3>2, <3>3, SeqOfMore DEF h
  <2> HIDE DEF g, T
  <2>3. CbgmUnits \in Seq(AppUnits) /\ \A i \in DOMAIN CbgmUnits : CbgmUnits[i] \in Range(CbgmUnits)
    BY UnitsAre DEF Range
  <2>4. f \in [DOMAIN CbgmUnits -> Seq(T)]
    BY <2>2, <2>3
  <2> HIDE DEF f
  <2> QED
    BY <2>1, <2>3, <2>4, FlattenOf, SeqOfOwn
<1>4. CbgmRows.corrector \in Seq(Range(CbgmRows.corrector))
  <2> DEFINE q == SetToSeq(Hands(CbgmTokens))
             Both(t) == <<LinkSet(Siglum(t), t.base, <<>>, [source |-> Cbgm]),
                          LinkSet(t.base \o "*", t.base, <<>>, [source |-> Cbgm])>>
             f == [i \in DOMAIN q |-> Both(q[i])]
             T == UNION {Range(Both(t)) : t \in Hands(CbgmTokens)}
  <2>1. CbgmRows.corrector = FlattenSeq(f)
    BY DEF CbgmRows, EachAll, Each
  <2>2. q \in Seq(Hands(CbgmTokens)) /\ \A i \in DOMAIN q : q[i] \in Hands(CbgmTokens)
    <3>1. q \in Seq(Hands(CbgmTokens))
      BY WitnessesAreFinite, SetAsSeq
    <3> HIDE DEF q
    <3> QED
      BY <3>1, ElementOfSeq, LenProperties
  <2>3. ASSUME NEW t \in Hands(CbgmTokens) PROVE Both(t) \in Seq(T)
    <3>1. \A a, b : <<a, b>> \in Seq({a, b})
      OBVIOUS
    <3>2. Both(t) \in Seq(Range(Both(t)))
      BY <3>1, SeqOfOwn
    <3>3. Range(Both(t)) \subseteq T
      <4> HIDE DEF Range, Both
      <4> QED
        OBVIOUS
    <3> HIDE DEF Both, T
    <3> QED
      BY <3>2, <3>3, SeqOfMore
  <2> HIDE DEF q, Both, T
  <2>4. f \in [DOMAIN q -> Seq(T)]
    BY <2>2, <2>3
  <2> HIDE DEF f
  <2> QED
    BY <2>1, <2>2, <2>4, FlattenOf, SeqOfOwn
<1> QED
  BY <1>1, <1>2, <1>3, <1>4

CollationLists == {"source", "witness", "unit", "reading", "reads_at", "attested_by", "corrector"}
\* Its session.runs: the edges of READS_AT come from the rows of reads_at, and
\* each row of a list is sent with its template.
LEMMA CollationSends ==
  /\ \A s \in Range(CbgmScript) : s.t.kind = "edge" /\ s.t.type = "READS_AT" =>
       s.t = CbgmTemplates.reads_at /\ Range(s.rows) \subseteq Range(CbgmRows.reads_at)
  /\ \A n \in CollationLists : \A x \in Range(CbgmRows[n]) :
       \E s \in Range(CbgmScript) : s.t = CbgmTemplates[n] /\ x \in Range(s.rows)
<1>1. CbgmOrder \in Seq(CollationLists) /\ Range(CbgmOrder) = CollationLists
  <2>1. DOMAIN CbgmOrder = 1 .. 7 /\ CbgmOrder = [i \in 1 .. 7 |-> CbgmOrder[i]]
    BY DEF CbgmOrder
  <2>2. /\ CbgmOrder[1] = "source" /\ CbgmOrder[2] = "witness" /\ CbgmOrder[3] = "unit"
        /\ CbgmOrder[4] = "reading" /\ CbgmOrder[5] = "reads_at" /\ CbgmOrder[6] = "attested_by"
        /\ CbgmOrder[7] = "corrector"
    BY DEF CbgmOrder
  <2>3. \A i \in 1 .. 7 : i = 1 \/ i = 2 \/ i = 3 \/ i = 4 \/ i = 5 \/ i = 6 \/ i = 7
    OBVIOUS
  <2>4. CbgmOrder \in [1 .. 7 -> CollationLists]
    BY <2>1, <2>2, <2>3 DEF CollationLists
  <2>5. CbgmOrder \in Seq(CollationLists)
    BY <2>4, SeqDef
  <2>6. Range(CbgmOrder) = CollationLists
    BY <2>1, <2>2, <2>3 DEF CollationLists, Range
  <2> QED
    BY <2>5, <2>6
<1>2. \A n \in CollationLists : CbgmRows[n] \in Seq(Range(CbgmRows[n]))
  BY WitnessRowsAre, ReadingRowsAre, ReadsRowsAre, OtherRowsAre DEF CollationLists
<1>3. \A n \in CollationLists :
        CbgmTemplates[n].kind = "edge" /\ CbgmTemplates[n].type = "READS_AT" => n = "reads_at"
  BY DEF CollationLists, CbgmTemplates, SourceOf, NodeT, EdgeT
<1>4. CbgmScript = Script(CbgmOrder, CbgmTemplates, CbgmRows)
  BY DEF CbgmScript
<1> HIDE DEF Range, CollationLists
<1>9. /\ \A s \in Range(Script(CbgmOrder, CbgmTemplates, CbgmRows)) : \E n \in Range(CbgmOrder) :
           s.t = CbgmTemplates[n] /\ Range(s.rows) \subseteq Range(CbgmRows[n])
      /\ \A n \in Range(CbgmOrder) : \A x \in Range(CbgmRows[n]) :
           \E s \in Range(Script(CbgmOrder, CbgmTemplates, CbgmRows)) :
             s.t = CbgmTemplates[n] /\ x \in Range(s.rows)
  BY <1>1, <1>2, ScriptSends
<1>5. /\ \A s \in Range(CbgmScript) : \E n \in CollationLists :
           s.t = CbgmTemplates[n] /\ Range(s.rows) \subseteq Range(CbgmRows[n])
      /\ \A n \in CollationLists : \A x \in Range(CbgmRows[n]) :
           \E s \in Range(CbgmScript) : s.t = CbgmTemplates[n] /\ x \in Range(s.rows)
  BY <1>1, <1>4, <1>9
<1>6. "reads_at" \in CollationLists
  BY DEF CollationLists
<1> QED
  BY <1>3, <1>5, <1>6

LEMMA CollationScript ==
  ASSUME NEW has \in Disks
  PROVE  Scripts[has]["open_cbgm_3_john"] = CbgmScript
<1>1. "open_cbgm_3_john" \in Range(Datasets)
  <2>1. Datasets[20] = "open_cbgm_3_john" /\ DOMAIN Datasets = 1 .. 23
    BY DEF Datasets
  <2> QED
    BY <2>1 DEF Range
<1>2. ScriptOf("open_cbgm_3_john", has) = CbgmScript
  BY DEF ScriptOf
<1> QED
  BY <1>1, <1>2 DEF Scripts

\* The rows of the witnesses, the readings and what is read are among the rows of
\* a disk that has the collation.
LEMMA CollationRows ==
  ASSUME NEW has \in Disks, "open_cbgm_3_john" \in has,
         NEW n \in CollationLists, NEW row \in Range(CbgmRows[n])
  PROVE  /\ [t |-> CbgmTemplates[n], row |-> row] \in Rowed("open_cbgm_3_john", has)
         /\ "open_cbgm_3_john" \in Sendable(has)
         /\ [t |-> CbgmTemplates[n], row |-> row] \in AllRowed(has)
<1> DEFINE name == "open_cbgm_3_john"
           x == [t |-> CbgmTemplates[n], row |-> row]
<1>1. PICK s \in Range(CbgmScript) : s.t = CbgmTemplates[n] /\ row \in Range(s.rows)
  BY CollationSends
<1>2. s \in Range(Scripts[has][name])
  BY <1>1, CollationScript
<1>3. x \in {[t |-> s.t, row |-> r] : r \in Range(s.rows)}
  BY <1>1
<1> HIDE DEF x
<1>4. x \in Rowed(name, has)
  BY <1>2, <1>3 DEF Rowed
<1>5. name \in Sendable(has)
  <2>1. Datasets[20] = name /\ DOMAIN Datasets = 1 .. 23
    BY DEF Datasets
  <2>2. name \in Range(Datasets)
    BY <2>1 DEF Range
  <2> QED
    BY <2>2 DEF Sendable, Raises
<1> HIDE DEF name
<1>6. x \in AllRowed(has)
  BY <1>4, <1>5 DEF AllRowed
<1> QED
  BY <1>4, <1>5, <1>6 DEF x, name

-----------------------------------------------------------------------------
(* Where the edges of a type come from. *)

\* A session.run adds the edges its rows reach, if they are edges at all.
LEMMA BatchEdges ==
  ASSUME NEW g, IsGraph(g), NEW s, Statement(s)
  PROVE  \A e \in DOMAIN SentTo(g, s).edges \ DOMAIN g.edges :
           s.t.kind = "edge" /\ \E n \in 1 .. Len(s.rows) : e \in EdgesOf(SentTo(g, s), s.t, s.rows[n])
<1> DEFINE m == Len(s.rows)
<1>1. m \in Nat /\ Fits(s.t)
  BY LenProperties DEF Statement
<1>2. PICK f : RowByRow(f, g, s, SentTo(g, s))
  BY <1>1, BatchIs
<1>3. /\ f[0] = g /\ SentTo(g, s) = f[m]
      /\ \A n \in Nat : n + 1 <= m => f[n + 1] = Applied(f[n], Row(s, n + 1))
  BY <1>2 DEF RowByRow
<1> HIDE DEF m
<1>4. CASE s.t.kind = "edge"
  <2> DEFINE Held(n) ==
               /\ IsGraph(f[n]) /\ f[n].nodes = g.nodes
               /\ \A e \in DOMAIN f[n].edges \ DOMAIN g.edges :
                    \E i \in 1 .. n : e \in EdgesOf(g, s.t, s.rows[i])
             S == {n \in Nat : n <= m => Held(n)}
  <2>1. 0 \in S
    BY <1>3
  <2>2. ASSUME NEW n \in Nat, n \in S PROVE n + 1 \in S
    <3>1. SUFFICES ASSUME n + 1 <= m PROVE Held(n + 1)
      OBVIOUS
    <3>2. Held(n) /\ f[n + 1] = Applied(f[n], Row(s, n + 1))
      BY <1>1, <1>3, <2>2, <3>1
    <3> DEFINE X == EdgesOf(f[n], s.t, s.rows[n + 1])
    <3>3. EdgesSet(f[n + 1], f[n], X, s.rows[n + 1].set)
      <4>1. Row(s, n + 1).t = s.t /\ Row(s, n + 1).row = s.rows[n + 1]
        BY DEF Row
      <4> QED
        BY <1>4, <3>2, <4>1, EdgeApplied
    <3>4. X = EdgesOf(g, s.t, s.rows[n + 1])
      BY <3>2 DEF EdgesOf, Matches, Find
    <3> HIDE DEF X
    <3>5. IsGraph(f[n + 1]) /\ f[n + 1].nodes = g.nodes /\ DOMAIN f[n + 1].edges = DOMAIN f[n].edges \cup X
      <4>1. /\ IsGraph(f[n + 1]) /\ f[n + 1].nodes = f[n].nodes
            /\ f[n + 1].edges = SetIn(f[n].edges, X, s.rows[n + 1].set)
        BY <3>3 DEF EdgesSet
      <4>2. IsSetIn(f[n + 1].edges, f[n].edges, X, s.rows[n + 1].set)
        BY <4>1, SetInIs
      <4> QED
        BY <3>2, <4>1, <4>2 DEF IsSetIn
    <3>6. ASSUME NEW e \in DOMAIN f[n + 1].edges \ DOMAIN g.edges
          PROVE  \E i \in 1 .. n + 1 : e \in EdgesOf(g, s.t, s.rows[i])
      <4>1. CASE e \in X
        <5>1. n + 1 \in 1 .. n + 1
          OBVIOUS
        <5> QED
          BY <3>4, <4>1, <5>1
      <4>2. CASE e \in DOMAIN f[n].edges
        <5>1. PICK i \in 1 .. n : e \in EdgesOf(g, s.t, s.rows[i])
          BY <3>2, <3>6, <4>2
        <5>2. i \in 1 .. n + 1
          OBVIOUS
        <5> QED
          BY <5>1, <5>2
      <4> QED
        BY <3>5, <3>6, <4>1, <4>2
    <3> QED
      BY <3>5, <3>6
  <2> HIDE DEF S
  <2>3. Nat \subseteq S
    BY <2>1, <2>2, InductionOnNat
  <2>4. Held(m)
    BY <1>1, <2>3 DEF S
  <2>5. \A row : EdgesOf(f[m], s.t, row) = EdgesOf(g, s.t, row)
    BY <2>4 DEF EdgesOf, Matches, Find
  <2> QED
    BY <1>3, <1>4, <2>4, <2>5 DEF m
<1>5. CASE s.t.kind # "edge"
  <2> DEFINE S == {n \in Nat : n <= m => IsGraph(f[n]) /\ f[n].edges = g.edges}
  <2>1. 0 \in S
    BY <1>3
  <2>2. ASSUME NEW n \in Nat, n \in S PROVE n + 1 \in S
    <3>1. SUFFICES ASSUME n + 1 <= m PROVE IsGraph(f[n + 1]) /\ f[n + 1].edges = g.edges
      OBVIOUS
    <3>2. IsGraph(f[n]) /\ f[n].edges = g.edges /\ f[n + 1] = Applied(f[n], Row(s, n + 1))
      BY <1>1, <1>3, <2>2, <3>1
    <3>3. Row(s, n + 1).t = s.t
      BY DEF Row
    <3>4. NodesSet(f[n + 1], f[n], s.t.label, NodesOf(f[n], Row(s, n + 1)), Row(s, n + 1).row)
      BY <1>1, <1>5, <3>2, <3>3, NodeApplied
    <3> QED
      BY <3>2, <3>4 DEF NodesSet
  <2> HIDE DEF S
  <2>3. Nat \subseteq S
    BY <2>1, <2>2, InductionOnNat
  <2>4. f[m].edges = g.edges
    BY <1>1, <2>3 DEF S
  <2> QED
    BY <1>3, <2>4
<1> QED
  BY <1>4, <1>5

-----------------------------------------------------------------------------
(* What the witnesses of 3 John read. *)

\* What is read was sent: an edge of READS_AT is one that a row of reads_at reaches.
ReadBy(g, e) ==
  \E row \in Range(CbgmRows.reads_at) : e \in EdgesOf(g, CbgmTemplates.reads_at, row)
ReadsAreSent ==
  ~Early => \A e \in DOMAIN graph.edges : e.type = "READS_AT" => ReadBy(graph, e)

LEMMA StillReads ==
  ASSUME NEW g, NEW h, GraphIn(g, h), {"Witness", "Reading"} \subseteq Labels,
         NEW e, ReadBy(g, e)
  PROVE  ReadBy(h, e)
<1>1. PICK row \in Range(CbgmRows.reads_at) : e \in EdgesOf(g, CbgmTemplates.reads_at, row)
  BY DEF ReadBy
<1> DEFINE x == [t |-> CbgmTemplates.reads_at, row |-> row]
<1>2. Fits(CbgmTemplates.reads_at) /\ CbgmTemplates.reads_at.kind = "edge"
  BY DEF CbgmTemplates, EdgeT, End, Fits
<1>3. x.t = CbgmTemplates.reads_at /\ x.row = row
  OBVIOUS
<1> HIDE DEF x
<1>4. EdgesOf(g, CbgmTemplates.reads_at, row) \subseteq EdgesOf(h, CbgmTemplates.reads_at, row)
  BY <1>2, <1>3, ReachesMore
<1> QED
  BY <1>1, <1>4 DEF ReadBy

LEMMA ReadsStaySent ==
  ASSUME NEW most, FilesSettle(most), CollationSettles(most), Inv(most), ReadsAreSent, [Next]_vars
  PROVE  ReadsAreSent'
<1>1. CASE graph' = graph \/ Early'
  BY <1>1 DEF ReadsAreSent, ReadBy, Early
<1>2. CASE graph' # graph /\ ~Early'
  <2>1. Send
    BY <1>2, OnlySendWrites
  <2> DEFINE s == Head(at.script)
  <2>2. result = "running" /\ at.script # <<>> /\ graph' = SentTo(graph, s)
    BY <1>2, <2>1 DEF Send, Sent, SentTo
  <2>3. Position /\ IsGraph(graph)
    BY DEF Inv, Bounded
  <2>4. Statement(s) /\ s \in Range(Full) /\ at.name \in Sendable(disk) /\ disk \in Disks
    BY <2>2, <2>3, Ahead DEF Position
  <2> HIDE DEF s
  <2>5. GraphIn(graph, graph') /\ ~Early
    BY <1>2, <2>1, SendKeeps
  <2>6. ASSUME NEW e \in DOMAIN graph'.edges, e.type = "READS_AT" PROVE ReadBy(graph', e)
    <3>1. CASE e \in DOMAIN graph.edges
      <4>1. ReadBy(graph, e) /\ {"Witness", "Reading"} \subseteq Labels
        BY <2>5, <2>6, <3>1 DEF ReadsAreSent, CollationSettles
      <4> QED
        BY <2>5, <4>1, StillReads
    <3>2. CASE e \notin DOMAIN graph.edges
      <4>1. e \in DOMAIN SentTo(graph, s).edges \ DOMAIN graph.edges
        BY <2>2, <2>6, <3>2
      <4>2. s.t.kind = "edge" /\ \E n \in 1 .. Len(s.rows) : e \in EdgesOf(SentTo(graph, s), s.t, s.rows[n])
        BY <2>3, <2>4, <4>1, BatchEdges
      <4>3. PICK n \in 1 .. Len(s.rows) : e \in EdgesOf(graph', s.t, s.rows[n])
        BY <2>2, <4>2
      <4>4. s.t.type = "READS_AT"
        BY <2>6, <4>3 DEF EdgesOf
      <4>5. at.name = "open_cbgm_3_john"
        BY <2>4, <4>2, <4>4 DEF CollationSettles, Full
      <4>6. s \in Range(CbgmScript)
        BY <2>4, <4>5, CollationScript DEF Full
      <4>7. s.t = CbgmTemplates.reads_at /\ Range(s.rows) \subseteq Range(CbgmRows.reads_at)
        BY <4>2, <4>4, <4>6, CollationSends
      <4>8. s.rows[n] \in Range(s.rows)
        BY <2>4, LenProperties DEF Statement, Range
      <4> QED
        BY <4>3, <4>7, <4>8 DEF ReadBy
    <3> QED
      BY <3>1, <3>2
  <2> QED
    BY <2>6 DEF ReadsAreSent, ReadBy
<1> QED
  BY <1>1, <1>2

\* After a pass each row of the disk has settled, and finds what it finds above.
LEMMA PassSettles ==
  ASSUME NEW most, FilesSettle(most), Inv(most), passed, InOrder,
         NEW x \in AllRowed(disk), Fits(x.t)
  PROVE  /\ IsGraph(graph) /\ GraphIn(graph, most[disk]) /\ SettledIn(graph, x)
         /\ x.t.kind # "edge" =>
              Find(graph, x.t.label, KeyOf(x)) = Find(most[disk], x.t.label, KeyOf(x))
<1> DEFINE u == most[disk]
           c == CleanGraphs[disk]
<1>1. /\ disk \in Disks /\ IsGraph(graph) /\ GraphIn(graph, u) /\ IsGraph(u)
      /\ IsGraph(c) /\ GraphIn(c, graph)
      /\ SettledIn(u, x) /\ SettledIn(c, x) /\ FindsAlike(u, c, x)
  BY DEF Inv, Position, Bounded, Passed, FilesSettle, Ceiling, InOrder
<1> HIDE DEF u, c
<1>2. SettledIn(graph, x)
  BY <1>1, RowBetween
<1>3. ASSUME x.t.kind # "edge" PROVE Find(graph, x.t.label, KeyOf(x)) = Find(u, x.t.label, KeyOf(x))
  <2>1. x.t.label \in Labels
    BY <1>3 DEF Fits
  <2>2. Find(u, x.t.label, KeyOf(x)) = Find(c, x.t.label, KeyOf(x))
    BY <1>1, <1>3 DEF FindsAlike, KeyOf
  <2>3. /\ Find(c, x.t.label, KeyOf(x)) \subseteq Find(graph, x.t.label, KeyOf(x))
        /\ Find(graph, x.t.label, KeyOf(x)) \subseteq Find(u, x.t.label, KeyOf(x))
    BY <1>1, <2>1, FindsMore
  <2> QED
    BY <2>2, <2>3
<1> QED
  BY <1>1, <1>2, <1>3 DEF u

WitnessKey(s) == [siglum |-> s]
ReadingKey(r) == [reading_id |-> r.id]
\* The edge of what s reads in u, and the nodes it is between.
ReadEdge(u, r, s) ==
  [type |-> "READS_AT", a |-> <<"Witness", WitnessKey(s)>>, b |-> <<"Reading", ReadingKey(r)>>,
   pat |-> [variant_unit_id |-> u.id]]

LEMMA WitnessStands ==
  ASSUME NEW most, FilesSettle(most), CollationSettles(most), Inv(most), passed, InOrder,
         "open_cbgm_3_john" \in disk, NEW s \in CbgmWitnesses
  PROVE  Find(graph, "Witness", WitnessKey(s)) = {WitnessKey(s)}
<1> DEFINE x == [t |-> CbgmTemplates.witness, row |-> WitnessRow(s)]
<1>1. disk \in Disks
  BY DEF Inv, Position
<1>2. x \in Rowed("open_cbgm_3_john", disk) /\ x \in AllRowed(disk)
  <2>1. WitnessRow(s) \in Range(CbgmRows["witness"]) /\ "witness" \in CollationLists
    BY WitnessRowsAre DEF CollationLists
  <2> QED
    BY <1>1, <2>1, CollationRows
<1>3. /\ x.t.kind = "node" /\ x.t.label = "Witness" /\ x.t.keys = {"siglum"}
      /\ x.row = WitnessRow(s) /\ WitnessRow(s).siglum = s /\ "siglum" \in DOMAIN WitnessRow(s)
  BY DEF CbgmTemplates, NodeT, WitnessRow
<1> HIDE DEF x
<1>4. Fits(x.t)
  BY <1>3 DEF CollationSettles, Fits
<1>5. KeyOf(x) = WitnessKey(s)
  BY <1>3 DEF KeyOf, Restrict, WitnessKey
<1>6. OwnNode(most[disk], x)
  BY <1>1, <1>2, <1>3 DEF CollationSettles
<1>7. Find(most[disk], "Witness", KeyOf(x)) = {KeyOf(x)}
  BY <1>3, <1>6 DEF OwnNode, KeyOf
<1>8. Find(graph, "Witness", KeyOf(x)) = Find(most[disk], "Witness", KeyOf(x))
  BY <1>2, <1>3, <1>4, PassSettles
<1> QED
  BY <1>5, <1>7, <1>8

LEMMA ReadingStands ==
  ASSUME NEW most, FilesSettle(most), CollationSettles(most), Inv(most), passed, InOrder,
         "open_cbgm_3_john" \in disk, NEW u \in Range(CbgmUnits), NEW r \in Range(CbgmReadings(u))
  PROVE  /\ Find(graph, "Reading", ReadingKey(r)) = {ReadingKey(r)}
         /\ graph.nodes["Reading"][ReadingKey(r)].is_lacuna = IF r.lacuna THEN "true" ELSE "false"
<1> DEFINE x == [t |-> CbgmTemplates.reading, row |-> ReadingRow(u, r)]
<1>1. disk \in Disks
  BY DEF Inv, Position
<1>2. x \in Rowed("open_cbgm_3_john", disk) /\ x \in AllRowed(disk)
  <2>1. ReadingRow(u, r) \in Range(CbgmRows["reading"]) /\ "reading" \in CollationLists
    BY ReadingRowsAre DEF CollationLists
  <2> QED
    BY <1>1, <2>1, CollationRows
<1>3. /\ x.t.kind = "node" /\ x.t.label = "Reading" /\ x.t.keys = {"reading_id"}
      /\ x.row = ReadingRow(u, r) /\ ReadingRow(u, r).reading_id = r.id
      /\ "reading_id" \in DOMAIN ReadingRow(u, r) /\ "is_lacuna" \in DOMAIN ReadingRow(u, r)
      /\ ReadingRow(u, r).is_lacuna = IF r.lacuna THEN "true" ELSE "false"
  BY DEF CbgmTemplates, NodeT, ReadingRow
<1> HIDE DEF x
<1>4. Fits(x.t)
  BY <1>3 DEF CollationSettles, Fits
<1>5. KeyOf(x) = ReadingKey(r)
  BY <1>3 DEF KeyOf, Restrict, ReadingKey
<1>6. OwnNode(most[disk], x)
  BY <1>1, <1>2, <1>3 DEF CollationSettles
<1>7. Find(most[disk], "Reading", KeyOf(x)) = {KeyOf(x)}
  BY <1>3, <1>6 DEF OwnNode, KeyOf
<1>8. /\ Find(graph, "Reading", KeyOf(x)) = Find(most[disk], "Reading", KeyOf(x))
      /\ IsGraph(graph) /\ GraphIn(graph, most[disk]) /\ SettledIn(graph, x)
  BY <1>2, <1>3, <1>4, PassSettles
<1>9. Shown(graph, x)
  <2>1. Applied(graph, x) = graph
    BY <1>8 DEF SettledIn, Applied
  <2>2. Shown(Applied(graph, x), x)
    BY <1>3, <1>4, <1>6, <1>8, RowIsShown
  <2> QED
    BY <2>1, <2>2
<1>10. x.row["is_lacuna"] # Null
  BY <1>3 DEF Null
<1>11. graph.nodes["Reading"][KeyOf(x)]["is_lacuna"] = x.row["is_lacuna"]
  BY <1>3, <1>9, <1>10 DEF Shown
<1> QED
  BY <1>3, <1>5, <1>7, <1>8, <1>11

LEMMA SiglaInScope ==
  ASSUME NEW u \in Range(CbgmUnits), NEW r \in Range(CbgmReadings(u)), NEW s \in Range(r.sigla)
  PROVE  s \in CbgmInScope
<1>1. CASE \E x \in Range(u.readings) : r = OwnReading(u, x)
  <2>1. PICK x \in Range(u.readings) : r = OwnReading(u, x)
    BY <1>1
  <2>2. PICK w \in Range(x.witnesses) : s = Siglum(w)
    BY <2>1 DEF OwnReading, Each, Range
  <2> HIDE DEF Range
  <2>3. w \in CbgmTokens
    BY <2>1, <2>2 DEF CbgmTokens
  <2> QED
    BY <2>2, <2>3 DEF CbgmInScope
<1>2. CASE CbgmMissing(u) # {} /\ r = LacunaOf(u)
  <2>1. CbgmMissing(u) \subseteq CbgmInScope
    BY DEF CbgmMissing
  <2>2. IsFiniteSet(CbgmMissing(u))
    BY <2>1, WitnessesAreFinite, FS_Subset
  <2> HIDE DEF Range
  <2>3. Range(SetToSeq(CbgmMissing(u))) = CbgmMissing(u)
    BY <2>2, SetAsSeq
  <2>4. r.sigla = SetToSeq(CbgmMissing(u))
    BY <1>2 DEF LacunaOf
  <2> QED
    BY <2>1, <2>3, <2>4
<1> QED
  BY <1>1, <1>2, ReadingsAre

LEMMA PutOne ==
  /\ \A v : Put(<<>>, "siglum", v) = [siglum |-> v]
  /\ \A v : Put(<<>>, "reading_id", v) = [reading_id |-> v]
<1>1. DOMAIN <<>> = {}
  OBVIOUS
<1>2. ASSUME NEW v PROVE Put(<<>>, "siglum", v) = [siglum |-> v]
  BY <1>1 DEF Put
<1>3. ASSUME NEW v PROVE Put(<<>>, "reading_id", v) = [reading_id |-> v]
  BY <1>1 DEF Put
<1> QED
  BY <1>2, <1>3

\* So a row of reads_at has reached one edge, and it is there.
LEMMA ReadStands ==
  ASSUME NEW most, FilesSettle(most), CollationSettles(most), Inv(most), passed, InOrder,
         "open_cbgm_3_john" \in disk,
         NEW u \in Range(CbgmUnits), NEW r \in Range(CbgmReadings(u)), NEW s \in Range(r.sigla)
  PROVE  /\ EdgesOf(graph, CbgmTemplates.reads_at, ReadsRow(u, r, s)) = {ReadEdge(u, r, s)}
         /\ ReadEdge(u, r, s) \in DOMAIN graph.edges
<1> DEFINE row == ReadsRow(u, r, s)
           t   == CbgmTemplates.reads_at
           x   == [t |-> t, row |-> row]
<1>1. disk \in Disks
  BY DEF Inv, Position
<1>2. s \in CbgmWitnesses
  BY SiglaInScope DEF CbgmWitnesses
<1>3. /\ t.kind = "edge" /\ t.type = "READS_AT" /\ t.a = End("Witness", "siglum")
      /\ t.b = End("Reading", "reading_id")
      /\ row.from = s /\ row.to = r.id /\ row.pat = [variant_unit_id |-> u.id]
  BY DEF CbgmTemplates, EdgeT, ReadsRow, LinkSet
<1>4. Matches(graph, t.a, row.from) = {WitnessKey(s)} /\ t.a.label = "Witness"
  <2>1. Put(<<>>, "siglum", s) = WitnessKey(s)
    BY PutOne DEF WitnessKey
  <2>2. Matches(graph, End("Witness", "siglum"), s) = Find(graph, "Witness", WitnessKey(s))
    BY <2>1 DEF Matches, End
  <2> QED
    BY <1>2, <1>3, <2>2, WitnessStands DEF End
<1>5. Matches(graph, t.b, row.to) = {ReadingKey(r)} /\ t.b.label = "Reading"
  <2>1. Put(<<>>, "reading_id", r.id) = ReadingKey(r)
    BY PutOne DEF ReadingKey
  <2>2. Matches(graph, End("Reading", "reading_id"), r.id) = Find(graph, "Reading", ReadingKey(r))
    BY <2>1 DEF Matches, End
  <2> QED
    BY <1>3, <2>2, ReadingStands DEF End
<1>6. x \in AllRowed(disk)
  <2>1. row \in Range(CbgmRows["reads_at"]) /\ "reads_at" \in CollationLists
    BY ReadsRowsAre DEF CollationLists
  <2> QED
    BY <1>1, <2>1, CollationRows
<1>7. x.t = t /\ x.row = row
  OBVIOUS
<1> HIDE DEF x, row, t
<1>8. EdgesOf(graph, t, row) = {ReadEdge(u, r, s)}
  BY <1>3, <1>4, <1>5 DEF EdgesOf, ReadEdge
<1>9. Fits(t)
  BY <1>3, <1>4, <1>5 DEF Fits, CollationSettles
<1>10. SettledIn(graph, x) /\ IsGraph(graph)
  BY <1>6, <1>7, <1>9, PassSettles
<1>11. EdgesSet(graph, graph, EdgesOf(graph, t, row), row.set)
  BY <1>3, <1>7, <1>10, EdgeApplied DEF SettledIn, Applied
<1>12. IsSetIn(graph.edges, graph.edges, EdgesOf(graph, t, row), row.set)
  BY <1>11, SetInIs DEF EdgesSet
<1>13. EdgesOf(graph, t, row) \subseteq DOMAIN graph.edges
  BY <1>12 DEF IsSetIn
<1> QED
  BY <1>8, <1>13 DEF row, t

LEMMA ReadsOnce ==
  ASSUME NEW most, FilesSettle(most), CollationSettles(most), Inv(most), ReadsAreSent, InOrder
  PROVE  WitnessesReadOnce
<1> SUFFICES ASSUME passed, "open_cbgm_3_john" \in disk,
                    NEW u \in Range(CbgmUnits), NEW s \in CbgmInScope
             PROVE  LET reads == {e \in DOMAIN graph.edges :
                                    e.type = "READS_AT" /\ e.a[2].siglum = s
                                      /\ e.pat.variant_unit_id = u.id}
                        Lacuna(e) == graph.nodes["Reading"][e.b[2]].is_lacuna = "true"
                    IN  reads # {} /\ ((\E e \in reads : Lacuna(e)) => Cardinality(reads) = 1)
  BY DEF WitnessesReadOnce
<1> DEFINE reads == {e \in DOMAIN graph.edges :
                       e.type = "READS_AT" /\ e.a[2].siglum = s /\ e.pat.variant_unit_id = u.id}
           Lacuna(e) == graph.nodes["Reading"][e.b[2]].is_lacuna = "true"
<1>1. \A v, r, n : /\ ReadEdge(v, r, n).type = "READS_AT" /\ ReadEdge(v, r, n).a[2].siglum = n
                   /\ ReadEdge(v, r, n).pat.variant_unit_id = v.id
                   /\ ReadEdge(v, r, n).b[2] = ReadingKey(r)
  BY DEF ReadEdge, WitnessKey
<1>2. ASSUME NEW e \in reads
      PROVE  \E r \in Range(CbgmReadings(u)) : s \in Range(r.sigla) /\ e = ReadEdge(u, r, s)
  <2>1. PICK row \in Range(CbgmRows.reads_at) : e \in EdgesOf(graph, CbgmTemplates.reads_at, row)
    BY <1>2 DEF ReadsAreSent, ReadBy, InOrder
  <2>2. PICK v \in Range(CbgmUnits) : \E r \in Range(CbgmReadings(v)) : \E n \in Range(r.sigla) :
               row = ReadsRow(v, r, n)
    BY <2>1, ReadsRowsAre
  <2>3. PICK r \in Range(CbgmReadings(v)) : \E n \in Range(r.sigla) : row = ReadsRow(v, r, n)
    BY <2>2
  <2>4. PICK n \in Range(r.sigla) : row = ReadsRow(v, r, n)
    BY <2>3
  <2>5. EdgesOf(graph, CbgmTemplates.reads_at, ReadsRow(v, r, n)) = {ReadEdge(v, r, n)}
    BY ReadStands
  <2>6. e = ReadEdge(v, r, n)
    BY <2>1, <2>4, <2>5
  <2>7. n = s /\ v.id = u.id
    BY <1>1, <1>2, <2>6
  <2>8. v = u
    BY <2>7 DEF CollationSettles
  <2> QED
    BY <2>6, <2>7, <2>8
<1>3. \A r \in Range(CbgmReadings(u)) : s \in Range(r.sigla) => ReadEdge(u, r, s) \in reads
  <2>1. \A r \in Range(CbgmReadings(u)) : s \in Range(r.sigla) => ReadEdge(u, r, s) \in DOMAIN graph.edges
    BY ReadStands
  <2> QED
    BY <1>1, <2>1
<1>4. \A r \in Range(CbgmReadings(u)) : Lacuna(ReadEdge(u, r, s)) <=> r.lacuna
  <2>1. SUFFICES ASSUME NEW r \in Range(CbgmReadings(u)) PROVE Lacuna(ReadEdge(u, r, s)) <=> r.lacuna
    OBVIOUS
  <2>2. graph.nodes["Reading"][ReadingKey(r)].is_lacuna = IF r.lacuna THEN "true" ELSE "false"
    BY ReadingStands
  <2>3. r.lacuna \in BOOLEAN
    <3>1. \A x : OwnReading(u, x).lacuna = FALSE /\ LacunaOf(u).lacuna = TRUE
      BY DEF OwnReading, LacunaOf
    <3> QED
      BY <3>1, ReadingsAre
  <2> QED
    BY <1>1, <2>2, <2>3
<1> HIDE DEF reads, Lacuna
<1>5. reads # {}
  <2>1. PICK r \in Range(CbgmReadings(u)) : s \in Range(r.sigla)
    BY NamedOnce
  <2> QED
    BY <1>3, <2>1
<1>6. ASSUME NEW e \in reads, Lacuna(e) PROVE Cardinality(reads) = 1
  <2>1. PICK r \in Range(CbgmReadings(u)) : s \in Range(r.sigla) /\ e = ReadEdge(u, r, s)
    BY <1>2
  <2>2. r.lacuna
    BY <1>4, <1>6, <2>1
  <2>3. ASSUME NEW d \in reads PROVE d = e
    <3>1. PICK q \in Range(CbgmReadings(u)) : s \in Range(q.sigla) /\ d = ReadEdge(u, q, s)
      BY <1>2
    <3>2. r = q
      BY <2>1, <2>2, <3>1, NamedOnce
    <3> QED
      BY <2>1, <3>1, <3>2
  <2>4. reads = {e}
    BY <2>3
  <2> QED
    BY <2>4, FS_Singleton
<1> QED
  BY <1>5, <1>6 DEF reads, Lacuna

-----------------------------------------------------------------------------
(* Where nodes and edges come from. *)

\* A session.run adds the nodes its rows make, if they make nodes at all, and
\* shows what they say of them.
LEMMA BatchNodes ==
  ASSUME NEW g, NEW u, IsGraph(g), IsGraph(u), GraphIn(g, u), NEW s, Statement(s),
         "Lemma" \in Labels, Quiet(g, s),
         \A n \in 1 .. Len(s.rows) : SettledIn(u, Row(s, n)) /\ Owns(u, Row(s, n))
  PROVE  \A l \in Labels : \A k \in DOMAIN SentTo(g, s).nodes[l] \ DOMAIN g.nodes[l] :
           s.t.kind = "node" /\ s.t.label = l
             /\ \E n \in 1 .. Len(s.rows) : k = KeyOf(Row(s, n)) /\ Shown(SentTo(g, s), Row(s, n))
<1> DEFINE m == Len(s.rows)
<1>1. m \in Nat /\ Fits(s.t)
  BY LenProperties DEF Statement
<1>2. PICK f : RowByRow(f, g, s, SentTo(g, s))
  BY <1>1, BatchIs
<1>3. /\ f[0] = g /\ SentTo(g, s) = f[m]
      /\ \A n \in Nat : n + 1 <= m => f[n + 1] = Applied(f[n], Row(s, n + 1))
  BY <1>2 DEF RowByRow
<1>4. \A n \in 1 .. m : SettledIn(u, Row(s, n)) /\ Owns(u, Row(s, n))
  OBVIOUS
<1>9. \A n \in Nat : n + 1 <= m => Met(f[n], u, Row(s, n + 1))
  BY <1>2, <1>4, BatchIsMet
<1> HIDE DEF m
<1> DEFINE By(l, k, n) ==
             s.t.kind = "node" /\ s.t.label = l
               /\ \E i \in 1 .. n : k = KeyOf(Row(s, i)) /\ Shown(f[n], Row(s, i))
           Made(n) == \A l \in Labels : \A k \in DOMAIN f[n].nodes[l] \ DOMAIN g.nodes[l] : By(l, k, n)
           Held(n) == IsGraph(f[n]) /\ GraphIn(g, f[n]) /\ GraphIn(f[n], u) /\ Made(n)
           S == {n \in Nat : n <= m => Held(n)}
<1>5. 0 \in S
  BY <1>3, GraphInItself
<1>6. ASSUME NEW n \in Nat, n \in S PROVE n + 1 \in S
  <2>1. SUFFICES ASSUME n + 1 <= m PROVE Held(n + 1)
    OBVIOUS
  <2> DEFINE x == Row(s, n + 1)
             a == f[n]
             b == f[n + 1]
  <2>2. Held(n) /\ n + 1 \in 1 .. m /\ b = Applied(a, x)
    BY <1>1, <1>3, <1>6, <2>1
  <2>3. x.t = s.t
    BY DEF Row
  <2>4. SettledIn(u, x) /\ Met(a, u, x)
    BY <1>4, <1>9, <2>1, <2>2
  <2> HIDE DEF x
  <2>5. IsGraph(b) /\ GraphIn(a, b) /\ GraphIn(b, u)
    BY <1>1, <2>2, <2>3, <2>4, RowGrows
  <2>6. GraphIn(g, b)
    BY <2>2, <2>5, GraphTransitive
  <2>7. ASSUME NEW l \in Labels, NEW k \in DOMAIN b.nodes[l] \ DOMAIN g.nodes[l] PROVE By(l, k, n + 1)
    <3>1. CASE k \in DOMAIN a.nodes[l]
      <4>1. By(l, k, n)
        BY <2>2, <2>7, <3>1
      <4>2. PICK i \in 1 .. n : k = KeyOf(Row(s, i)) /\ Shown(a, Row(s, i))
        BY <4>1
      <4>3. Row(s, i).t.label \in Labels /\ i \in 1 .. n + 1
        BY <4>1 DEF Row
      <4>4. Shown(b, Row(s, i))
        BY <2>5, <4>2, <4>3, ShownStays
      <4> QED
        BY <4>1, <4>2, <4>3, <4>4
    <3>2. CASE k \notin DOMAIN a.nodes[l]
      <4>1. s.t.kind # "edge"
        <5>1. ASSUME s.t.kind = "edge" PROVE FALSE
          <6>1. EdgesSet(b, a, EdgesOf(a, x.t, x.row), x.row.set)
            BY <2>2, <2>3, <5>1, EdgeApplied
          <6> QED
            BY <2>7, <3>2, <6>1 DEF EdgesSet
        <5> QED
          BY <5>1
      <4>2. NodesSet(b, a, x.t.label, NodesOf(a, x), x.row)
        BY <1>1, <2>2, <2>3, <4>1, NodeApplied
      <4>3. l = x.t.label
        BY <2>7, <3>2, <4>2 DEF NodesSet
      <4>4. IsSetIn(b.nodes[l], a.nodes[l], NodesOf(a, x), x.row)
        BY <4>2, <4>3, SetInIs DEF NodesSet
      <4>5. k \in NodesOf(a, x)
        BY <2>7, <3>2, <4>4 DEF IsSetIn
      <4>6. Find(a, x.t.label, KeyOf(x)) \subseteq DOMAIN a.nodes[l]
        BY <4>3 DEF Find
      <4>7. x.t.kind = "node" /\ k = KeyOf(x)
        BY <3>2, <4>5, <4>6 DEF NodesOf
      <4>8. b.nodes[l][k] = SetProps(OldProps(a.nodes[l], k), x.row)
        BY <4>4, <4>5 DEF IsSetIn
      <4>9. \A p \in DOMAIN x.row : x.row[p] # Null =>
              p \in DOMAIN b.nodes[l][k] /\ b.nodes[l][k][p] = x.row[p]
        BY <4>8, SetPropsAre
      <4>10. Shown(b, x)
        BY <2>7, <4>3, <4>7, <4>9 DEF Shown
      <4>11. n + 1 \in 1 .. n + 1
        OBVIOUS
      <4> QED
        BY <2>3, <4>3, <4>7, <4>10, <4>11 DEF x
    <3> QED
      BY <3>1, <3>2
  <2> HIDE DEF By
  <2> QED
    BY <2>5, <2>6, <2>7
<1> HIDE DEF S
<1>7. Nat \subseteq S
  BY <1>5, <1>6, InductionOnNat
<1>8. Made(m)
  BY <1>1, <1>7 DEF S
<1> QED
  BY <1>3, <1>8 DEF m

\* A row of some disk made the node k, or reached the edge e.
NodeSent(g, l, k) ==
  \E x \in EveryRow : IsNode(x, l) /\ k = KeyOf(x) /\ Shown(g, x)
EdgeSent(g, e) ==
  \E x \in EveryRow : x.t.kind = "edge" /\ Fits(x.t) /\ e \in EdgesOf(g, x.t, x.row)
AllSent(g) ==
  /\ \A l \in Labels : \A k \in DOMAIN g.nodes[l] : NodeSent(g, l, k)
  /\ \A e \in DOMAIN g.edges : EdgeSent(g, e)

LEMMA StillSent ==
  ASSUME NEW g, NEW h, GraphIn(g, h)
  PROVE  /\ \A l \in Labels : \A k : NodeSent(g, l, k) => NodeSent(h, l, k)
         /\ \A e : EdgeSent(g, e) => EdgeSent(h, e)
<1>1. ASSUME NEW l \in Labels, NEW k, NodeSent(g, l, k) PROVE NodeSent(h, l, k)
  <2>1. PICK x \in EveryRow : IsNode(x, l) /\ k = KeyOf(x) /\ Shown(g, x)
    BY <1>1 DEF NodeSent
  <2>2. Shown(h, x)
    BY <2>1, ShownStays DEF IsNode
  <2> QED
    BY <2>1, <2>2 DEF NodeSent
<1>2. ASSUME NEW e, EdgeSent(g, e) PROVE EdgeSent(h, e)
  <2>1. PICK x \in EveryRow : x.t.kind = "edge" /\ Fits(x.t) /\ e \in EdgesOf(g, x.t, x.row)
    BY <1>2 DEF EdgeSent
  <2>2. e \in EdgesOf(h, x.t, x.row)
    BY <2>1, ReachesMore
  <2> QED
    BY <2>1, <2>2 DEF EdgeSent
<1> QED
  BY <1>1, <1>2

LEMMA AllSentStays ==
  ASSUME NEW most, FilesSettle(most), Inv(most), ~Early => AllSent(graph), [Next]_vars, ~Early'
  PROVE  AllSent(graph')
<1>1. CASE graph' = graph
  BY <1>1 DEF Early
<1>2. CASE graph' # graph
  <2>1. Send
    BY <1>2, OnlySendWrites
  <2> DEFINE s == Head(at.script)
             h == SentTo(graph, s)
             u == most[disk]
  <2>2. result = "running" /\ at.script # <<>> /\ graph' = h
    BY <1>2, <2>1 DEF Send, Sent, SentTo
  <2>3. /\ Position /\ disk \in Disks /\ IsGraph(graph) /\ GraphIn(graph, u) /\ IsGraph(u)
        /\ "Lemma" \in Labels /\ Quiet(graph, s) /\ GraphIn(graph, h) /\ AllSent(graph)
    <3>1. GraphIn(graph, h) /\ Quiet(graph, s) /\ ~Early
      BY <2>1, <2>2, SendKeeps
    <3> QED
      BY <2>2, <3>1 DEF Inv, Bounded, Position, FilesSettle, Ceiling, LemmasSettle
  <2>4. Statement(s)
    BY <2>2, <2>3, Ahead
  <2>5. \A n \in 1 .. Len(s.rows) :
          /\ Row(s, n) \in AllRowed(disk) /\ Fits(Row(s, n).t)
          /\ SettledIn(u, Row(s, n)) /\ Owns(u, Row(s, n))
    BY <2>2, <2>3, AheadOwns
  <2>6. \A n \in 1 .. Len(s.rows) : Row(s, n) \in EveryRow
    BY <2>3, <2>5 DEF EveryRow
  <2>8. \A n : Row(s, n).t = s.t /\ Row(s, n).row = s.rows[n]
    BY DEF Row
  <2> HIDE DEF s, u
  <2>9. ASSUME NEW l \in Labels, NEW k \in DOMAIN h.nodes[l] PROVE NodeSent(h, l, k)
    <3>1. CASE k \in DOMAIN graph.nodes[l]
      BY <2>3, <3>1, StillSent DEF AllSent
    <3>2. CASE k \notin DOMAIN graph.nodes[l]
      <4>1. s.t.kind = "node" /\ s.t.label = l
              /\ \E n \in 1 .. Len(s.rows) : k = KeyOf(Row(s, n)) /\ Shown(h, Row(s, n))
        BY <2>3, <2>4, <2>5, <2>9, <3>2, BatchNodes
      <4> QED
        BY <2>6, <2>8, <4>1 DEF NodeSent, IsNode
    <3> QED
      BY <3>1, <3>2
  <2>10. ASSUME NEW e \in DOMAIN h.edges PROVE EdgeSent(h, e)
    <3>1. CASE e \in DOMAIN graph.edges
      BY <2>3, <3>1, StillSent DEF AllSent
    <3>2. CASE e \notin DOMAIN graph.edges
      <4>1. s.t.kind = "edge" /\ \E n \in 1 .. Len(s.rows) : e \in EdgesOf(h, s.t, s.rows[n])
        BY <2>3, <2>4, <2>10, <3>2, BatchEdges
      <4> QED
        BY <2>5, <2>6, <2>8, <4>1 DEF EdgeSent
    <3> QED
      BY <3>1, <3>2
  <2> HIDE DEF h
  <2> QED
    BY <2>2, <2>9, <2>10 DEF AllSent
<1> QED
  BY <1>1, <1>2

LEMMA AllSentInit == ASSUME Init PROVE AllSent(graph)
<1>1. graph = EmptyGraph(Labels)
  BY DEF Init
<1>2. graph.edges = <<>> /\ \A l \in Labels : graph.nodes[l] = <<>>
  BY <1>1 DEF EmptyGraph
<1>3. DOMAIN <<>> = {}
  OBVIOUS
<1> QED
  BY <1>2, <1>3 DEF AllSent

-----------------------------------------------------------------------------
(* Limits and counts. *)

\* Among numbers below a bound there is a largest one.
LEMMA LargestNumber ==
  ASSUME NEW S, S # {}, NEW bound \in Nat, NEW w \in [S -> 0 .. bound]
  PROVE  \E x \in S : \A y \in S : w[x] >= w[y]
<1> DEFINE T == {bound - w[x] : x \in S}
<1>1. T \subseteq Nat /\ T # {}
  OBVIOUS
<1>2. PICK t \in T : \A s \in T : t <= s
  BY <1>1, LeastNumber
<1>3. PICK x \in S : t = bound - w[x]
  BY <1>2
<1>4. \A y \in S : bound - w[x] <= bound - w[y]
  BY <1>2, <1>3
<1>5. \A y \in S : w[x] >= w[y]
  <2>1. \A y \in S : w[x] \in Int /\ w[y] \in Int
    OBVIOUS
  <2> HIDE DEF T
  <2> QED
    BY <1>4, <2>1
<1> QED
  BY <1>5

\* The members of T weigh no less than the rest of S.
Heaviest(T, S, w) == \A x \in T, y \in S \ T : w[x] >= w[y]

LEMMA HeaviestExist ==
  ASSUME NEW S, IsFiniteSet(S), NEW bound \in Nat, NEW w \in [S -> 0 .. bound],
         NEW n \in Nat, n <= Cardinality(S)
  PROVE  \E T \in kSubset(n, S) : Heaviest(T, S, w)
<1> DEFINE N == {m \in Nat : m <= Cardinality(S) => \E T \in kSubset(m, S) : Heaviest(T, S, w)}
<1>1. Cardinality(S) \in Nat
  BY FS_CardinalityType
<1>2. 0 \in N
  <2>1. {} \in kSubset(0, S) /\ Heaviest({}, S, w)
    BY FS_EmptySet DEF kSubset, Heaviest
  <2> QED
    BY <2>1
<1>3. ASSUME NEW m \in Nat, m \in N PROVE m + 1 \in N
  <2>1. SUFFICES ASSUME m + 1 <= Cardinality(S)
                 PROVE  \E T \in kSubset(m + 1, S) : Heaviest(T, S, w)
    OBVIOUS
  <2>2. PICK T \in kSubset(m, S) : Heaviest(T, S, w)
    BY <1>1, <1>3, <2>1
  <2>3. T \subseteq S /\ Cardinality(T) = m /\ IsFiniteSet(T)
    BY <2>2, FS_Subset DEF kSubset
  <2>4. S \ T # {}
    <3>1. ASSUME S \ T = {} PROVE FALSE
      <4>1. S = T
        BY <2>3, <3>1
      <4> QED
        BY <1>1, <2>1, <2>3, <4>1
    <3> QED
      BY <3>1
  <2>5. [x \in S \ T |-> w[x]] \in [S \ T -> 0 .. bound]
    OBVIOUS
  <2>6. PICK x \in S \ T : \A y \in S \ T : [z \in S \ T |-> w[z]][x] >= [z \in S \ T |-> w[z]][y]
    BY <2>4, <2>5, LargestNumber
  <2>7. \A y \in S \ T : w[x] >= w[y]
    BY <2>6
  <2>8. T \cup {x} \in kSubset(m + 1, S)
    <3>1. Cardinality(T \cup {x}) = m + 1
      BY <2>3, FS_AddElement
    <3> QED
      BY <2>3, <3>1 DEF kSubset
  <2>9. Heaviest(T \cup {x}, S, w)
    BY <2>2, <2>7 DEF Heaviest
  <2> QED
    BY <2>8, <2>9
<1> HIDE DEF N
<1>4. Nat \subseteq N
  BY <1>2, <1>3, InductionOnNat
<1> QED
  BY <1>4 DEF N

LEMMA TopIs ==
  ASSUME NEW S, IsFiniteSet(S), NEW bound \in Nat, NEW w \in [S -> 0 .. bound], NEW n \in Nat
  PROVE  /\ Top(S, n, w) \subseteq S
         /\ Cardinality(Top(S, n, w)) = MinOf(n, Cardinality(S))
<1> DEFINE m == MinOf(n, Cardinality(S))
<1>1. m \in Nat /\ m <= Cardinality(S)
  BY FS_CardinalityType DEF MinOf
<1>2. \E T \in kSubset(m, S) : Heaviest(T, S, w)
  <2> HIDE DEF m
  <2> QED
    BY <1>1, HeaviestExist
<1>3. Top(S, n, w) = CHOOSE T \in kSubset(m, S) : Heaviest(T, S, w)
  BY DEF Top, Heaviest
<1> HIDE DEF m
<1>4. Top(S, n, w) \in kSubset(m, S)
  BY <1>2, <1>3
<1> QED
  BY <1>4 DEF kSubset, m

LEMMA SomeIs ==
  ASSUME NEW S, IsFiniteSet(S), NEW n \in Nat
  PROVE  Some(S, n) \subseteq S /\ Cardinality(Some(S, n)) = MinOf(n, Cardinality(S))
<1>1. [x \in S |-> 0] \in [S -> 0 .. 0] /\ 0 \in Nat
  OBVIOUS
<1> QED
  BY <1>1, TopIs DEF Some

\* A column in which no two rows agree has as many values as there are rows.
LEMMA AsManyValues ==
  ASSUME NEW S, IsFiniteSet(S), NEW f, \A x, y \in S : f[x] = f[y] => x = y
  PROVE  IsFiniteSet({f[x] : x \in S}) /\ Cardinality({f[x] : x \in S}) = Cardinality(S)
<1> DEFINE T == {f[x] : x \in S}
           h == [x \in S |-> f[x]]
<1>1. h \in [S -> T] /\ (\A x, y \in S : h[x] = h[y] => x = y) /\ \A t \in T : \E x \in S : h[x] = t
  OBVIOUS
<1> HIDE DEF T, h
<1>2. h \in Bijection(S, T)
  BY <1>1 DEF Bijection, Injection, Surjection, IsInjective
<1>3. ExistsBijection(S, T)
  BY <1>2 DEF ExistsBijection
<1> QED
  BY <1>3, FS_Bijection DEF T

\* What f gives of a set; f gives of each member something of its own.
Column(S, f)   == {f[x] : x \in S}
Distinct(S, f) == \A x, y \in S : f[x] = f[y] => x = y

LEMMA ValuesOfSome ==
  ASSUME NEW S, IsFiniteSet(S), NEW n \in Nat, NEW f, Distinct(S, f)
  PROVE  /\ Column(Some(S, n), f) \subseteq Column(S, f)
         /\ Cardinality(Column(Some(S, n), f)) = MinOf(n, Cardinality(Column(S, f)))
         /\ Cardinality(Column(S, f)) = Cardinality(S)
<1> DEFINE P == Some(S, n)
<1>1. P \subseteq S /\ Cardinality(P) = MinOf(n, Cardinality(S))
  BY SomeIs
<1> HIDE DEF P
<1>2. IsFiniteSet(P)
  BY <1>1, FS_Subset
<1>3. (\A x, y \in P : f[x] = f[y] => x = y) /\ \A x, y \in S : f[x] = f[y] => x = y
  BY <1>1 DEF Distinct
<1>4. Cardinality({f[x] : x \in P}) = Cardinality(P) /\ Cardinality({f[x] : x \in S}) = Cardinality(S)
  BY <1>2, <1>3, AsManyValues
<1> QED
  BY <1>1, <1>4 DEF P, Column

\* Sets without a common member, counted one by one.
Apart(R, G)  == \A r, q \in R : r # q => G[r] \cap G[q] = {}
Merged(R, G) == UNION {G[r] : r \in R}
Paired(R, G) == UNION {{r} \X (1 .. Cardinality(G[r])) : r \in R}

LEMMA PairedIsMerged ==
  ASSUME NEW R, NEW G, IsFiniteSet(Merged(R, G)), Apart(R, G)
  PROVE  Cardinality(Paired(R, G)) = Cardinality(Merged(R, G))
<1> DEFINE S == UNION {G[r] : r \in R}
           T == UNION {{r} \X (1 .. Cardinality(G[r])) : r \in R}
<1>0. IsFiniteSet(S) /\ \A r, q \in R : r # q => G[r] \cap G[q] = {}
  BY DEF Merged, Apart
<1> DEFINE b(r) == CHOOSE f : f \in Bijection(G[r], 1 .. Cardinality(G[r]))
           At(x) == CHOOSE r \in R : x \in G[r]
           h    == [x \in S |-> <<At(x), b(At(x))[x]>>]
<1>1. ASSUME NEW r \in R PROVE b(r) \in Bijection(G[r], 1 .. Cardinality(G[r]))
  <2>1. G[r] \subseteq S
    OBVIOUS
  <2> HIDE DEF S
  <2>2. IsFiniteSet(G[r]) /\ IsFiniteSet(S)
    BY <1>0, <2>1, FS_Subset
  <2>3. Cardinality(G[r]) \in Nat
    BY <2>2, FS_CardinalityType
  <2>4. IsFiniteSet(1 .. Cardinality(G[r])) /\ Cardinality(1 .. Cardinality(G[r])) = Cardinality(G[r])
    <3>1. \A m \in Nat : 1 \in Int /\ m \in Int /\ (IF 1 > m THEN 0 ELSE m - 1 + 1) = m
      OBVIOUS
    <3>2. \A a, c \in Int : /\ IsFiniteSet(a .. c)
                            /\ Cardinality(a .. c) = IF a > c THEN 0 ELSE c - a + 1
      BY FS_Interval
    <3> QED
      BY <2>3, <3>1, <3>2
  <2>5. ExistsBijection(G[r], 1 .. Cardinality(G[r]))
    BY <2>2, <2>4, FS_SameCardinalityBij
  <2> QED
    BY <2>5 DEF ExistsBijection
<1>2. ASSUME NEW r \in R
      PROVE  /\ b(r) \in [G[r] -> 1 .. Cardinality(G[r])]
             /\ \A x, y \in G[r] : b(r)[x] = b(r)[y] => x = y
             /\ \A n \in 1 .. Cardinality(G[r]) : \E x \in G[r] : b(r)[x] = n
  <2> DEFINE f == b(r)
  <2>1. f \in Bijection(G[r], 1 .. Cardinality(G[r]))
    BY <1>1
  <2> HIDE DEF f
  <2>2. f \in Injection(G[r], 1 .. Cardinality(G[r])) /\ f \in Surjection(G[r], 1 .. Cardinality(G[r]))
    BY <2>1 DEF Bijection
  <2>3. f \in [G[r] -> 1 .. Cardinality(G[r])] /\ \A x, y \in G[r] : f[x] = f[y] => x = y
    BY <2>2 DEF Injection, IsInjective
  <2>4. \A n \in 1 .. Cardinality(G[r]) : \E x \in G[r] : f[x] = n
    BY <2>2 DEF Surjection
  <2> QED
    BY <2>3, <2>4 DEF f
<1> HIDE DEF b
<1>3. ASSUME NEW x \in S, NEW r \in R, x \in G[r] PROVE At(x) = r
  <2>1. At(x) \in R /\ x \in G[At(x)]
    BY <1>3
  <2> QED
    BY <1>0, <1>3, <2>1
<1>4. \A x \in S : At(x) \in R /\ x \in G[At(x)]
  OBVIOUS
<1> HIDE DEF At
<1>5. \A r \in R : \A x \in G[r] : x \in S /\ h[x] = <<r, b(r)[x]>>
  BY <1>3
<1>6. h \in [S -> T]
  BY <1>2, <1>4
<1>7. \A x, y \in S : h[x] = h[y] => x = y
  BY <1>2, <1>4
<1>8. ASSUME NEW t \in T PROVE \E x \in S : h[x] = t
  <2>1. PICK r \in R : t \in {r} \X (1 .. Cardinality(G[r]))
    OBVIOUS
  <2>2. PICK n \in 1 .. Cardinality(G[r]) : t = <<r, n>>
    BY <2>1
  <2>3. PICK x \in G[r] : b(r)[x] = n
    BY <1>2
  <2> QED
    BY <1>5, <2>2, <2>3
<1> HIDE DEF h
<1>9. h \in Bijection(S, T)
  BY <1>6, <1>7, <1>8 DEF Bijection, Injection, Surjection, IsInjective
<1>10. ExistsBijection(S, T)
  BY <1>9 DEF ExistsBijection
<1> HIDE DEF S, T
<1>11. Cardinality(T) = Cardinality(S)
  BY <1>0, <1>10, FS_Bijection
<1> QED
  BY <1>11 DEF Merged, Paired, S, T

-----------------------------------------------------------------------------
(* The gate and the bundle. *)

\* All nodes of a label.
AllOf(label) == {<<label, k>> : k \in DOMAIN graph.nodes[label]}
\* What both are asked of: a store of finitely many nodes, all of them sent.
Sound ==
  IsGraph(graph) /\ AllSent(graph) /\ \A l \in Labels : IsFiniteSet(DOMAIN graph.nodes[l])

LEMMA SentIsSound ==
  ASSUME NEW most, FilesSettle(most), Inv(most), ~Early, AllSent(graph) PROVE Sound
<1>1. IsGraph(graph) /\ GraphIn(graph, most[disk]) /\ disk \in Disks
  BY DEF Inv, Bounded, Position
<1>2. ASSUME NEW l \in Labels PROVE IsFiniteSet(DOMAIN graph.nodes[l])
  <2>1. DOMAIN graph.nodes[l] \subseteq DOMAIN most[disk].nodes[l]
    BY <1>1 DEF GraphIn, AllIn
  <2>2. IsFiniteSet(DOMAIN most[disk].nodes[l])
    BY <1>1 DEF FilesSettle, Ceiling
  <2> QED
    BY <2>1, <2>2, FS_Subset
<1> QED
  BY <1>1, <1>2 DEF Sound

LEMMA EdgesStand ==
  ASSUME Sound, NEW e \in DOMAIN graph.edges
  PROVE  e.a \in AllOf(e.a[1]) /\ e.b \in AllOf(e.b[1])
<1>1. PICK x \in EveryRow : x.t.kind = "edge" /\ Fits(x.t) /\ e \in EdgesOf(graph, x.t, x.row)
  BY DEF Sound, AllSent, EdgeSent
<1>2. PICK j \in Matches(graph, x.t.a, x.row.from) : \E k \in Matches(graph, x.t.b, x.row.to) :
         e = [type |-> x.t.type, a |-> <<x.t.a.label, j>>, b |-> <<x.t.b.label, k>>, pat |-> x.row.pat]
  BY <1>1 DEF EdgesOf
<1>3. PICK k \in Matches(graph, x.t.b, x.row.to) :
         e = [type |-> x.t.type, a |-> <<x.t.a.label, j>>, b |-> <<x.t.b.label, k>>, pat |-> x.row.pat]
  BY <1>2
<1>4. j \in DOMAIN graph.nodes[x.t.a.label] /\ k \in DOMAIN graph.nodes[x.t.b.label]
  BY DEF Matches, Find
<1>5. e.a = <<x.t.a.label, j>> /\ e.b = <<x.t.b.label, k>>
  BY <1>3
<1> QED
  BY <1>4, <1>5 DEF AllOf

LEMMA Reached ==
  ASSUME Sound
  PROVE  /\ \A type, label, b : From(type, label, b) \subseteq AllOf(label)
         /\ \A type, a : \A n \in To(type, a) : n \in AllOf(n[1])
         /\ \A label, wanted : Nodes(label, wanted) \subseteq AllOf(label)
<1>1. \A type, label, b : From(type, label, b) \subseteq AllOf(label)
  BY EdgesStand DEF From
<1>2. \A type, a : \A n \in To(type, a) : n \in AllOf(n[1])
  BY EdgesStand DEF To
<1>3. \A label, wanted : Nodes(label, wanted) \subseteq AllOf(label)
  BY DEF Nodes, Find, AllOf
<1> QED
  BY <1>1, <1>2, <1>3

LEMMA AllAreFinite == ASSUME Sound, NEW label \in Labels PROVE IsFiniteSet(AllOf(label))
<1> DEFINE D == DOMAIN graph.nodes[label]
           f == [k \in D |-> <<label, k>>]
<1>1. IsFiniteSet(D)
  BY DEF Sound
<1>2. AllOf(label) = {<<label, k>> : k \in D}
  BY DEF AllOf
<1> HIDE DEF D
<1>3. f \in Surjection(D, AllOf(label))
  BY <1>2 DEF Surjection
<1> QED
  BY <1>1, <1>3, FS_Surjection

\* What the row that made a node gave it, it has.
LEMMA HasGiven ==
  ASSUME Sound, NEW label \in Labels, NEW n \in AllOf(label)
  PROVE  n[1] = label /\
         \E x \in EveryRow :
           /\ IsNode(x, label) /\ n = <<label, KeyOf(x)>>
           /\ \A f : Given(x, f) => Prop(n, f) = x.row[f] /\ Prop(n, f) # Null
<1>1. PICK k \in DOMAIN graph.nodes[label] : n = <<label, k>>
  BY DEF AllOf
<1>2. PICK x \in EveryRow : IsNode(x, label) /\ k = KeyOf(x) /\ Shown(graph, x)
  BY DEF Sound, AllSent, NodeSent
<1>3. n[1] = label /\ n[2] = KeyOf(x) /\ x.t.label = label
  BY <1>1, <1>2 DEF IsNode
<1>4. \A f : Given(x, f) => Prop(n, f) = x.row[f] /\ Prop(n, f) # Null
  BY <1>2, <1>3 DEF Given, Shown, Prop
<1> QED
  BY <1>1, <1>2, <1>3, <1>4

\* What a node was found by, it has.
LEMMA HasFound ==
  /\ \A label, v : \A n \in Nodes(label, [id |-> v]) : Prop(n, "id") = v
  /\ \A label, v : \A n \in Nodes(label, [verse |-> v]) : Prop(n, "verse") = v
  /\ \A label, v : \A n \in Nodes(label, [from_ref |-> v]) : Prop(n, "from_ref") = v
  /\ \A label, v : \A n \in AllOf(label) :
       Prop(n, "strong") = v /\ v # Null => n \in Nodes(label, [strong |-> v])
<1>1. \A n, label, k : n = <<label, k>> => n[1] = label /\ n[2] = k
  OBVIOUS
<1>2. \A v : /\ DOMAIN [id |-> v] = {"id"} /\ DOMAIN [verse |-> v] = {"verse"}
             /\ DOMAIN [from_ref |-> v] = {"from_ref"} /\ DOMAIN [strong |-> v] = {"strong"}
  OBVIOUS
<1>3. \A label, v : \A n \in Nodes(label, [id |-> v]) : Prop(n, "id") = v
  BY <1>1, <1>2 DEF Nodes, Find, Has, Prop
<1>4. \A label, v : \A n \in Nodes(label, [verse |-> v]) : Prop(n, "verse") = v
  BY <1>1, <1>2 DEF Nodes, Find, Has, Prop
<1>5. \A label, v : \A n \in Nodes(label, [from_ref |-> v]) : Prop(n, "from_ref") = v
  BY <1>1, <1>2 DEF Nodes, Find, Has, Prop
<1>6. \A label, v : \A n \in AllOf(label) :
        Prop(n, "strong") = v /\ v # Null => n \in Nodes(label, [strong |-> v])
  BY <1>1, <1>2 DEF Nodes, Find, Has, Prop, AllOf
<1> QED
  BY <1>3, <1>4, <1>5, <1>6

\* Tokens are instances of lemmas.
LEMMA LemmasOfTokens ==
  ASSUME Sound, BundleSettles, NEW t, t[1] = "TaggedToken", NEW l \in To("INSTANCE_OF", t)
  PROVE  l \in AllOf("Lemma") \cup AllOf("GreekLemma")
<1>1. PICK e \in DOMAIN graph.edges : e.type = "INSTANCE_OF" /\ e.a = t /\ e.b = l
  BY DEF To
<1>2. PICK x \in EveryRow : x.t.kind = "edge" /\ e \in EdgesOf(graph, x.t, x.row)
  BY DEF Sound, AllSent, EdgeSent
<1>3. e.type = x.t.type /\ e.a[1] = x.t.a.label /\ e.b[1] = x.t.b.label
  BY <1>2 DEF EdgesOf
<1>4. x.t.b.label \in {"Lemma", "GreekLemma"}
  BY <1>1, <1>2, <1>3 DEF BundleSettles, RowOfBundle
<1>5. l \in AllOf(l[1])
  BY Reached
<1> QED
  BY <1>1, <1>3, <1>4, <1>5

LEMMA FromIs == \A type, label, b : \A n \in From(type, label, b) :
  n[1] = label /\ \E e \in DOMAIN graph.edges : e.type = type /\ e.a = n /\ e.b = b
BY DEF From

\* A word of a verse has a text.
LEMMA WordsHaveText ==
  ASSUME Sound, BundleSettles, NEW v, NEW w \in From("IN_VERSE", "Word", v)
  PROVE  Prop(w, "surface") # Null \/ Prop(w, "text") # Null
<1>1. PICK e \in DOMAIN graph.edges : e.type = "IN_VERSE" /\ e.a = w /\ e.b = v
  BY FromIs
<1>0. w[1] = "Word"
  BY FromIs
<1>2. PICK x \in EveryRow : x.t.kind = "edge" /\ e \in EdgesOf(graph, x.t, x.row)
  BY DEF Sound, AllSent, EdgeSent
<1>3. /\ e.type = x.t.type /\ e.a[1] = x.t.a.label
      /\ e.a = <<e.a[1], e.a[2]>> /\ e.a[2] \in Matches(graph, x.t.a, x.row.from)
  BY <1>2 DEF EdgesOf
<1>4. /\ x.t.a.prop = "id"
      /\ \A y \in EveryRow : IsNode(y, "Word") /\ y.row.id = x.row.from =>
           Given(y, "surface") \/ Given(y, "text")
  BY <1>0, <1>1, <1>2, <1>3 DEF BundleSettles, RowOfBundle
<1>5. Prop(w, "id") = x.row.from
  <2>1. Has(graph.nodes["Word"][w[2]], Put(x.t.a.fixed, "id", x.row.from))
    BY <1>0, <1>1, <1>3, <1>4 DEF Matches, Find
  <2>2. /\ "id" \in DOMAIN Put(x.t.a.fixed, "id", x.row.from)
        /\ Put(x.t.a.fixed, "id", x.row.from)["id"] = x.row.from
    BY DEF Put
  <2> QED
    BY <1>0, <2>1, <2>2 DEF Has, Prop
<1>6. w \in AllOf("Word") /\ "Word" \in Labels
  BY Reached DEF BundleSettles, BundleLabels
<1>7. PICK y \in EveryRow :
         IsNode(y, "Word") /\ \A f : Given(y, f) => Prop(w, f) = y.row[f] /\ Prop(w, f) # Null
  BY <1>6, HasGiven
<1>8. y.row.id = x.row.from
  BY <1>5, <1>7 DEF BundleSettles, RowOfBundle
<1> QED
  BY <1>4, <1>7, <1>8

\* A verse of an anchor is called by it.
LEMMA VersesAreNamed ==
  ASSUME Sound, BundleSettles, NEW q \in Questions, NEW r \in Range(AnchorRefs(q)),
         NEW v \in Nodes("Verse", [id |-> VerseId(r)])
  PROVE  Prop(v, "osis") = r
<1>1. v \in AllOf("Verse") /\ "Verse" \in Labels
  BY Reached DEF BundleSettles, BundleLabels
<1>2. PICK x \in EveryRow :
         IsNode(x, "Verse") /\ \A f : Given(x, f) => Prop(v, f) = x.row[f] /\ Prop(v, f) # Null
  BY <1>1, HasGiven
<1>3. /\ Given(x, "id") /\ Given(x, "osis")
      /\ (x.row.id = VerseId(r) => x.row.osis = r)
  BY <1>2 DEF BundleSettles, RowOfBundle
<1>4. Prop(v, "id") = VerseId(r)
  BY HasFound
<1> QED
  BY <1>2, <1>3, <1>4

\* Variation units and cross references are the nodes of their own ids.
LEMMA OwnIds ==
  ASSUME Sound, BundleSettles
  PROVE  /\ \A u \in AllOf("VariantUnit") :
              /\ u = <<"VariantUnit", [variant_unit_id |-> Prop(u, "variant_unit_id")]>>
              /\ Prop(u, "verse") \in ThreeJohnVerses
         /\ \A c \in AllOf("CrossRef") : c = <<"CrossRef", [id |-> Prop(c, "id")]>>
<1>1. {"VariantUnit", "CrossRef"} \subseteq Labels
  BY DEF BundleSettles, BundleLabels
<1>2. ASSUME NEW u \in AllOf("VariantUnit")
      PROVE  /\ u = <<"VariantUnit", [variant_unit_id |-> Prop(u, "variant_unit_id")]>>
             /\ Prop(u, "verse") \in ThreeJohnVerses
  <2>1. PICK x \in EveryRow :
           /\ IsNode(x, "VariantUnit") /\ u = <<"VariantUnit", KeyOf(x)>>
           /\ \A f : Given(x, f) => Prop(u, f) = x.row[f] /\ Prop(u, f) # Null
    BY <1>1, <1>2, HasGiven
  <2>2. /\ x.t.keys = {"variant_unit_id"} /\ Given(x, "variant_unit_id")
        /\ Given(x, "verse") /\ x.row.verse \in ThreeJohnVerses
    BY <2>1 DEF BundleSettles, RowOfBundle
  <2>3. KeyOf(x) = [variant_unit_id |-> x.row.variant_unit_id]
    BY <2>2 DEF KeyOf, Restrict
  <2> QED
    BY <2>1, <2>2, <2>3
<1>3. ASSUME NEW c \in AllOf("CrossRef") PROVE c = <<"CrossRef", [id |-> Prop(c, "id")]>>
  <2>1. PICK x \in EveryRow :
           /\ IsNode(x, "CrossRef") /\ c = <<"CrossRef", KeyOf(x)>>
           /\ \A f : Given(x, f) => Prop(c, f) = x.row[f] /\ Prop(c, f) # Null
    BY <1>1, <1>3, HasGiven
  <2>2. x.t.keys = {"id"} /\ Given(x, "id")
    BY <2>1 DEF BundleSettles, RowOfBundle
  <2>3. KeyOf(x) = [id |-> x.row.id]
    BY <2>2 DEF KeyOf, Restrict
  <2> QED
    BY <2>1, <2>2, <2>3
<1> QED
  BY <1>2, <1>3

\* The anchors of a question are finitely many.
LEMMA RefsAreFinite ==
  ASSUME NEW q \in Questions
  PROVE  IsFiniteSet(DOMAIN AnchorRefs(q))
<1> DEFINE T == {Osis(BookNames[a.book], a.chapter, a.lo + i - 1) : a \in Parsed, i \in Nat}
           f == [i \in DOMAIN q |-> ToOsis(q[i])]
<1>1. q \in Seq({Unparsed} \cup Parsed)
  BY QuestionsAssumption
<1>2. ASSUME NEW a \in {Unparsed} \cup Parsed PROVE ToOsis(a) \in Seq(T)
  <2>1. CASE a = Unparsed \/ a.book \notin DOMAIN BookNames
    BY <2>1, EmptySeq DEF ToOsis
  <2>2. CASE ~ (a = Unparsed \/ a.book \notin DOMAIN BookNames)
    <3>1. a \in Parsed /\ a.hi \in Nat /\ a.lo \in Nat
      BY <2>2 DEF Parsed
    <3>2. ToOsis(a) = [i \in 1 .. a.hi - a.lo + 1 |-> Osis(BookNames[a.book], a.chapter, a.lo + i - 1)]
      BY <2>2 DEF ToOsis
    <3>3. \A i \in 1 .. a.hi - a.lo + 1 : Osis(BookNames[a.book], a.chapter, a.lo + i - 1) \in T
      BY <3>1
    <3>4. PICK n \in Nat : 1 .. a.hi - a.lo + 1 = 1 .. n
      <4>1. CASE a.hi - a.lo + 1 \in Nat
        BY <4>1
      <4>2. CASE a.hi - a.lo + 1 \notin Nat
        <5>1. 1 .. a.hi - a.lo + 1 = 1 .. 0
          BY <3>1, <4>2
        <5> QED
          BY <5>1
      <4> QED
        BY <4>1, <4>2
    <3> HIDE DEF T
    <3>5. ToOsis(a) \in [1 .. n -> T]
      BY <3>2, <3>3, <3>4
    <3> QED
      BY <3>4, <3>5, SeqDef
  <2> QED
    BY <2>1, <2>2
<1> HIDE DEF T
<1>3. f \in [DOMAIN q -> Seq(T)]
  BY <1>1, <1>2, ElementOfSeq, LenProperties
<1>4. FlattenSeq(f) \in Seq(T)
  BY <1>1, <1>3, FlattenOf
<1>5. AnchorRefs(q) = FlattenSeq(f)
  BY DEF AnchorRefs, EachAll, Each
<1>6. DOMAIN AnchorRefs(q) = 1 .. Len(AnchorRefs(q)) /\ Len(AnchorRefs(q)) \in Nat
  BY <1>4, <1>5, LenProperties
<1>7. \A a, b \in Int : IsFiniteSet(a .. b)
  BY FS_Interval
<1>8. 1 \in Int /\ Len(AnchorRefs(q)) \in Int
  BY <1>6
<1> QED
  BY <1>6, <1>7, <1>8

\* The gate accepts what a sound store has on the anchors.
LEMMA GateIsOpen ==
  ASSUME Sound, BundleSettles, NEW refs
  PROVE  GateAccepts(refs, Projection(refs))
<1> DEFINE b == Projection(refs)
<1>1. /\ DOMAIN b.words = Range(refs)
      /\ \A r \in Range(refs) : b.strongs[r] = GateStrongs(r) /\ b.variants[r] = GateVariants(r)
      /\ b.not_in_ecm_scope = (Range(refs) \cap ThreeJohnVerses = {})
  <2> HIDE DEF Range
  <2> QED
    BY DEF Projection
<1> HIDE DEF b
<1>2. ThreeJohnFlag(b)
  BY <1>1 DEF ThreeJohnFlag
<1>3. ASSUME NEW r \in Range(refs) PROVE LemmaComplete(r, b)
  <2>1. SUFFICES ASSUME NEW s \in GateStrongs(r) PROVE GateLemmas(s) # {}
    BY <1>1 DEF LemmaComplete
  <2>2. PICK t \in GateTokens(r) : \E l \in To("INSTANCE_OF", t) : s = Prop(l, "strong") /\ s # Null
    BY <2>1 DEF GateStrongs
  <2>3. PICK l \in To("INSTANCE_OF", t) : s = Prop(l, "strong") /\ s # Null
    BY <2>2
  <2>4. t[1] = "TaggedToken"
    BY <2>2, FromIs DEF GateTokens
  <2>5. l \in AllOf("Lemma") \cup AllOf("GreekLemma")
    BY <2>3, <2>4, LemmasOfTokens
  <2> QED
    BY <2>3, <2>5, HasFound DEF GateLemmas
<1>4. ASSUME NEW r \in Range(refs) PROVE VariantComplete(r, b)
  <2>1. CASE r \in ThreeJohnVerses
    BY <1>1, <2>1 DEF VariantComplete
  <2>2. CASE r \notin ThreeJohnVerses
    <3>1. \A u \in Nodes("VariantUnit", [verse |-> r]) : FALSE
      BY <2>2, Reached, OwnIds, HasFound
    <3>2. GateVariants(r) = {}
      BY <3>1 DEF GateVariants
    <3> QED
      BY <1>1, <2>2, <3>2 DEF VariantComplete
  <2> QED
    BY <2>1, <2>2
<1> QED
  BY <1>2, <1>3, <1>4 DEF GateAccepts, b

\* Each word the gate sees is shown under its verse.
LEMMA WordsAreVouched ==
  ASSUME Sound, BundleSettles, NEW q \in Questions,
         NEW r \in Range(AnchorRefs(q)), NEW w \in GateWords(r)
  PROVE  \E row \in AnchorVerses(AnchorRefs(q)) :
           row.ref = r /\ \E x \in row.words : x.surface \in {Prop(w, "surface"), Prop(w, "text")} \ {Null}
<1> DEFINE Morphology(y) == {Prop(m, "strong") : m \in To("HAS_MORPHEME", y)}
           Surface(y) == IF Prop(y, "surface") # Null THEN Prop(y, "surface") ELSE Prop(y, "text")
           Word(y) == [surface |-> Surface(y), strong |-> Prop(y, "strong"), morphology |-> Morphology(y)]
           VerseRow(v) == [ref |-> Prop(v, "osis"), words |-> {Word(y) : y \in From("IN_VERSE", "Word", v)}]
<1>1. AnchorVerses(AnchorRefs(q)) = {VerseRow(v) : v \in VersesAt(AnchorRefs(q))}
  BY DEF AnchorVerses
<1>2. PICK v \in Nodes("Verse", [id |-> VerseId(r)]) : w \in From("IN_VERSE", "Word", v)
  BY DEF GateWords, GateVerses
<1>3. v \in VersesAt(AnchorRefs(q))
  BY DEF VersesAt
<1>4. Prop(v, "osis") = r
  BY VersesAreNamed
<1>5. Surface(w) \in {Prop(w, "surface"), Prop(w, "text")} \ {Null}
  BY <1>2, WordsHaveText
<1> HIDE DEF Surface, Morphology
<1>6. Word(w).surface = Surface(w) /\ VerseRow(v).ref = r /\ Word(w) \in VerseRow(v).words
  BY <1>2, <1>4
<1> HIDE DEF Word, VerseRow
<1> QED
  BY <1>1, <1>3, <1>5, <1>6

-----------------------------------------------------------------------------

\* _query_anchor_lemmas: what is counted, and where.
TokensAt(refs)  == UNION {From("IN_VERSE", "TaggedToken", v) : v \in VersesAt(refs)}
StrongsOf(t)    == {Prop(l, "strong") : l \in Lexemes(t)}
StrongsAt(refs) == UNION {StrongsOf(t) : t \in TokensAt(refs)}
CountedAt(refs) ==
  [s \in StrongsAt(refs) |-> Cardinality({t \in TokensAt(refs) : s \in StrongsOf(t)})]

LEMMA LemmasAreTop ==
  ASSUME NEW refs
  PROVE  {l.strong : l \in AnchorLemmas(refs)} = Top(StrongsAt(refs), ANCHOR_LEMMA_LIMIT, CountedAt(refs))
<1> DEFINE T == Top(StrongsAt(refs), ANCHOR_LEMMA_LIMIT, CountedAt(refs))
           R(s) == [strong |-> s, occurrences_in_canon |-> Cardinality(CanonTokens(s))]
<1>1. AnchorLemmas(refs) = {R(s) : s \in T}
  BY DEF AnchorLemmas, TokensAt, StrongsOf, StrongsAt, CountedAt
<1>2. \A s : R(s).strong = s
  OBVIOUS
<1> HIDE DEF T, R
<1>3. \A x : x \in {l.strong : l \in AnchorLemmas(refs)} <=> x \in T
  BY <1>1, <1>2
<1> QED
  BY <1>3 DEF T

\* The tokens at the anchors, and their numbers, are finitely many.
LEMMA StrongsAreFinite ==
  ASSUME Sound, BundleSettles, NEW refs
  PROVE  IsFiniteSet(TokensAt(refs)) /\ IsFiniteSet(StrongsAt(refs))
<1> DEFINE S == StrongsAt(refs)
           A == AllOf("Lemma") \cup AllOf("GreekLemma")
           tokens == TokensAt(refs)
<1>1. {"Lemma", "GreekLemma", "TaggedToken"} \subseteq Labels
  BY DEF BundleSettles, BundleLabels
<1>2. IsFiniteSet(tokens)
  <2>1. tokens \subseteq AllOf("TaggedToken")
    BY Reached DEF TokensAt
  <2>2. IsFiniteSet(AllOf("TaggedToken"))
    BY <1>1, AllAreFinite
  <2> QED
    BY <2>1, <2>2, FS_Subset
<1>3. IsFiniteSet(S)
  <2> DEFINE f == [l \in A |-> Prop(l, "strong")]
             T == {Prop(l, "strong") : l \in A}
  <2>1. IsFiniteSet(A)
    BY <1>1, AllAreFinite, FS_Union
  <2>2. S \subseteq T
    <3>1. SUFFICES ASSUME NEW s \in S PROVE \E l \in A : s = Prop(l, "strong")
      OBVIOUS
    <3>2. PICK t \in tokens : s \in StrongsOf(t)
      BY <3>1 DEF StrongsAt
    <3>3. PICK l \in To("INSTANCE_OF", t) : s = Prop(l, "strong")
      BY <3>2 DEF StrongsOf, Lexemes
    <3>4. t[1] = "TaggedToken"
      BY <3>2, FromIs DEF TokensAt
    <3> QED
      BY <3>3, <3>4, LemmasOfTokens
  <2> HIDE DEF A, S
  <2>3. f \in Surjection(A, T)
    BY DEF Surjection
  <2>4. IsFiniteSet(T)
    <3> HIDE DEF f, T
    <3> QED
      BY <2>1, <2>3, FS_Surjection
  <2> QED
    BY <2>2, <2>4, FS_Subset
<1> QED
  BY <1>2, <1>3

LEMMA StrongsAgree ==
  ASSUME NEW refs
  PROVE  StrongsAt(refs) = UNION {GateStrongs(r) : r \in Range(refs)}
<1>1. \A t : \A s : s \in StrongsOf(t) <=> s # Null /\ \E l \in To("INSTANCE_OF", t) : s = Prop(l, "strong")
  BY DEF StrongsOf, Lexemes
<1>2. \A r : \A s : s \in GateStrongs(r) <=> \E t \in GateTokens(r) : s \in StrongsOf(t)
  BY <1>1 DEF GateStrongs
<1>3. \A t : t \in TokensAt(refs) <=> \E r \in Range(refs) : t \in GateTokens(r)
  <2> HIDE DEF Range
  <2>1. \A v : v \in VersesAt(refs) <=> \E r \in Range(refs) : v \in GateVerses(r)
    BY DEF VersesAt, GateVerses
  <2> QED
    BY <2>1 DEF TokensAt, GateTokens
<1> HIDE DEF Range
<1>4. \A s : s \in StrongsAt(refs) <=> \E t \in TokensAt(refs) : s \in StrongsOf(t)
  BY DEF StrongsAt
<1>5. \A s : s \in UNION {GateStrongs(r) : r \in Range(refs)} <=> \E r \in Range(refs) : s \in GateStrongs(r)
  OBVIOUS
<1>6. \A s : s \in StrongsAt(refs) <=> s \in UNION {GateStrongs(r) : r \in Range(refs)}
  BY <1>2, <1>3, <1>4, <1>5
<1> QED
  BY <1>6

LEMMA LemmasAreVouched ==
  ASSUME Sound, BundleSettles, NEW refs
  PROVE  Complete({l.strong : l \in AnchorLemmas(refs)},
                  UNION {GateStrongs(r) : r \in Range(refs)}, ANCHOR_LEMMA_LIMIT)
<1> DEFINE S == StrongsAt(refs)
           tokens == TokensAt(refs)
<1>2. IsFiniteSet(tokens)
  BY StrongsAreFinite
<1>3. IsFiniteSet(S)
  BY StrongsAreFinite
<1>4. CountedAt(refs) \in [S -> 0 .. Cardinality(tokens)] /\ Cardinality(tokens) \in Nat
  <2>1. Cardinality(tokens) \in Nat
    BY <1>2, FS_CardinalityType
  <2>2. ASSUME NEW s \in S
        PROVE  Cardinality({t \in tokens : s \in StrongsOf(t)}) \in 0 .. Cardinality(tokens)
    <3> DEFINE P == {t \in tokens : s \in StrongsOf(t)}
    <3>1. P \subseteq tokens
      OBVIOUS
    <3> HIDE DEF P, tokens
    <3>2. IsFiniteSet(P) /\ Cardinality(P) <= Cardinality(tokens)
      BY <1>2, <3>1, FS_Subset
    <3>3. Cardinality(P) \in Nat
      BY <3>2, FS_CardinalityType
    <3>4. Cardinality(P) \in 0 .. Cardinality(tokens)
      BY <2>1, <3>2, <3>3
    <3> QED
      BY <3>4 DEF P, tokens
  <2> QED
    BY <2>1, <2>2 DEF CountedAt
<1>5. ANCHOR_LEMMA_LIMIT \in Nat
  BY LimitsAssumption
<1> HIDE DEF S, tokens
<1>6. /\ Top(S, ANCHOR_LEMMA_LIMIT, CountedAt(refs)) \subseteq S
      /\ Cardinality(Top(S, ANCHOR_LEMMA_LIMIT, CountedAt(refs))) = MinOf(ANCHOR_LEMMA_LIMIT, Cardinality(S))
  BY <1>3, <1>4, <1>5, TopIs
<1>7. {l.strong : l \in AnchorLemmas(refs)} = Top(S, ANCHOR_LEMMA_LIMIT, CountedAt(refs))
  BY LemmasAreTop DEF S
<1>8. S = UNION {GateStrongs(r) : r \in Range(refs)}
  BY StrongsAgree DEF S
<1> QED
  BY <1>6, <1>7, <1>8 DEF Complete

\* _query_cross_refs
LEMMA CrossRefsAreVouched ==
  ASSUME Sound, BundleSettles, NEW refs
  PROVE  Cardinality(CrossRefs(refs)) =
           MinOf(CROSS_REF_LIMIT,
                 Cardinality(UNION {{r} \X (1 .. Cardinality(GateCrossRefs(r))) : r \in Range(refs)}))
<1> DEFINE all == UNION {CrossRefsFrom(r) : r \in Range(refs)}
           G   == [r \in Range(refs) |-> GateCrossRefs(r)]
           f   == [c \in all |-> [id |-> Prop(c, "id"), from |-> Prop(c, "from_ref"), to |-> Prop(c, "to_ref")]]
<1>1. \A r : GateCrossRefs(r) = CrossRefsFrom(r)
  BY DEF GateCrossRefs, CrossRefsFrom
<1>2. all \subseteq AllOf("CrossRef") /\ IsFiniteSet(all)
  <2>1. all \subseteq AllOf("CrossRef")
    BY Reached DEF CrossRefsFrom
  <2>2. IsFiniteSet(AllOf("CrossRef"))
    BY AllAreFinite DEF BundleSettles, BundleLabels
  <2> HIDE DEF all
  <2> QED
    BY <2>1, <2>2, FS_Subset
<1>3. ASSUME NEW c \in all, NEW d \in all, f[c] = f[d] PROVE c = d
  <2>1. f[c].id = Prop(c, "id") /\ f[d].id = Prop(d, "id")
    OBVIOUS
  <2>2. c \in AllOf("CrossRef") /\ d \in AllOf("CrossRef") /\ Prop(c, "id") = Prop(d, "id")
    BY <1>2, <1>3, <2>1
  <2> QED
    BY <2>2, OwnIds
<1>4. CROSS_REF_LIMIT \in Nat
  BY LimitsAssumption
<1>5. CrossRefs(refs) = {f[c] : c \in Some(all, CROSS_REF_LIMIT)}
  <2>1. Some(all, CROSS_REF_LIMIT) \subseteq all
    BY <1>2, <1>4, SomeIs
  <2> DEFINE picked == Some(all, CROSS_REF_LIMIT)
  <2>2. CrossRefs(refs) =
          {[id |-> Prop(c, "id"), from |-> Prop(c, "from_ref"), to |-> Prop(c, "to_ref")] : c \in picked}
    BY DEF CrossRefs
  <2> HIDE DEF picked, all
  <2> QED
    BY <2>1, <2>2 DEF picked
<1> HIDE DEF f
<1>6. Cardinality(CrossRefs(refs)) = MinOf(CROSS_REF_LIMIT, Cardinality(all))
  <2>1. Distinct(all, f)
    BY <1>3 DEF Distinct
  <2>2. Column(Some(all, CROSS_REF_LIMIT), f) = CrossRefs(refs)
    BY <1>5 DEF Column
  <2> HIDE DEF all
  <2>3. /\ Cardinality(Column(Some(all, CROSS_REF_LIMIT), f)) = MinOf(CROSS_REF_LIMIT, Cardinality(Column(all, f)))
        /\ Cardinality(Column(all, f)) = Cardinality(all)
    BY <1>2, <1>4, <2>1, ValuesOfSome
  <2> QED
    BY <2>2, <2>3
<1>7. all = UNION {G[r] : r \in Range(refs)}
  BY <1>1
<1>8. ASSUME NEW r \in Range(refs), NEW p \in Range(refs), r # p PROVE G[r] \cap G[p] = {}
  <2>1. ASSUME NEW c \in GateCrossRefs(r), c \in GateCrossRefs(p) PROVE FALSE
    <3>1. c \in Nodes("CrossRef", [from_ref |-> r]) /\ c \in Nodes("CrossRef", [from_ref |-> p])
      BY <2>1 DEF GateCrossRefs
    <3> QED
      BY <1>8, <3>1, HasFound
  <2> QED
    BY <2>1
<1>9. Merged(Range(refs), G) = all
  BY <1>7 DEF Merged
<1>10. Apart(Range(refs), G)
  BY <1>8 DEF Apart
<1>11. Paired(Range(refs), G) = UNION {{r} \X (1 .. Cardinality(GateCrossRefs(r))) : r \in Range(refs)}
  <2>1. \A r \in Range(refs) : G[r] = GateCrossRefs(r)
    OBVIOUS
  <2> HIDE DEF G, Range
  <2> QED
    BY <2>1 DEF Paired
<1> HIDE DEF all, G, Range
<1>12. Cardinality(Paired(Range(refs), G)) = Cardinality(all)
  BY <1>2, <1>9, <1>10, PairedIsMerged
<1> QED
  BY <1>6, <1>11, <1>12

\* _query_variant_units
LEMMA VariantsAreVouched ==
  ASSUME Sound, BundleSettles, NEW refs
  PROVE  /\ Complete({u.variant_id : u \in VariantUnits(refs)},
                     UNION {GateVariants(r) : r \in Range(refs)}, VARIANT_LIMIT)
         /\ Range(refs) \cap ThreeJohnVerses = {} => VariantUnits(refs) = {}
<1> DEFINE all == UNION {Nodes("VariantUnit", [verse |-> r]) : r \in Range(refs)}
           f   == [u \in all |-> Prop(u, "variant_unit_id")]
           picked == Some(all, VARIANT_LIMIT)
           R(u) == [ref |-> Prop(u, "verse"), variant_id |-> Prop(u, "variant_unit_id"),
                    readings |-> From("ATTESTED_BY", "Reading", u)]
<1>1. all \subseteq AllOf("VariantUnit") /\ IsFiniteSet(all)
  <2>1. all \subseteq AllOf("VariantUnit")
    BY Reached
  <2>2. IsFiniteSet(AllOf("VariantUnit"))
    BY AllAreFinite DEF BundleSettles, BundleLabels
  <2> HIDE DEF all
  <2> QED
    BY <2>1, <2>2, FS_Subset
<1>2. ASSUME NEW u \in all, NEW v \in all, f[u] = f[v] PROVE u = v
  <2>1. u \in AllOf("VariantUnit") /\ v \in AllOf("VariantUnit")
        /\ Prop(u, "variant_unit_id") = Prop(v, "variant_unit_id")
    BY <1>1, <1>2
  <2> QED
    BY <2>1, OwnIds
<1>3. VARIANT_LIMIT \in Nat
  BY LimitsAssumption
<1>4. picked \subseteq all
  <2> HIDE DEF all
  <2> QED
    BY <1>1, <1>3, SomeIs
<1>5. VariantUnits(refs) = {R(u) : u \in picked}
  BY DEF VariantUnits
<1>6. \A u : R(u).variant_id = Prop(u, "variant_unit_id")
  OBVIOUS
<1>7. \A u \in all : f[u] = Prop(u, "variant_unit_id")
  OBVIOUS
<1> HIDE DEF R, f
<1>8. {u.variant_id : u \in VariantUnits(refs)} = {f[u] : u \in picked}
  <2> HIDE DEF picked, all
  <2>1. \A x : x \in {u.variant_id : u \in VariantUnits(refs)} <=> \E u \in picked : x = Prop(u, "variant_unit_id")
    BY <1>5, <1>6
  <2>2. \A x : x \in {f[u] : u \in picked} <=> \E u \in picked : x = Prop(u, "variant_unit_id")
    BY <1>4, <1>7
  <2> QED
    BY <2>1, <2>2
<1>9. UNION {GateVariants(r) : r \in Range(refs)} = {f[u] : u \in all}
  <2>1. \A x : x \in UNION {GateVariants(r) : r \in Range(refs)} <=> \E u \in all : x = Prop(u, "variant_unit_id")
    <3> HIDE DEF Range
    <3>1. \A r, x : x \in GateVariants(r) <=>
            \E u \in Nodes("VariantUnit", [verse |-> r]) : x = Prop(u, "variant_unit_id")
      BY DEF GateVariants
    <3>2. \A x : x \in UNION {GateVariants(r) : r \in Range(refs)} <=> \E r \in Range(refs) : x \in GateVariants(r)
      OBVIOUS
    <3>3. \A u : u \in all <=> \E r \in Range(refs) : u \in Nodes("VariantUnit", [verse |-> r])
      OBVIOUS
    <3> HIDE DEF all
    <3> QED
      BY <3>1, <3>2, <3>3
  <2> HIDE DEF all
  <2>2. \A x : x \in {f[u] : u \in all} <=> \E u \in all : x = Prop(u, "variant_unit_id")
    BY <1>7
  <2> QED
    BY <2>1, <2>2
<1>10. /\ {f[u] : u \in picked} \subseteq {f[u] : u \in all}
       /\ Cardinality({f[u] : u \in picked}) = MinOf(VARIANT_LIMIT, Cardinality({f[u] : u \in all}))
  <2>1. Distinct(all, f)
    BY <1>2 DEF Distinct
  <2>2. Column(all, f) = {f[u] : u \in all} /\ Column(Some(all, VARIANT_LIMIT), f) = {f[u] : u \in picked}
    BY DEF Column
  <2> HIDE DEF all, picked
  <2>3. /\ Column(Some(all, VARIANT_LIMIT), f) \subseteq Column(all, f)
        /\ Cardinality(Column(Some(all, VARIANT_LIMIT), f)) = MinOf(VARIANT_LIMIT, Cardinality(Column(all, f)))
    BY <1>1, <1>3, <2>1, ValuesOfSome
  <2> QED
    BY <2>2, <2>3
<1>11. ASSUME Range(refs) \cap ThreeJohnVerses = {} PROVE VariantUnits(refs) = {}
  <2>1. ASSUME NEW u \in all PROVE FALSE
    <3>1. PICK r \in Range(refs) : u \in Nodes("VariantUnit", [verse |-> r])
      BY <2>1
    <3>2. Prop(u, "verse") = r /\ Prop(u, "verse") \in ThreeJohnVerses
      BY <1>1, <3>1, HasFound, OwnIds
    <3> QED
      BY <1>11, <3>2
  <2>2. picked = {}
    BY <1>4, <2>1
  <2> QED
    BY <1>5, <2>2
<1> QED
  BY <1>8, <1>9, <1>10, <1>11 DEF Complete

\* _query_syntactic_context
TreesOf(v) ==
  {t \in From("IN_VERSE", "BhsaWord", v) \X Nodes("BhsaClause", <<>>) \X Nodes("BhsaPhrase", <<>>) :
     t[3] \in From("CONTAINS_WORD", "BhsaPhrase", t[1])
       /\ t[2] \in From("CONTAINS_PHRASE", "BhsaClause", t[3])}
TreeRows(i, v) ==
  {SyntaxRow(i, v, t) : t \in IF TreesOf(v) = {} THEN {NoTree} ELSE TreesOf(v)}
AllTreeRows(refs) ==
  UNION {UNION {TreeRows(i, v) : v \in VersesAt(<<refs[i]>>)} : i \in DOMAIN refs}

LEMMA TreeRowsAreFinite ==
  ASSUME Sound, BundleSettles, NEW refs, IsFiniteSet(DOMAIN refs)
  PROVE  IsFiniteSet(AllTreeRows(refs))
<1>1. BundleLabels \subseteq Labels
  BY DEF BundleSettles
<1>2. ASSUME NEW S, NEW f, IsFiniteSet(S) PROVE IsFiniteSet({f[x] : x \in S})
  <2> DEFINE T == {f[x] : x \in S}
             g == [x \in S |-> f[x]]
  <2>1. g \in Surjection(S, T)
    BY DEF Surjection
  <2> HIDE DEF T, g
  <2>2. IsFiniteSet(T)
    BY <1>2, <2>1, FS_Surjection
  <2> QED
    BY <2>2 DEF T
<1>3. ASSUME NEW v PROVE IsFiniteSet(TreesOf(v))
  <2> DEFINE A == AllOf("BhsaWord")
             B == AllOf("BhsaClause")
             C == AllOf("BhsaPhrase")
  <2>1. IsFiniteSet(A) /\ IsFiniteSet(B) /\ IsFiniteSet(C)
    BY <1>1, AllAreFinite DEF BundleLabels
  <2>2. TreesOf(v) \subseteq A \X B \X C
    BY Reached DEF TreesOf
  <2> HIDE DEF A, B, C
  <2>3. TreesOf(v) \subseteq {<<y[1][1], y[1][2], y[2]>> : y \in (A \X B) \X C}
    <3>1. SUFFICES ASSUME NEW t \in TreesOf(v)
                   PROVE  t \in {<<y[1][1], y[1][2], y[2]>> : y \in (A \X B) \X C}
      OBVIOUS
    <3>2. t = <<t[1], t[2], t[3]>> /\ t[1] \in A /\ t[2] \in B /\ t[3] \in C
      BY <2>2
    <3> DEFINE y == <<<<t[1], t[2]>>, t[3]>>
    <3>3. y \in (A \X B) \X C /\ y[1][1] = t[1] /\ y[1][2] = t[2] /\ y[2] = t[3]
      BY <3>2
    <3> HIDE DEF y
    <3> QED
      BY <3>2, <3>3
  <2> DEFINE S == (A \X B) \X C
             f == [y \in S |-> <<y[1][1], y[1][2], y[2]>>]
  <2>4. IsFiniteSet(S)
    BY <2>1, FS_Product
  <2>5. {<<y[1][1], y[1][2], y[2]>> : y \in S} = {f[y] : y \in S}
    OBVIOUS
  <2> HIDE DEF S, f
  <2>6. IsFiniteSet({f[y] : y \in S})
    BY <1>2, <2>4
  <2>7. TreesOf(v) \subseteq {f[y] : y \in S}
    BY <2>3, <2>5 DEF S
  <2> HIDE DEF A
  <2> QED
    BY <2>6, <2>7, FS_Subset
<1>4. ASSUME NEW i, NEW v PROVE IsFiniteSet(TreeRows(i, v))
  <2> DEFINE T == IF TreesOf(v) = {} THEN {NoTree} ELSE TreesOf(v)
             f == [t \in T |-> SyntaxRow(i, v, t)]
  <2>1. TreeRows(i, v) = {f[t] : t \in T}
    BY DEF TreeRows
  <2>2. IsFiniteSet(T)
    BY <1>3, FS_Singleton
  <2> HIDE DEF f, T
  <2> QED
    BY <1>2, <2>1, <2>2
<1>5. ASSUME NEW i PROVE IsFiniteSet(UNION {TreeRows(i, v) : v \in VersesAt(<<refs[i]>>)})
  <2> DEFINE V == VersesAt(<<refs[i]>>)
             f == [v \in V |-> TreeRows(i, v)]
  <2>1. V \subseteq AllOf("Verse") /\ IsFiniteSet(AllOf("Verse"))
    BY <1>1, Reached, AllAreFinite DEF VersesAt, BundleLabels
  <2>2. {TreeRows(i, v) : v \in V} = {f[v] : v \in V} /\ \A v \in V : f[v] = TreeRows(i, v)
    OBVIOUS
  <2> HIDE DEF V, f
  <2>3. IsFiniteSet(V)
    BY <2>1, FS_Subset
  <2>4. IsFiniteSet({f[v] : v \in V}) /\ \A T \in {f[v] : v \in V} : IsFiniteSet(T)
    BY <1>2, <1>4, <2>2, <2>3
  <2>5. IsFiniteSet(UNION {f[v] : v \in V})
    BY <2>4, FS_UNION
  <2> QED
    BY <2>2, <2>5 DEF V
<1> DEFINE D == DOMAIN refs
           U(i) == UNION {TreeRows(i, v) : v \in VersesAt(<<refs[i]>>)}
           f == [i \in D |-> U(i)]
<1>6. {U(i) : i \in D} = {f[i] : i \in D} /\ \A i \in D : f[i] = U(i)
  OBVIOUS
<1>7. \A i : IsFiniteSet(U(i))
  BY <1>5
<1>8. AllTreeRows(refs) = UNION {U(i) : i \in D}
  BY DEF AllTreeRows
<1>9. IsFiniteSet(D)
  OBVIOUS
<1> HIDE DEF D, U, f
<1>10. IsFiniteSet({f[i] : i \in D}) /\ \A T \in {f[i] : i \in D} : IsFiniteSet(T)
  BY <1>2, <1>6, <1>7, <1>9
<1>11. IsFiniteSet(UNION {f[i] : i \in D})
  BY <1>10, FS_UNION
<1> QED
  BY <1>6, <1>8, <1>11

LEMMA TreesAreVouched ==
  ASSUME Sound, BundleSettles, NEW q \in Questions
  PROVE  LET refs == AnchorRefs(q)
         IN  \/ Cardinality(SyntacticContext(refs)) = SYNTACTIC_LIMIT
             \/ \A r \in Range(refs) : \A t \in GateSyntax(r) :
                  \E row \in SyntacticContext(refs) :
                    /\ row.ref = r /\ row.clause = Prop(t[1], "txt")
                    /\ row.etcbc_function = Prop(t[2], "function")
<1> DEFINE refs == AnchorRefs(q)
           all  == AllTreeRows(refs)
           Tells(row, r, t) == /\ row.ref = r /\ row.clause = Prop(t[1], "txt")
                               /\ row.etcbc_function = Prop(t[2], "function")
<1>1. SyntacticContext(refs) = Some(all, SYNTACTIC_LIMIT)
  BY DEF SyntacticContext, AllTreeRows, TreeRows, TreesOf
<1>2. IsFiniteSet(all) /\ SYNTACTIC_LIMIT \in Nat
  BY RefsAreFinite, TreeRowsAreFinite, LimitsAssumption
<1>3. \A r \in Range(refs) : \A t \in GateSyntax(r) : \E row \in all : Tells(row, r, t)
  <2>1. SUFFICES ASSUME NEW r \in Range(refs), NEW t \in GateSyntax(r)
                 PROVE  \E row \in all : Tells(row, r, t)
    OBVIOUS
  <2>2. /\ t \in Nodes("BhsaClause", <<>>) \X Nodes("BhsaPhrase", <<>>)
        /\ t[2] \in To("CONTAINS_PHRASE", t[1])
        /\ \E v \in GateVerses(r) : \E w \in From("IN_VERSE", "BhsaWord", v) : w \in To("CONTAINS_WORD", t[2])
    BY DEF GateSyntax
  <2>3. PICK v \in GateVerses(r) : \E w \in From("IN_VERSE", "BhsaWord", v) : w \in To("CONTAINS_WORD", t[2])
    BY <2>2
  <2>4. PICK w \in From("IN_VERSE", "BhsaWord", v) : w \in To("CONTAINS_WORD", t[2])
    BY <2>3
  <2>5. PICK i \in DOMAIN refs : refs[i] = r
    BY DEF Range
  <2>6. v \in VersesAt(<<refs[i]>>)
    <3>1. r \in Range(<<r>>)
      BY DEF Range
    <3> QED
      BY <2>3, <2>5, <3>1 DEF VersesAt, GateVerses
  <2>7. t[1][1] = "BhsaClause" /\ t[2][1] = "BhsaPhrase"
    BY <2>2 DEF Nodes
  <2>8. t[2] \in From("CONTAINS_WORD", "BhsaPhrase", w) /\ t[1] \in From("CONTAINS_PHRASE", "BhsaClause", t[2])
    BY <2>2, <2>4, <2>7 DEF From, To
  <2> DEFINE y == <<w, t[1], t[2]>>
  <2>9. y[1] = w /\ y[2] = t[1] /\ y[3] = t[2]
    OBVIOUS
  <2>10. y \in TreesOf(v)
    BY <2>2, <2>4, <2>8 DEF TreesOf
  <2> HIDE DEF y
  <2>11. SyntaxRow(i, v, y) \in TreeRows(i, v)
    BY <2>10 DEF TreeRows
  <2>12. SyntaxRow(i, v, y) \in all
    BY <2>5, <2>6, <2>11 DEF AllTreeRows
  <2>13. Prop(t[1], "txt") # Null /\ Prop(t[2], "function") # Null /\ t[1] # <<>> /\ t[2] # <<>>
    <3>1. {"BhsaClause", "BhsaPhrase"} \subseteq Labels
      BY DEF BundleSettles, BundleLabels
    <3>2. t[1] \in AllOf("BhsaClause") /\ t[2] \in AllOf("BhsaPhrase")
      BY <2>2, Reached
    <3>3. PICK x \in EveryRow :
             IsNode(x, "BhsaClause") /\ \A f : Given(x, f) => Prop(t[1], f) = x.row[f] /\ Prop(t[1], f) # Null
      BY <3>1, <3>2, HasGiven
    <3>4. PICK z \in EveryRow :
             IsNode(z, "BhsaPhrase") /\ \A f : Given(z, f) => Prop(t[2], f) = z.row[f] /\ Prop(t[2], f) # Null
      BY <3>1, <3>2, HasGiven
    <3>5. Given(x, "txt") /\ Given(z, "function")
      BY <3>3, <3>4 DEF BundleSettles, RowOfBundle
    <3>6. \A label, k : <<label, k>> # <<>>
      OBVIOUS
    <3>7. t[1] # <<>> /\ t[2] # <<>>
      BY <3>2, <3>6 DEF AllOf
    <3> QED
      BY <3>3, <3>4, <3>5, <3>7
  <2>14. Prop(v, "osis") = r
    BY <2>3, VersesAreNamed DEF GateVerses
  <2>15. Tells(SyntaxRow(i, v, y), r, t)
    <3>1. Coalesce(y[2], "txt") = Prop(t[1], "txt") /\ Coalesce(y[3], "function") = Prop(t[2], "function")
      <4>1. \A n, f : n # <<>> /\ Prop(n, f) # Null => Coalesce(n, f) = Prop(n, f)
        BY Zenon DEF Coalesce
      <4> QED
        BY <2>9, <2>13, <4>1
    <3>2. /\ SyntaxRow(i, v, y).ref = Prop(v, "osis")
          /\ SyntaxRow(i, v, y).clause = Coalesce(y[2], "txt")
          /\ SyntaxRow(i, v, y).etcbc_function = Coalesce(y[3], "function")
      BY DEF SyntaxRow
    <3> QED
      BY <2>14, <3>1, <3>2
  <2> QED
    BY <2>12, <2>15
<1> HIDE DEF all
<1>4. /\ Some(all, SYNTACTIC_LIMIT) \subseteq all
      /\ Cardinality(Some(all, SYNTACTIC_LIMIT)) = MinOf(SYNTACTIC_LIMIT, Cardinality(all))
  BY <1>2, SomeIs
<1>5. CASE SYNTACTIC_LIMIT <= Cardinality(all)
  BY <1>1, <1>4, <1>5 DEF MinOf
<1>6. CASE ~ (SYNTACTIC_LIMIT <= Cardinality(all))
  <2>1. Cardinality(Some(all, SYNTACTIC_LIMIT)) = Cardinality(all)
    BY <1>4, <1>6 DEF MinOf
  <2>2. Some(all, SYNTACTIC_LIMIT) = all
    BY <1>2, <1>4, <2>1, FS_Subset
  <2> QED
    BY <1>1, <1>3, <2>2
<1> QED
  BY <1>5, <1>6

LEMMA ScopeIs ==
  ASSUME NEW refs
  PROVE  (~InEcmScope(refs)) = (Range(refs) \cap ThreeJohnVerses = {})
<1> HIDE DEF Range
<1> QED
  BY DEF InEcmScope, ThreeJohnVerses

LEMMA OfOneQuestion ==
  ASSUME Sound, BundleSettles, NEW q \in Questions
  PROVE  Vouches(AnchorRefs(q))
<1> DEFINE refs == AnchorRefs(q)
           R    == Range(refs)
           gate == Projection(refs)
           b    == Bundle(refs)
           All(section) == UNION {section[r] : r \in DOMAIN section}
           Looks(w) == {Prop(w, "surface"), Prop(w, "text")} \ {Null}
<1>1. /\ gate.words = [r \in R |-> GateWords(r)]
      /\ gate.strongs = [r \in R |-> GateStrongs(r)]
      /\ gate.cross_refs = [r \in R |-> Cardinality(GateCrossRefs(r))]
      /\ gate.variants = [r \in R |-> GateVariants(r)]
      /\ gate.syntax = [r \in R |-> GateSyntax(r)]
      /\ gate.not_in_ecm_scope = (R \cap ThreeJohnVerses = {})
  <2> HIDE DEF R
  <2> QED
    BY DEF Projection, R
<1>2. /\ b.anchor_lemmas = AnchorLemmas(refs)
      /\ b.anchor_verses = AnchorVerses(refs)
      /\ b.cross_refs = CrossRefs(refs)
      /\ b.variant_units = VariantUnits(refs)
      /\ b.not_in_ecm_scope = ~InEcmScope(refs)
      /\ b.syntactic_context = SyntacticContext(refs)
  BY DEF Bundle
<1>3. GateAccepts(refs, gate)
  BY GateIsOpen
<1>4. ASSUME NEW r \in R, NEW w, w \in gate.words[r]
      PROVE  \E row \in b.anchor_verses : row.ref = r /\ \E x \in row.words : x.surface \in Looks(w)
  <2>1. w \in GateWords(r)
    <3> HIDE DEF R, gate
    <3> QED
      BY <1>1, <1>4
  <2> HIDE DEF b
  <2> QED
    BY <1>2, <1>4, <2>1, WordsAreVouched
<1>5. /\ All(gate.strongs) = UNION {GateStrongs(r) : r \in R}
      /\ All(gate.variants) = UNION {GateVariants(r) : r \in R}
      /\ All([r \in R |-> {r} \X (1 .. gate.cross_refs[r])])
           = UNION {{r} \X (1 .. Cardinality(GateCrossRefs(r))) : r \in R}
  <2> HIDE DEF R, gate
  <2>1. \A r \in R : gate.cross_refs[r] = Cardinality(GateCrossRefs(r))
    BY <1>1
  <2>2. [r \in R |-> {r} \X (1 .. gate.cross_refs[r])] = [r \in R |-> {r} \X (1 .. Cardinality(GateCrossRefs(r)))]
    BY <2>1
  <2> QED
    BY <1>1, <2>2
<1>6. Complete({l.strong : l \in b.anchor_lemmas}, All(gate.strongs), ANCHOR_LEMMA_LIMIT)
  <2>1. Complete({l.strong : l \in AnchorLemmas(refs)}, UNION {GateStrongs(r) : r \in R}, ANCHOR_LEMMA_LIMIT)
    BY LemmasAreVouched
  <2> HIDE DEF All, gate, b, R, refs
  <2> QED
    BY <1>2, <1>5, <2>1
<1>7. Cardinality(b.cross_refs) =
        MinOf(CROSS_REF_LIMIT, Cardinality(All([r \in R |-> {r} \X (1 .. gate.cross_refs[r])])))
  <2>1. Cardinality(CrossRefs(refs)) =
          MinOf(CROSS_REF_LIMIT, Cardinality(UNION {{r} \X (1 .. Cardinality(GateCrossRefs(r))) : r \in R}))
    BY CrossRefsAreVouched
  <2> HIDE DEF All, gate, b, R, refs
  <2> QED
    BY <1>2, <1>5, <2>1
<1>8. /\ Complete({u.variant_id : u \in b.variant_units}, All(gate.variants), VARIANT_LIMIT)
      /\ R \cap ThreeJohnVerses = {} => b.variant_units = {}
  <2>1. /\ Complete({u.variant_id : u \in VariantUnits(refs)}, UNION {GateVariants(r) : r \in R}, VARIANT_LIMIT)
        /\ R \cap ThreeJohnVerses = {} => VariantUnits(refs) = {}
    BY VariantsAreVouched
  <2> HIDE DEF All, gate, b, R, refs
  <2> QED
    BY <1>2, <1>5, <2>1
<1>9. \/ Cardinality(b.syntactic_context) = SYNTACTIC_LIMIT
      \/ \A r \in R : \A t \in gate.syntax[r] :
           \E row \in b.syntactic_context :
             /\ row.ref = r /\ row.clause = Prop(t[1], "txt")
             /\ row.etcbc_function = Prop(t[2], "function")
  <2>1. \/ Cardinality(SyntacticContext(refs)) = SYNTACTIC_LIMIT
        \/ \A r \in R : \A t \in GateSyntax(r) :
             \E row \in SyntacticContext(refs) :
               /\ row.ref = r /\ row.clause = Prop(t[1], "txt")
               /\ row.etcbc_function = Prop(t[2], "function")
    BY TreesAreVouched
  <2> HIDE DEF All, gate, b, R, refs
  <2>2. \A r \in R : gate.syntax[r] = GateSyntax(r)
    BY <1>1
  <2> QED
    BY <1>2, <2>1, <2>2
<1>10. b.not_in_ecm_scope = gate.not_in_ecm_scope /\ (b.not_in_ecm_scope => b.variant_units = {})
  <2>1. (~InEcmScope(refs)) = (R \cap ThreeJohnVerses = {})
    BY ScopeIs
  <2> HIDE DEF All, gate, b, R, refs
  <2> QED
    BY <1>1, <1>2, <1>8, <2>1
<1>11. \A r \in R, w \in All(gate.words) : w \in gate.words[r] =>
         \E row \in b.anchor_verses : row.ref = r /\ \E x \in row.words : x.surface \in Looks(w)
  <2> HIDE DEF All, gate, b, R, Looks
  <2> QED
    BY <1>4
<1> QED
  <2> HIDE DEF gate, b
  <2>1. /\ GateAccepts(refs, gate)
        /\ \A r \in R, w \in All(gate.words) : w \in gate.words[r] =>
             \E row \in b.anchor_verses : row.ref = r /\ \E x \in row.words : x.surface \in Looks(w)
    BY <1>3, <1>11
  <2> QED
    BY <1>6, <1>7, <1>8, <1>9, <1>10, <2>1 DEF Vouches, gate, b

-----------------------------------------------------------------------------
(* Rows: the lists an adapter makes of its files. *)

\* A row, or none.
LEMMA WhenIs ==
  ASSUME NEW c \in BOOLEAN, NEW x
  PROVE  IsList(When(c, x)) /\ \A y : y \in Range(When(c, x)) <=> c /\ y = x
<1> HIDE DEF Range
<1>1. CASE c
  BY <1>1, OneIs DEF When
<1>2. CASE ~ c
  BY <1>2, NoneIs DEF When
<1> QED
  BY <1>1, <1>2

\* The seen-set leaves one row of each f.
LEMMA FirstIs ==
  ASSUME NEW rows, IsList(rows), NEW f
  PROVE  /\ IsList(FirstBy(f, rows))
         /\ \A x \in Range(FirstBy(f, rows)) : x \in Range(rows)
         /\ \A x \in Range(rows) : \E y \in Range(FirstBy(f, rows)) : y[f] = x[f]
<1> DEFINE places == [i \in DOMAIN rows |-> i]
           new(i) == \A j \in 1 .. i - 1 : rows[j][f] # rows[i][f]
           g == [i \in DOMAIN rows |-> When(new(i), rows[i])]
<1>1. DOMAIN rows = 1 .. Len(rows) /\ Len(rows) \in Nat
  BY ListIs
<1>2. FirstBy(f, rows) = FlattenSeq(g)
  BY DEF FirstBy, EachAll, Each
<1>3. \A i \in DOMAIN rows : g[i] = When(new(i), rows[i]) /\ new(i) \in BOOLEAN
  OBVIOUS
<1> HIDE DEF new
<1>4. DOMAIN g = DOMAIN rows /\ g = [i \in DOMAIN rows |-> g[i]]
  OBVIOUS
<1> HIDE DEF g, Range
<1>5. \A i \in DOMAIN rows : IsList(g[i]) /\ \A y : y \in Range(g[i]) <=> new(i) /\ y = rows[i]
  BY <1>3, WhenIs
<1>6. /\ IsList(FlattenSeq(g))
      /\ \A x : x \in Range(FlattenSeq(g)) <=> \E i \in DOMAIN rows : x \in Range(g[i])
  BY <1>4, <1>5, AllIs
<1>7. \A x : x \in Range(FirstBy(f, rows)) <=> \E i \in DOMAIN rows : new(i) /\ x = rows[i]
  BY <1>2, <1>5, <1>6
<1>8. \A x : x \in Range(rows) <=> \E i \in DOMAIN rows : x = rows[i]
  BY ListIs
<1>9. ASSUME NEW x \in Range(rows) PROVE \E y \in Range(FirstBy(f, rows)) : y[f] = x[f]
  <2> DEFINE T == {i \in DOMAIN rows : rows[i][f] = x[f]}
  <2>1. T \subseteq Nat /\ T # {}
    BY <1>1, <1>8, <1>9
  <2>2. PICK i \in T : \A j \in T : i <= j
    BY <2>1, LeastNumber
  <2>3. \A j \in 1 .. i - 1 : j \notin T /\ j \in DOMAIN rows
    BY <1>1, <2>2
  <2>4. new(i)
    BY <2>2, <2>3 DEF new
  <2> QED
    BY <1>7, <2>2, <2>4
<1> QED
  BY <1>2, <1>6, <1>7, <1>8, <1>9

\* A dict keyed by f leaves rows of the list.
LEMMA LastIs ==
  ASSUME NEW rows, IsList(rows), NEW f
  PROVE  IsList(LastBy(f, rows)) /\ \A x \in Range(LastBy(f, rows)) : x \in Range(rows)
<1> DEFINE first == FirstBy(f, rows)
           Of(v) == {j \in DOMAIN rows : rows[j][f] = v}
           Is(v, j) == j \in DOMAIN rows /\ rows[j][f] = v /\ \A k \in DOMAIN rows : rows[k][f] = v => k <= j
           Latest(v) == CHOOSE j \in DOMAIN rows :
                          rows[j][f] = v /\ \A k \in DOMAIN rows : rows[k][f] = v => k <= j
           g == [i \in DOMAIN first |-> rows[Latest(first[i][f])]]
<1>1. LastBy(f, rows) = g
  BY DEF LastBy
<1>2. IsList(first) /\ \A x \in Range(first) : x \in Range(rows)
  BY FirstIs
<1>3. DOMAIN rows = 1 .. Len(rows) /\ Len(rows) \in Nat /\ \A x : x \in Range(rows) <=> \E i \in DOMAIN rows : x = rows[i]
  BY ListIs
<1>4. DOMAIN g = DOMAIN first /\ g = [i \in DOMAIN first |-> g[i]]
      /\ \A i \in DOMAIN first : g[i] = rows[Latest(first[i][f])]
  OBVIOUS
<1> HIDE DEF first, g, Range
<1>5. IsList(g) /\ \A x : x \in Range(g) <=> \E i \in DOMAIN first : x = g[i]
  BY <1>2, <1>4, EachIs
<1>6. ASSUME NEW i \in DOMAIN first PROVE g[i] \in Range(rows)
  <2> DEFINE v == first[i][f]
  <2>1. first[i] \in Range(rows)
    BY <1>2, ListIs
  <2>2. PICK j \in DOMAIN rows : first[i] = rows[j]
    BY <1>3, <2>1
  <2>3. Of(v) \subseteq 1 .. Len(rows) /\ Of(v) # {}
    BY <1>3, <2>2
  <2> HIDE DEF v
  <2>4. PICK k \in Of(v) : \A y \in Of(v) : y <= k
    <3> HIDE DEF Of
    <3> QED
      BY <1>3, <2>3, GreatestNumber
  <2>5. \E z \in DOMAIN rows : rows[z][f] = v /\ \A y \in DOMAIN rows : rows[y][f] = v => y <= z
    BY <2>4
  <2>6. Latest(v) \in DOMAIN rows
    BY <2>5
  <2>7. g[i] = rows[Latest(v)]
    BY <1>4 DEF v
  <2> QED
    BY <1>3, <2>6, <2>7
<1> QED
  BY <1>1, <1>5, <1>6

\* The elements of T, in their order.
LEMMA OnlyIs ==
  ASSUME NEW xs, IsList(xs), NEW T, NEW f, f = [i \in DOMAIN xs |-> When(xs[i] \in T, xs[i])]
  PROVE  IsList(FlattenSeq(f)) /\ \A x : x \in Range(FlattenSeq(f)) <=> x \in Range(xs) /\ x \in T
<1>1. \A i \in DOMAIN xs : f[i] = When(xs[i] \in T, xs[i]) /\ (xs[i] \in T) \in BOOLEAN
  OBVIOUS
<1>2. DOMAIN f = DOMAIN xs /\ f = [i \in DOMAIN xs |-> f[i]]
  OBVIOUS
<1> HIDE DEF Range
<1>3. \A i \in DOMAIN xs : IsList(f[i]) /\ \A y : y \in Range(f[i]) <=> xs[i] \in T /\ y = xs[i]
  BY <1>1, WhenIs
<1>4. /\ IsList(FlattenSeq(f))
      /\ \A x : x \in Range(FlattenSeq(f)) <=> \E i \in DOMAIN xs : x \in Range(f[i])
  BY <1>2, <1>3, AllIs
<1>5. \A x : x \in Range(xs) <=> \E i \in DOMAIN xs : x = xs[i]
  BY ListIs
<1> QED
  BY <1>3, <1>4, <1>5

\* At most one row for each place.
Whens(f, xs) ==
  /\ DOMAIN f = DOMAIN xs /\ f = [i \in DOMAIN xs |-> f[i]]
  /\ \A i \in DOMAIN xs : \E c \in BOOLEAN : \E x : f[i] = When(c, x)
\* And so they are a list.
LEMMA WhensIs ==
  ASSUME NEW xs, IsList(xs), NEW f, Whens(f, xs) PROVE IsList(FlattenSeq(f))
<1>1. \A i \in DOMAIN xs : IsList(f[i])
  BY WhenIs DEF Whens
<1> QED
  BY <1>1, AllIs DEF Whens

\* A row of its own for those of T.
LEMMA SomeRowsAre ==
  ASSUME NEW xs, IsList(xs), NEW T, NEW g, NEW f, f = [i \in DOMAIN xs |-> When(xs[i] \in T, g[i])]
  PROVE  IsList(FlattenSeq(f)) /\ \A i \in DOMAIN xs : xs[i] \in T => g[i] \in Range(FlattenSeq(f))
<1>1. \A i \in DOMAIN xs : f[i] = When(xs[i] \in T, g[i]) /\ (xs[i] \in T) \in BOOLEAN
  OBVIOUS
<1>2. DOMAIN f = DOMAIN xs /\ f = [i \in DOMAIN xs |-> f[i]]
  OBVIOUS
<1> HIDE DEF Range
<1>3. \A i \in DOMAIN xs : IsList(f[i]) /\ \A z : z \in Range(f[i]) <=> xs[i] \in T /\ z = g[i]
  BY <1>1, WhenIs
<1>4. /\ IsList(FlattenSeq(f))
      /\ \A x : x \in Range(FlattenSeq(f)) <=> \E i \in DOMAIN xs : x \in Range(f[i])
  BY <1>2, <1>3, AllIs
<1>5. \A i \in DOMAIN xs : xs[i] \in T => g[i] \in Range(f[i])
  BY <1>3
<1> QED
  BY <1>4, <1>5

\* Of each place that is chosen, a row of its own.
LEMMA ChosenAre ==
  ASSUME NEW xs, IsList(xs), NEW c \in [DOMAIN xs -> BOOLEAN], NEW g,
         NEW f, f = [i \in DOMAIN xs |-> When(c[i], g[i])]
  PROVE  /\ IsList(FlattenSeq(f))
         /\ \A x : x \in Range(FlattenSeq(f)) <=> \E i \in DOMAIN xs : c[i] /\ x = g[i]
<1>1. \A i \in DOMAIN xs : f[i] = When(c[i], g[i]) /\ c[i] \in BOOLEAN
  OBVIOUS
<1>2. DOMAIN f = DOMAIN xs /\ f = [i \in DOMAIN xs |-> f[i]]
  OBVIOUS
<1> HIDE DEF Range
<1>3. \A i \in DOMAIN xs : IsList(f[i]) /\ \A z : z \in Range(f[i]) <=> c[i] /\ z = g[i]
  BY <1>1, WhenIs
<1>4. /\ IsList(FlattenSeq(f))
      /\ \A x : x \in Range(FlattenSeq(f)) <=> \E i \in DOMAIN xs : x \in Range(f[i])
  BY <1>2, <1>3, AllIs
<1> QED
  BY <1>3, <1>4

\* What is chosen of a list begins with what is chosen of its beginning.
LEMMA ChosenBegins ==
  ASSUME NEW xs, IsList(xs), NEW ys, IsList(ys), Begins(xs, ys),
         NEW c \in [DOMAIN xs -> BOOLEAN], NEW d \in [DOMAIN ys -> BOOLEAN],
         \A i \in DOMAIN xs : c[i] = d[i],
         NEW f, f = [i \in DOMAIN xs |-> When(c[i], xs[i])],
         NEW g, g = [i \in DOMAIN ys |-> When(d[i], ys[i])]
  PROVE  Begins(FlattenSeq(f), FlattenSeq(g))
<1>1. /\ DOMAIN f = DOMAIN xs /\ f = [i \in DOMAIN xs |-> f[i]]
      /\ DOMAIN g = DOMAIN ys /\ g = [i \in DOMAIN ys |-> g[i]]
      /\ \A i \in DOMAIN xs : f[i] = When(c[i], xs[i])
      /\ \A i \in DOMAIN ys : g[i] = When(d[i], ys[i]) /\ d[i] \in BOOLEAN
  OBVIOUS
<1> HIDE DEF Range
<1>2. IsList(f) /\ IsList(g)
  BY <1>1, EachIs
<1>3. \A i \in DOMAIN g : IsList(g[i])
  BY <1>1, WhenIs
<1>4. Begins(f, g)
  <2>1. \A i \in DOMAIN xs : i \in DOMAIN ys /\ ys[i] = xs[i]
    BY DEF Begins
  <2> QED
    BY <1>1, <2>1 DEF Begins
<1> QED
  BY <1>2, <1>3, <1>4, FlattenBegins

\* So does a seen-set.
LEMMA FirstBegins ==
  ASSUME NEW xs, IsList(xs), NEW ys, IsList(ys), Begins(xs, ys), NEW k
  PROVE  Begins(FirstBy(k, xs), FirstBy(k, ys))
<1> DEFINE new(zs, i) == \A j \in 1 .. i - 1 : zs[j][k] # zs[i][k]
           c == [i \in DOMAIN xs |-> new(xs, i)]
           d == [i \in DOMAIN ys |-> new(ys, i)]
           f == [i \in DOMAIN xs |-> When(c[i], xs[i])]
           g == [i \in DOMAIN ys |-> When(d[i], ys[i])]
<1>1. FirstBy(k, xs) = FlattenSeq(f) /\ FirstBy(k, ys) = FlattenSeq(g)
  BY DEF FirstBy, EachAll, Each
<1>2. c \in [DOMAIN xs -> BOOLEAN] /\ d \in [DOMAIN ys -> BOOLEAN]
  OBVIOUS
<1>3. ASSUME NEW i \in DOMAIN xs PROVE c[i] = d[i]
  <2>1. /\ DOMAIN xs = 1 .. Len(xs) /\ Len(xs) \in Nat
        /\ \A j \in DOMAIN xs : j \in DOMAIN ys /\ ys[j] = xs[j]
    BY ListIs DEF Begins
  <2>2. \A j \in 1 .. i - 1 : ys[j] = xs[j]
    BY <2>1
  <2> QED
    BY <2>1, <2>2
<1> HIDE DEF c, d
<1>4. f = [i \in DOMAIN xs |-> When(c[i], xs[i])] /\ g = [i \in DOMAIN ys |-> When(d[i], ys[i])]
  OBVIOUS
<1> HIDE DEF f, g
<1> QED
  BY <1>1, <1>2, <1>3, <1>4, ChosenBegins

\* The batches of a list are lists, and together have all of it.
LEMMA ChunksAre ==
  ASSUME NEW xs, IsList(xs)
  PROVE  /\ IsList(Chunks(xs))
         /\ \A b \in Range(Chunks(xs)) : IsList(b)
         /\ \A x \in Range(xs) : \E b \in Range(Chunks(xs)) : x \in Range(b)
<1> DEFINE C == Chunks(xs)
           S == Range(xs)
<1>1. C = CutUp(xs, BATCH_SIZE)
  BY DEF Chunks, CutUp, EndOf, MinOf
<1>2. xs \in Seq(S)
  BY DEF IsList
<1> HIDE DEF C, S, Range
<1>3. /\ C \in Seq(Seq(S))
      /\ \A x \in Range(xs) : \E b \in Range(C) : x \in Range(b)
  BY <1>1, <1>2, BatchAssumption, CutUpHolds
<1>4. IsList(C) /\ \A b \in Range(C) : b \in Seq(S)
  BY <1>3, SeqIsList
<1>5. \A b \in Range(C) : IsList(b)
  BY <1>4, SeqIsList
<1> QED
  BY <1>3, <1>4, <1>5 DEF C

\* The rows of a script are among those of each disk whose files it is read from.
LEMMA SentRow ==
  ASSUME NEW has \in Disks, NEW name \in Sendable(has), NEW s \in Range(ScriptOf(name, has)),
         NEW row \in Range(s.rows)
  PROVE  [t |-> s.t, row |-> row] \in AllRowed(has)
<1> DEFINE x == [t |-> s.t, row |-> row]
<1>1. name \in Range(Datasets)
  BY DEF Sendable
<1>2. Scripts[has][name] = ScriptOf(name, has)
  <2> HIDE DEF Range
  <2> QED
    BY <1>1 DEF Scripts
<1> HIDE DEF Range
<1>3. x \in {[t |-> s.t, row |-> r] : r \in Range(s.rows)}
  OBVIOUS
<1> HIDE DEF x
<1>4. x \in Rowed(name, has)
  BY <1>2, <1>3 DEF Rowed
<1> QED
  BY <1>4 DEF AllRowed, x

\* What an adapter has in its lists is among the rows of the disk, each with its template.
LEMMA OwnSent ==
  ASSUME NEW has \in Disks, NEW S, NEW order \in Seq(S), Range(order) = S, NEW templates, NEW rows,
         \A n \in S : IsList(rows[n]),
         NEW name \in Sendable(has), ScriptOf(name, has) = Script(order, templates, rows)
  PROVE  \A n \in S : \A x \in Range(rows[n]) : [t |-> templates[n], row |-> x] \in AllRowed(has)
<1> HIDE DEF Range
<1>1. SUFFICES ASSUME NEW n \in S, NEW x \in Range(rows[n])
               PROVE  [t |-> templates[n], row |-> x] \in AllRowed(has)
  OBVIOUS
<1>2. \E s \in Range(Script(order, templates, rows)) : s.t = templates[n] /\ x \in Range(s.rows)
  <2>1. \A k \in S : rows[k] \in Seq(Range(rows[k]))
    BY DEF IsList
  <2>2. \A k \in Range(order) : \A y \in Range(rows[k]) :
              \E s \in Range(Script(order, templates, rows)) :
                s.t = templates[k] /\ y \in Range(s.rows)
    BY <2>1, ScriptSends
  <2> QED
    BY <1>1, <2>2
<1>3. PICK s \in Range(ScriptOf(name, has)) : s.t = templates[n] /\ x \in Range(s.rows)
  BY <1>2
<1>4. [t |-> s.t, row |-> x] \in AllRowed(has)
  BY <1>3, SentRow
<1> QED
  BY <1>3, <1>4

\* An adapter that finds its files sends what it has read from them.
LEMMA ReadSent ==
  ASSUME NEW has \in Disks, NEW S, NEW order \in Seq(S), Range(order) = S, NEW templates, NEW rows,
         S \subseteq DOMAIN rows, \A n \in S : IsList(rows[n]),
         NEW name \in Sendable(has), name \in has,
         ScriptOf(name, has) = Script(order, templates, ReadFrom(has, name, rows))
  PROVE  \A n \in S : \A x \in Range(rows[n]) : [t |-> templates[n], row |-> x] \in AllRowed(has)
<1> DEFINE own == ReadFrom(has, name, rows)
<1> HIDE DEF Range
<1>1. \A n \in S : own[n] = rows[n]
  BY DEF ReadFrom
<1> HIDE DEF own
<1>2. \A n \in S : \A x \in Range(own[n]) : [t |-> templates[n], row |-> x] \in AllRowed(has)
  BY <1>1, OwnSent DEF own
<1> QED
  BY <1>1, <1>2

\* Adapters whose files are not looked for raise nothing.
LEMMA TheseAreSent ==
  ASSUME NEW has
  PROVE  {"oshb", "macula_hebrew", "macula_greek", "morphgnt", "stepbible_tahot", "stepbible_tagnt"}
           \subseteq Sendable(has)
<1>1. /\ DOMAIN Datasets = 1 .. 23 /\ Datasets[1] = "oshb" /\ Datasets[2] = "macula_hebrew"
      /\ Datasets[6] = "macula_greek" /\ Datasets[7] = "morphgnt"
      /\ Datasets[12] = "stepbible_tahot" /\ Datasets[13] = "stepbible_tagnt"
  BY DEF Datasets
<1>2. {"oshb", "macula_hebrew", "macula_greek", "morphgnt", "stepbible_tahot", "stepbible_tagnt"}
        \subseteq Range(Datasets)
  BY <1>1 DEF Range
<1> HIDE DEF Range
<1> QED
  BY <1>2 DEF Sendable, Raises

-----------------------------------------------------------------------------
(* What OSHB sends. *)

\* The verses that are read, and their words.
LEMMA OshbReadIs ==
  /\ IsList(OshbRead)
  /\ \A v \in Range(OshbRead) : IsList(v.children)
       /\ \A i \in DOMAIN v.children : v.children[i].tag \in {"w", "seg", "note"} /\ IsList(v.children[i].lemma)
<1> DEFINE T == {v \in Range(OshbVerses) : v.osisID # Null}
           f == [i \in DOMAIN OshbVerses |-> When(OshbVerses[i] \in T, OshbVerses[i])]
<1>1. IsList(OshbVerses) /\ \A v \in Range(OshbVerses) : v \in [osisID : STRING, children : Seq(OshbChild)]
  BY OshbAssumption, SeqIsList
<1>2. OshbRead = FlattenSeq(f)
  <2>1. OshbRead = FlattenSeq([i \in DOMAIN OshbVerses |-> When(OshbVerses[i].osisID # Null, OshbVerses[i])])
    BY DEF OshbRead, Only, EachAll, Each
  <2>2. \A i \in DOMAIN OshbVerses : (OshbVerses[i].osisID # Null) = (OshbVerses[i] \in T)
    BY DEF Range
  <2> HIDE DEF T
  <2> QED
    BY <2>1, <2>2
<1> HIDE DEF T, Range
<1>3. IsList(OshbRead) /\ \A x : x \in Range(OshbRead) <=> x \in Range(OshbVerses) /\ x \in T
  <2> HIDE DEF f
  <2>1. IsList(FlattenSeq(f)) /\ \A x : x \in Range(FlattenSeq(f)) <=> x \in Range(OshbVerses) /\ x \in T
    BY <1>1, OnlyIs DEF f
  <2> QED
    BY <1>2, <2>1
<1>4. ASSUME NEW v \in Range(OshbRead)
      PROVE  IsList(v.children) /\ \A i \in DOMAIN v.children :
               v.children[i].tag \in {"w", "seg", "note"} /\ IsList(v.children[i].lemma)
  <2>1. v.children \in Seq(OshbChild)
    BY <1>1, <1>3
  <2>2. IsList(v.children) /\ \A x \in Range(v.children) : x \in OshbChild
    BY <2>1, SeqIsList
  <2>3. \A i \in DOMAIN v.children : v.children[i] \in OshbChild
    BY <2>2, ListIs
  <2>4. \A i \in DOMAIN v.children : v.children[i].tag \in {"w", "seg", "note"} /\ v.children[i].lemma \in Seq(RawStrongs)
    BY <2>3 DEF OshbChild
  <2> QED
    BY <2>2, <2>4, SeqIsList
<1> QED
  BY <1>3, <1>4

\* The words are those of the verses that are read.
LEMMA OshbWordsAre ==
  /\ IsList(OshbWords)
  /\ \A w \in Range(OshbWords) : IsList(w.segs) /\ \E v \in Range(OshbRead) : w.ref = v.osisID
<1> DEFINE of(v) == [i \in DOMAIN v.children |-> When(v.children[i].tag = "w", OshbWord(v, i))]
           W(v) == EachAll([i \in DOMAIN v.children |-> i], LAMBDA i : When(v.children[i].tag = "w", OshbWord(v, i)))
           f == [n \in DOMAIN OshbRead |-> W(OshbRead[n])]
<1>1. OshbWords = FlattenSeq(f)
  BY DEF OshbWords, EachAll, Each
<1>2. \A v : W(v) = FlattenSeq(of(v))
  BY DEF EachAll, Each
<1>3. \A v : \A i \in DOMAIN v.children : of(v)[i] = When(v.children[i].tag = "w", OshbWord(v, i))
  OBVIOUS
<1>4. \A v : DOMAIN of(v) = DOMAIN v.children /\ of(v) = [i \in DOMAIN v.children |-> of(v)[i]]
  OBVIOUS
<1>5. DOMAIN f = DOMAIN OshbRead /\ f = [n \in DOMAIN OshbRead |-> f[n]]
      /\ \A n \in DOMAIN OshbRead : f[n] = W(OshbRead[n])
  <2> HIDE DEF W
  <2> QED
    OBVIOUS
<1> HIDE DEF of, W, f, Range
<1>6. ASSUME NEW v \in Range(OshbRead)
      PROVE  IsList(W(v)) /\ \A w \in Range(W(v)) : IsList(w.segs) /\ w.ref = v.osisID
  <2>1. IsList(v.children) /\ \A i \in DOMAIN v.children : v.children[i].tag \in {"w", "seg", "note"} /\ IsList(v.children[i].lemma)
    BY OshbReadIs
  <2>2. ASSUME NEW i \in DOMAIN v.children
        PROVE  IsList(of(v)[i]) /\ \A w \in Range(of(v)[i]) : w = OshbWord(v, i)
    <3> DEFINE c == v.children[i].tag = "w"
    <3>1. c \in BOOLEAN /\ of(v)[i] = When(c, OshbWord(v, i))
      BY <1>3
    <3> HIDE DEF c
    <3> QED
      BY <3>1, WhenIs
  <2>3. /\ IsList(W(v))
        /\ \A w : w \in Range(W(v)) <=> \E i \in DOMAIN v.children : w \in Range(of(v)[i])
    BY <1>2, <1>4, <2>1, <2>2, AllIs
  <2>4. \A i \in DOMAIN v.children : OshbWord(v, i).ref = v.osisID /\ OshbWord(v, i).segs = v.children[i].lemma
    BY DEF OshbWord
  <2> QED
    BY <2>1, <2>2, <2>3, <2>4
<1>7. IsList(OshbRead) /\ \A v : v \in Range(OshbRead) <=> \E n \in DOMAIN OshbRead : v = OshbRead[n]
  BY OshbReadIs, ListIs
<1>8. IsList(OshbWords) /\ \A w : w \in Range(OshbWords) <=> \E n \in DOMAIN OshbRead : w \in Range(f[n])
  <2>1. \A n \in DOMAIN OshbRead : IsList(f[n])
    BY <1>5, <1>6, <1>7
  <2> QED
    BY <1>1, <1>5, <1>7, <2>1, AllIs
<1> QED
  BY <1>5, <1>6, <1>7, <1>8

OshbLists ==
  {"source", "verse", "strong", "word", "morpheme", "reading", "has_morpheme", "in_verse",
   "word_strong", "morph_strong", "is_qere_of", "from_edition"}

\* The morphemes, the numbers and all the lists that are sent.
LEMMA OshbMorphemesAre == IsList(OshbMorphemes)
<1> DEFINE segs(w) == IF w.segs = <<>> THEN <<NoStrong>> ELSE w.segs
           of(w) == [i \in DOMAIN segs(w) |->
               [id |-> "oshb-morph:" \o w.at \o ".m" \o Pad2(i), word |-> w.id,
                strong |-> segs(w)[i]]]
           f == [n \in DOMAIN OshbWords |-> of(OshbWords[n])]
<1>1. OshbMorphemes = FlattenSeq(f)
  BY DEF OshbMorphemes, EachAll, Each
<1>2. \A w : DOMAIN of(w) = DOMAIN segs(w) /\ of(w) = [i \in DOMAIN segs(w) |-> of(w)[i]]
  OBVIOUS
<1>3. DOMAIN f = DOMAIN OshbWords /\ f = [n \in DOMAIN OshbWords |-> f[n]]
      /\ \A n \in DOMAIN OshbWords : f[n] = of(OshbWords[n])
  <2> HIDE DEF of
  <2> QED
    OBVIOUS
<1>4. ASSUME NEW w, IsList(w.segs) PROVE IsList(segs(w))
  BY <1>4, OneIs
<1> HIDE DEF segs, of, f
<1>5. ASSUME NEW n \in DOMAIN OshbWords PROVE IsList(f[n])
  <2>1. OshbWords[n] \in Range(OshbWords)
    BY OshbWordsAre, ListIs
  <2>2. IsList(segs(OshbWords[n]))
    BY <1>4, <2>1, OshbWordsAre
  <2>3. IsList(of(OshbWords[n]))
    BY <1>2, <2>2, EachIs
  <2> QED
    BY <1>3, <2>3
<1> QED
  BY <1>1, <1>3, <1>5, OshbWordsAre, AllIs

LEMMA OshbStrongsAre == IsList(OshbStrongs)
<1> DEFINE StrongRow(raw) == When(OshbStrong(raw).base # Null,
                           [id |-> OshbStrong(raw).base, language |-> "hebrew", disambig_suffix |->
                              IF OshbStrong(raw).suffix = Null THEN "" ELSE OshbStrong(raw).suffix])
           g(w) == [i \in DOMAIN w.segs |-> StrongRow(w.segs[i])]
           f == [n \in DOMAIN OshbWords |-> StrongRow(OshbWords[n].strong) \o FlattenSeq(g(OshbWords[n]))]
<1>1. OshbStrongs = FirstBy("id", FlattenSeq(f))
  BY DEF OshbStrongs, EachAll, Each
<1>2. \A raw : IsList(StrongRow(raw)) /\ \E c \in BOOLEAN : \E x : StrongRow(raw) = When(c, x)
  BY WhenIs
<1> HIDE DEF StrongRow
<1>3. \A w : Whens(g(w), w.segs)
  BY <1>2 DEF Whens
<1>4. DOMAIN f = DOMAIN OshbWords /\ f = [n \in DOMAIN OshbWords |-> f[n]]
      /\ \A n \in DOMAIN OshbWords : f[n] = StrongRow(OshbWords[n].strong) \o FlattenSeq(g(OshbWords[n]))
  <2> HIDE DEF g
  <2> QED
    OBVIOUS
<1> HIDE DEF g, f
<1>5. ASSUME NEW n \in DOMAIN OshbWords PROVE IsList(f[n])
  <2>1. IsList(OshbWords[n].segs)
    BY OshbWordsAre, ListIs
  <2>2. IsList(FlattenSeq(g(OshbWords[n])))
    BY <1>3, <2>1, WhensIs
  <2> QED
    BY <1>2, <1>4, <2>2, BothIs
<1>6. IsList(FlattenSeq(f))
  BY <1>4, <1>5, OshbWordsAre, AllIs
<1> QED
  BY <1>1, <1>6, FirstIs

LEMMA OshbRowsAre == \A n \in OshbLists : IsList(OshbRows[n])
<1> DEFINE Base(x)   == OshbStrong(x.strong).base
           Strong(x) == IF Base(x) = Null THEN "" ELSE Base(x)
           W == DOMAIN OshbWords
           M == DOMAIN OshbMorphemes
           verse == [i \in DOMAIN OshbRead |->
                  [id |-> VerseId(OshbRead[i].osisID), osisID |-> OshbRead[i].osisID, osis |-> OshbRead[i].osisID,
                   canon_section |-> "OT", text |-> OshbText(OshbRead[i])]]
           word == [i \in W |->
                  [id |-> OshbWords[i].id, ref |-> OshbWords[i].ref, surface |-> OshbWords[i].text,
                   strong |-> Strong(OshbWords[i]), source |-> OSHB]]
           morpheme == [i \in M |->
                  [id |-> OshbMorphemes[i].id, strong |-> Strong(OshbMorphemes[i]), source |-> OSHB]]
           reading == [i \in W |-> When(OshbWords[i].qere # Null,
                  [reading_id |-> OshbReadingId(OshbWords[i]), kind |-> "qere", text |-> OshbWords[i].qere,
                   source |-> OSHB])]
           has_morpheme == [i \in M |-> Link(OshbMorphemes[i].word, OshbMorphemes[i].id)]
           in_verse == [i \in W |-> Link(OshbWords[i].id, VerseId(OshbWords[i].ref))]
           word_strong == [i \in W |-> When(Base(OshbWords[i]) # Null, Link(OshbWords[i].id, Base(OshbWords[i])))]
           morph_strong == [i \in M |-> When(Base(OshbMorphemes[i]) # Null, Link(OshbMorphemes[i].id, Base(OshbMorphemes[i])))]
           is_qere_of == [i \in W |->
                      When(OshbWords[i].qere # Null, Link(OshbReadingId(OshbWords[i]), OshbWords[i].id))]
           from_edition == [i \in W |-> Link(OshbWords[i].id, OSHB)]
<1>1. /\ OshbRows.source = SourceRow(OSHB)
      /\ OshbRows.verse = verse
      /\ OshbRows.strong = OshbStrongs
      /\ OshbRows.word = word
      /\ OshbRows.morpheme = morpheme
      /\ OshbRows.reading = FlattenSeq(reading)
      /\ OshbRows.has_morpheme = has_morpheme
      /\ OshbRows.in_verse = in_verse
      /\ OshbRows.word_strong = FlattenSeq(word_strong)
      /\ OshbRows.morph_strong = FlattenSeq(morph_strong)
      /\ OshbRows.is_qere_of = FlattenSeq(is_qere_of)
      /\ OshbRows.from_edition = from_edition
  BY DEF OshbRows, EachAll, Each
<1> HIDE DEF Base, Strong
<1>2. /\ Whens(reading, OshbWords) /\ Whens(word_strong, OshbWords) /\ Whens(morph_strong, OshbMorphemes)
      /\ Whens(is_qere_of, OshbWords)
  BY DEF Whens
<1>3. /\ DOMAIN verse = DOMAIN OshbRead /\ verse = [i \in DOMAIN OshbRead |-> verse[i]]
      /\ DOMAIN word = W /\ word = [i \in W |-> word[i]]
      /\ DOMAIN morpheme = M /\ morpheme = [i \in M |-> morpheme[i]]
      /\ DOMAIN has_morpheme = M /\ has_morpheme = [i \in M |-> has_morpheme[i]]
      /\ DOMAIN in_verse = W /\ in_verse = [i \in W |-> in_verse[i]]
      /\ DOMAIN from_edition = W /\ from_edition = [i \in W |-> from_edition[i]]
  OBVIOUS
<1> HIDE DEF verse, word, morpheme, reading, has_morpheme, in_verse, word_strong, morph_strong, is_qere_of, from_edition
<1>4. IsList(OshbRead) /\ IsList(OshbWords) /\ IsList(OshbMorphemes) /\ IsList(OshbStrongs)
  BY OshbReadIs, OshbWordsAre, OshbMorphemesAre, OshbStrongsAre
<1>5. /\ IsList(FlattenSeq(reading)) /\ IsList(FlattenSeq(word_strong))
      /\ IsList(FlattenSeq(morph_strong)) /\ IsList(FlattenSeq(is_qere_of))
  BY <1>2, <1>4, WhensIs
<1>6. /\ IsList(verse) /\ IsList(word) /\ IsList(morpheme) /\ IsList(has_morpheme)
      /\ IsList(in_verse) /\ IsList(from_edition)
  BY <1>3, <1>4, EachIs
<1>7. IsList(SourceRow(OSHB))
  BY OneIs DEF SourceRow
<1> QED
  BY <1>1, <1>4, <1>5, <1>6, <1>7 DEF OshbLists

\* x is the row of the word w.
OfWord(w, x) ==
  /\ x.id = w.id /\ x.surface = w.text /\ DOMAIN x = {"id", "ref", "surface", "strong", "source"}

\* What OSHB sends of a word: the word, its verse and that it is in it.
LEMMA OshbWordRows ==
  ASSUME NEW w \in Range(OshbWords)
  PROVE  /\ \E x \in Range(OshbRows.word) : OfWord(w, x)
         /\ \E v \in Range(OshbRows.verse) : v.id = VerseId(w.ref) /\ v.osis = w.ref
         /\ Link(w.id, VerseId(w.ref)) \in Range(OshbRows.in_verse)
<1>1. PICK i \in DOMAIN OshbWords : w = OshbWords[i]
  BY OshbWordsAre, ListIs
<1>2. \E x \in Range(OshbRows.word) : OfWord(w, x)
  <2>1. DOMAIN OshbRows.word = DOMAIN OshbWords /\ OfWord(OshbWords[i], OshbRows.word[i])
    BY <1>1 DEF OshbRows, Each, OfWord
  <2> QED
    BY <1>1, <2>1 DEF Range
<1>3. Link(w.id, VerseId(w.ref)) \in Range(OshbRows.in_verse)
  <2>1. DOMAIN OshbRows.in_verse = DOMAIN OshbWords /\ OshbRows.in_verse[i] = Link(OshbWords[i].id, VerseId(OshbWords[i].ref))
    BY <1>1 DEF OshbRows, Each
  <2> QED
    BY <1>1, <2>1 DEF Range
<1>4. \E v \in Range(OshbRows.verse) : v.id = VerseId(w.ref) /\ v.osis = w.ref
  <2>1. PICK r \in Range(OshbRead) : w.ref = r.osisID
    BY OshbWordsAre
  <2>2. PICK n \in DOMAIN OshbRead : r = OshbRead[n]
    BY OshbReadIs, ListIs
  <2>3. /\ DOMAIN OshbRows.verse = DOMAIN OshbRead
        /\ OshbRows.verse[n].id = VerseId(OshbRead[n].osisID) /\ OshbRows.verse[n].osis = OshbRead[n].osisID
    BY <2>2 DEF OshbRows, Each
  <2> QED
    BY <2>1, <2>2, <2>3 DEF Range
<1> QED
  BY <1>2, <1>3, <1>4

\* So all of it is among the rows of every disk that has the files.
LEMMA OshbSent ==
  ASSUME NEW has \in Disks, "oshb" \in has
  PROVE  \A n \in OshbLists : \A x \in Range(OshbRows[n]) :
           [t |-> OshbTemplates[n], row |-> x] \in AllRowed(has)
<1>1. OshbOrder \in Seq(OshbLists) /\ Range(OshbOrder) = OshbLists
  <2>1. DOMAIN OshbOrder = 1 .. 12 /\ OshbOrder = [i \in 1 .. 12 |-> OshbOrder[i]]
    BY DEF OshbOrder
  <2>2. /\ OshbOrder[1] = "source" /\ OshbOrder[2] = "verse" /\ OshbOrder[3] = "strong"
        /\ OshbOrder[4] = "word" /\ OshbOrder[5] = "morpheme" /\ OshbOrder[6] = "reading"
        /\ OshbOrder[7] = "has_morpheme" /\ OshbOrder[8] = "in_verse" /\ OshbOrder[9] = "word_strong"
        /\ OshbOrder[10] = "morph_strong" /\ OshbOrder[11] = "is_qere_of" /\ OshbOrder[12] = "from_edition"
    BY DEF OshbOrder
  <2>3. \A i \in 1 .. 12 : i = 1 \/ i = 2 \/ i = 3 \/ i = 4 \/ i = 5 \/ i = 6 \/ i = 7 \/ i = 8 \/ i = 9
                           \/ i = 10 \/ i = 11 \/ i = 12
    OBVIOUS
  <2>4. OshbOrder \in [1 .. 12 -> OshbLists]
    BY <2>1, <2>2, <2>3 DEF OshbLists
  <2>5. OshbOrder \in Seq(OshbLists)
    BY <2>4, SeqDef
  <2>6. Range(OshbOrder) = OshbLists
    BY <2>1, <2>2, <2>3 DEF OshbLists, Range
  <2> QED
    BY <2>5, <2>6
<1>2. ScriptOf("oshb", has) = Script(OshbOrder, OshbTemplates, ReadFrom(has, "oshb", OshbRows))
  BY DEF ScriptOf, OshbScript
<1>3. "oshb" \in Sendable(has)
  BY TheseAreSent
<1>5. OshbLists \subseteq DOMAIN OshbRows
  BY DEF OshbRows, OshbLists
<1> HIDE DEF Range, OshbLists
<1> QED
  BY <1>1, <1>2, <1>3, OshbRowsAre, <1>5, ReadSent

-----------------------------------------------------------------------------
(* What MorphGNT sends. *)

IsGroup(g)       == DOMAIN g = {"ref", "text", "words"} /\ IsList(g.words)
GroupList(gs)    == IsList(gs) /\ \A g \in Range(gs) : IsGroup(g)
Holds(gs, ref, text) == \E g \in Range(gs) : g.ref = ref /\ text \in Range(g.words)

\* A line joins the last group or starts one; nothing that is held is lost.
LEMMA LineIsHeld ==
  ASSUME NEW gs, GroupList(gs), NEW line, NEW hs, hs = AddLine(gs, line)
  PROVE  /\ GroupList(hs)
         /\ \A ref, text : Holds(gs, ref, text) => Holds(hs, ref, text)
         /\ MorphgntOsis(line.bcv) # Null => Holds(hs, MorphgntOsis(line.bcv), line.text)
<1> DEFINE ref == MorphgntOsis(line.bcv)
           n   == Len(gs)
<1>1. n \in Nat /\ DOMAIN gs = 1 .. n /\ IsList(gs) /\ \A g \in Range(gs) : IsGroup(g)
  BY ListIs DEF GroupList
<1> HIDE DEF Range
<1>2. CASE ref = Null
  BY <1>2 DEF AddLine
<1>3. CASE ref # Null /\ n > 0 /\ gs[n].ref = ref
  <2> DEFINE old == gs[n]
             new == [ref |-> ref, text |-> old.text \o " " \o line.text,
                     words |-> Append(old.words, line.text)]
  <2>1. n \in DOMAIN gs /\ hs = [gs EXCEPT ![n] = new]
    <3>1. n \in DOMAIN gs
      BY <1>1, <1>3
    <3>2. AddLine(gs, line) = [gs EXCEPT ![n] = new]
      BY <1>3, Zenon DEF AddLine
    <3> QED
      BY <3>1, <3>2
  <2>2. IsList(old.words)
    BY <1>1, <2>1, ListIs DEF IsGroup
  <2>3. /\ IsList(new.words)
        /\ \A y : y \in Range(new.words) <=> y \in Range(old.words) \/ y = line.text
    BY <2>2, AppendIs
  <2>4. DOMAIN new = {"ref", "text", "words"} /\ new.ref = ref /\ old.ref = ref
    BY <1>3
  <2> HIDE DEF new
  <2>5. /\ IsList(hs) /\ new \in Range(hs)
        /\ \A y \in Range(gs) : y = old \/ y \in Range(hs)
        /\ \A y \in Range(hs) : y = new \/ y \in Range(gs)
    BY <1>1, <2>1, ReplaceIs
  <2> HIDE DEF old, ref, n
  <2>6. GroupList(hs)
    BY <1>1, <2>3, <2>4, <2>5 DEF GroupList, IsGroup
  <2>7. \A r, text : Holds(gs, r, text) => Holds(hs, r, text)
    BY <2>3, <2>4, <2>5 DEF Holds
  <2>8. Holds(hs, ref, line.text)
    BY <2>3, <2>4, <2>5 DEF Holds
  <2> QED
    BY <2>6, <2>7, <2>8 DEF ref
<1>4. CASE ref # Null /\ ~(n > 0 /\ gs[n].ref = ref)
  <2> DEFINE new == [ref |-> ref, text |-> line.text, words |-> <<line.text>>]
  <2>1. hs = Append(gs, new)
    BY <1>4 DEF AddLine
  <2>2. DOMAIN new = {"ref", "text", "words"} /\ new.ref = ref /\ new.words = <<line.text>>
    OBVIOUS
  <2>3. IsList(new.words) /\ line.text \in Range(new.words)
    BY <2>2, OneIs
  <2> HIDE DEF new
  <2>4. IsList(hs) /\ \A y : y \in Range(hs) <=> y \in Range(gs) \/ y = new
    BY <1>1, <2>1, AppendIs
  <2> HIDE DEF ref, n
  <2>5. GroupList(hs)
    BY <1>1, <2>2, <2>3, <2>4 DEF GroupList, IsGroup
  <2>6. \A r, text : Holds(gs, r, text) => Holds(hs, r, text)
    BY <2>4 DEF Holds
  <2>7. Holds(hs, ref, line.text)
    BY <2>2, <2>3, <2>4 DEF Holds
  <2> QED
    BY <2>5, <2>6, <2>7 DEF ref
<1> QED
  BY <1>2, <1>3, <1>4

\* f has the groups after each line.
Grouping(f, lines, m) ==
  f = [n \in 0 .. m |-> IF n = 0 THEN <<>> ELSE AddLine(f[n - 1], lines[n])]

\* The groups are well defined: by induction on the lines.
LEMMA GroupingExists ==
  ASSUME NEW lines, NEW m \in Nat
  PROVE  \E f : Grouping(f, lines, m)
<1> DEFINE S == {n \in Nat : \E f : Grouping(f, lines, n)}
<1>1. 0 \in S
  <2> DEFINE f == [n \in 0 .. 0 |-> <<>>]
  <2>1. f = [n \in 0 .. 0 |-> IF n = 0 THEN <<>> ELSE AddLine(f[n - 1], lines[n])]
    OBVIOUS
  <2>2. Grouping(f, lines, 0)
    BY <2>1 DEF Grouping
  <2> QED
    BY <2>2
<1>2. ASSUME NEW n \in Nat, n \in S PROVE n + 1 \in S
  <2>1. PICK f : Grouping(f, lines, n)
    BY <1>2
  <2> DEFINE next == AddLine(f[n], lines[n + 1])
             h    == [i \in 0 .. n + 1 |-> IF i <= n THEN f[i] ELSE next]
  <2>2. \A i \in 0 .. n : f[i] = IF i = 0 THEN <<>> ELSE AddLine(f[i - 1], lines[i])
    BY <2>1 DEF Grouping
  <2>3. ASSUME NEW i \in 0 .. n + 1
        PROVE  h[i] = IF i = 0 THEN <<>> ELSE AddLine(h[i - 1], lines[i])
    <3>1. CASE i <= n
      <4>1. i \in 0 .. n /\ h[i] = f[i] /\ (i # 0 => i - 1 \in 0 .. n + 1 /\ h[i - 1] = f[i - 1])
        BY <3>1
      <4> QED
        BY <2>2, <4>1
    <3>2. CASE i = n + 1
      <4>1. h[i] = next /\ i # 0 /\ i - 1 = n /\ n \in 0 .. n + 1 /\ h[n] = f[n]
        BY <3>2
      <4> HIDE DEF h
      <4> QED
        BY <3>2, <4>1
    <3> QED
      BY <3>1, <3>2
  <2>4. h = [i \in 0 .. n + 1 |-> IF i = 0 THEN <<>> ELSE AddLine(h[i - 1], lines[i])]
    BY <2>3
  <2>5. Grouping(h, lines, n + 1)
    BY <2>4 DEF Grouping
  <2> QED
    BY <2>5
<1> HIDE DEF S
<1>3. Nat \subseteq S
  BY <1>1, <1>2, InductionOnNat
<1> QED
  BY <1>3 DEF S

\* The first n lines are all in the groups.
Kept(gs, lines, n) ==
  \A i \in 1 .. n : MorphgntOsis(lines[i].bcv) # Null =>
    Holds(gs, MorphgntOsis(lines[i].bcv), lines[i].text)

\* Every line of a book is in a group of its verse.
LEMMA VerseGroupsAre ==
  ASSUME NEW lines, IsList(lines)
  PROVE  /\ GroupList(VerseGroups(lines))
         /\ \A line \in Range(lines) : MorphgntOsis(line.bcv) # Null =>
              Holds(VerseGroups(lines), MorphgntOsis(line.bcv), line.text)
<1> DEFINE m == Len(lines)
           f == CHOOSE f : Grouping(f, lines, m)
<1>1. m \in Nat /\ \A x : x \in Range(lines) <=> \E i \in 1 .. m : x = lines[i]
  BY ListIs
<1>2. Grouping(f, lines, m)
  BY <1>1, GroupingExists
<1>3. VerseGroups(lines) = f[m]
  BY DEF VerseGroups, After, Grouping
<1> HIDE DEF f, m
<1>4. \A n \in 0 .. m : f[n] = IF n = 0 THEN <<>> ELSE AddLine(f[n - 1], lines[n])
  BY <1>2 DEF Grouping
<1> DEFINE S == {n \in Nat : n <= m => GroupList(f[n]) /\ Kept(f[n], lines, n)}
<1>5. 0 \in S
  <2>1. f[0] = <<>>
    BY <1>1, <1>4
  <2>2. GroupList(f[0])
    BY <2>1, NoneIs DEF GroupList
  <2>3. Kept(f[0], lines, 0)
    BY DEF Kept
  <2> QED
    BY <2>2, <2>3
<1>6. ASSUME NEW n \in Nat, n \in S PROVE n + 1 \in S
  <2> SUFFICES ASSUME n + 1 <= m PROVE GroupList(f[n + 1]) /\ Kept(f[n + 1], lines, n + 1)
    OBVIOUS
  <2>1. n <= m /\ n + 1 \in 0 .. m /\ n + 1 # 0 /\ (n + 1) - 1 = n
    BY <1>1
  <2>2. GroupList(f[n]) /\ Kept(f[n], lines, n)
    BY <1>6, <2>1
  <2> DEFINE line == lines[n + 1]
  <2>3. f[n + 1] = AddLine(f[n], line)
    BY <1>4, <2>1
  <2>4. /\ GroupList(f[n + 1])
        /\ \A ref, text : Holds(f[n], ref, text) => Holds(f[n + 1], ref, text)
        /\ MorphgntOsis(line.bcv) # Null => Holds(f[n + 1], MorphgntOsis(line.bcv), line.text)
    <3> HIDE DEF line
    <3> QED
      BY <2>2, <2>3, LineIsHeld
  <2>5. ASSUME NEW i \in 1 .. n + 1, MorphgntOsis(lines[i].bcv) # Null
        PROVE  Holds(f[n + 1], MorphgntOsis(lines[i].bcv), lines[i].text)
    <3>1. CASE i = n + 1
      BY <2>4, <2>5, <3>1
    <3>2. CASE i # n + 1
      <4>1. i \in 1 .. n
        BY <3>2
      <4> QED
        BY <2>2, <2>4, <2>5, <4>1 DEF Kept
    <3> QED
      BY <3>1, <3>2
  <2>6. Kept(f[n + 1], lines, n + 1)
    BY <2>5 DEF Kept
  <2> QED
    BY <2>4, <2>6
<1> HIDE DEF S
<1>7. Nat \subseteq S
  BY <1>5, <1>6, InductionOnNat
<1>8. GroupList(f[m]) /\ Kept(f[m], lines, m)
  <2>1. m \in S /\ m <= m
    BY <1>1, <1>7
  <2> QED
    BY <2>1 DEF S
<1> QED
  BY <1>1, <1>3, <1>8 DEF Kept

\* Every line of the files is in a group.
LEMMA MorphgntGroupsAre ==
  /\ GroupList(MorphgntGroups)
  /\ \A line \in UNION {Range(book) : book \in Range(MorphgntBooks)} :
       MorphgntOsis(line.bcv) # Null => Holds(MorphgntGroups, MorphgntOsis(line.bcv), line.text)
<1> DEFINE f == [i \in DOMAIN MorphgntBooks |-> VerseGroups(MorphgntBooks[i])]
<1>1. IsList(MorphgntBooks) /\ \A book \in Range(MorphgntBooks) : IsList(book)
  <2>1. /\ IsList(MorphgntBooks)
        /\ \A book \in Range(MorphgntBooks) : book \in Seq([bcv : Seq(Nat), text : STRING])
    BY MorphgntAssumption, SeqIsList
  <2> HIDE DEF Range
  <2> QED
    BY <2>1, SeqIsList
<1>2. \A x : x \in Range(MorphgntBooks) <=> \E i \in DOMAIN MorphgntBooks : x = MorphgntBooks[i]
  BY <1>1, ListIs
<1>3. MorphgntGroups = FlattenSeq(f)
  BY DEF MorphgntGroups, EachAll, Each
<1>4. DOMAIN f = DOMAIN MorphgntBooks /\ f = [i \in DOMAIN MorphgntBooks |-> f[i]]
      /\ \A i \in DOMAIN MorphgntBooks : f[i] = VerseGroups(MorphgntBooks[i])
  OBVIOUS
<1> HIDE DEF f, Range
<1>5. \A i \in DOMAIN MorphgntBooks : IsList(MorphgntBooks[i])
  BY <1>1, <1>2
<1>6. \A i \in DOMAIN MorphgntBooks :
        /\ GroupList(f[i])
        /\ \A line \in Range(MorphgntBooks[i]) : MorphgntOsis(line.bcv) # Null =>
             Holds(f[i], MorphgntOsis(line.bcv), line.text)
  BY <1>4, <1>5, VerseGroupsAre
<1>7. /\ IsList(MorphgntGroups)
      /\ \A x : x \in Range(MorphgntGroups) <=> \E i \in DOMAIN MorphgntBooks : x \in Range(f[i])
  <2>1. \A i \in DOMAIN MorphgntBooks : IsList(f[i])
    BY <1>6 DEF GroupList
  <2> QED
    BY <1>1, <1>3, <1>4, <2>1, AllIs
<1>8. GroupList(MorphgntGroups)
  BY <1>6, <1>7 DEF GroupList
<1>9. ASSUME NEW line \in UNION {Range(book) : book \in Range(MorphgntBooks)},
             MorphgntOsis(line.bcv) # Null
      PROVE  Holds(MorphgntGroups, MorphgntOsis(line.bcv), line.text)
  <2>1. PICK i \in DOMAIN MorphgntBooks : line \in Range(MorphgntBooks[i])
    BY <1>2
  <2>2. Holds(f[i], MorphgntOsis(line.bcv), line.text)
    BY <1>6, <1>9, <2>1
  <2> QED
    BY <1>7, <2>2 DEF Holds
<1> QED
  BY <1>8, <1>9

\* f has something for each word of each group.
ByWord(f) ==
  /\ DOMAIN f = DOMAIN MorphgntGroups /\ f = [k \in DOMAIN MorphgntGroups |-> f[k]]
  /\ \A k \in DOMAIN MorphgntGroups :
       /\ DOMAIN f[k] = DOMAIN MorphgntGroups[k].words
       /\ f[k] = [i \in DOMAIN MorphgntGroups[k].words |-> f[k][i]]

\* And is a list.
LEMMA ByWordIs ==
  ASSUME NEW f, ByWord(f)
  PROVE  /\ IsList(FlattenSeq(f))
         /\ \A k \in DOMAIN MorphgntGroups : \A i \in DOMAIN MorphgntGroups[k].words :
              f[k][i] \in Range(FlattenSeq(f))
<1> DEFINE gs == MorphgntGroups
<1>1. IsList(gs) /\ \A g \in Range(gs) : IsGroup(g)
  BY MorphgntGroupsAre DEF GroupList
<1>2. \A k \in DOMAIN gs : IsList(gs[k].words)
  <2> HIDE DEF gs, Range
  <2> QED
    BY <1>1, ListIs DEF IsGroup
<1>3. /\ DOMAIN f = DOMAIN gs /\ f = [k \in DOMAIN gs |-> f[k]]
      /\ \A k \in DOMAIN gs : /\ DOMAIN f[k] = DOMAIN gs[k].words
                              /\ f[k] = [i \in DOMAIN gs[k].words |-> f[k][i]]
  BY DEF ByWord
<1> HIDE DEF gs, Range
<1>4. ASSUME NEW k \in DOMAIN gs
      PROVE  IsList(f[k]) /\ \A i \in DOMAIN gs[k].words : f[k][i] \in Range(f[k])
  <2> DEFINE xs == gs[k].words
             h  == f[k]
  <2>1. IsList(xs) /\ DOMAIN h = DOMAIN xs /\ h = [i \in DOMAIN xs |-> h[i]]
    BY <1>2, <1>3
  <2> HIDE DEF xs, h
  <2>2. IsList(h) /\ \A x : x \in Range(h) <=> \E i \in DOMAIN xs : x = h[i]
    BY <2>1, EachIs
  <2>3. IsList(h) /\ \A i \in DOMAIN xs : h[i] \in Range(h)
    BY <2>2
  <2> QED
    BY <2>3 DEF xs, h
<1>5. /\ IsList(FlattenSeq(f))
      /\ \A x : x \in Range(FlattenSeq(f)) <=> \E k \in DOMAIN gs : x \in Range(f[k])
  BY <1>1, <1>3, <1>4, AllIs
<1> QED
  BY <1>4, <1>5 DEF gs

MorphgntLists == {"source", "word", "verse", "in_verse", "parse_of"}

\* What MorphGNT sends: lists, with each word, its verse and that it is in it.
LEMMA MorphgntRowsAre ==
  /\ \A n \in MorphgntLists : IsList(MorphgntRows[n])
  /\ \A k \in DOMAIN MorphgntGroups : \A i \in DOMAIN MorphgntGroups[k].words :
       LET g == MorphgntGroups[k] IN
       /\ [id |-> MorphgntId(g, i), text |-> g.words[i], source |-> MorphGNT] \in Range(MorphgntRows.word)
       /\ Link(MorphgntId(g, i), VerseId(g.ref)) \in Range(MorphgntRows.in_verse)
  /\ \A k \in DOMAIN MorphgntGroups : \E v \in Range(MorphgntRows.verse) : v.id = VerseId(MorphgntGroups[k].ref)
<1> DEFINE gs == MorphgntGroups
           first == FirstBy("ref", gs)
           word == [k \in DOMAIN gs |-> [i \in DOMAIN gs[k].words |->
                      [id |-> MorphgntId(gs[k], i), text |-> gs[k].words[i], source |-> MorphGNT]]]
           in_verse == [k \in DOMAIN gs |-> [i \in DOMAIN gs[k].words |->
                      Link(MorphgntId(gs[k], i), VerseId(gs[k].ref))]]
           parse_of == [k \in DOMAIN gs |-> [i \in DOMAIN gs[k].words |->
                      Link(MorphgntId(gs[k], i), MorphgntAt(gs[k], i))]]
           verse == [k \in DOMAIN first |->
                  [id |-> VerseId(first[k].ref), osis |-> first[k].ref, text |-> first[k].text,
                   canon_section |-> "NT", source |-> MorphGNT]]
<1>1. /\ MorphgntRows.source = SourceRow(MorphGNT)
      /\ MorphgntRows.word = FlattenSeq(word)
      /\ MorphgntRows.verse = verse
      /\ MorphgntRows.in_verse = FlattenSeq(in_verse)
      /\ MorphgntRows.parse_of = FlattenSeq(parse_of)
  BY DEF MorphgntRows, EachAll, Each
<1>2. ByWord(word) /\ ByWord(in_verse) /\ ByWord(parse_of)
  BY DEF ByWord
<1>3. /\ DOMAIN verse = DOMAIN first /\ verse = [k \in DOMAIN first |-> verse[k]]
      /\ \A k \in DOMAIN first : verse[k].id = VerseId(first[k].ref)
  OBVIOUS
<1>4. \A k \in DOMAIN gs : \A i \in DOMAIN gs[k].words :
        /\ word[k][i] = [id |-> MorphgntId(gs[k], i), text |-> gs[k].words[i], source |-> MorphGNT]
        /\ in_verse[k][i] = Link(MorphgntId(gs[k], i), VerseId(gs[k].ref))
  OBVIOUS
<1> HIDE DEF word, in_verse, parse_of, verse, first, Range
<1>5. IsList(FlattenSeq(word)) /\ IsList(FlattenSeq(in_verse)) /\ IsList(FlattenSeq(parse_of))
      /\ \A k \in DOMAIN gs : \A i \in DOMAIN gs[k].words :
           word[k][i] \in Range(FlattenSeq(word)) /\ in_verse[k][i] \in Range(FlattenSeq(in_verse))
  BY <1>2, ByWordIs
<1>6. IsList(gs) /\ \A k \in DOMAIN gs : gs[k] \in Range(gs)
  <2>1. IsList(gs)
    BY MorphgntGroupsAre DEF GroupList
  <2> HIDE DEF gs
  <2> QED
    BY <2>1, ListIs
<1>7. IsList(first) /\ \A x \in Range(gs) : \E y \in Range(first) : y.ref = x.ref
  <2> HIDE DEF gs
  <2> QED
    BY <1>6, FirstIs DEF first
<1>8. IsList(verse) /\ \A x : x \in Range(verse) <=> \E k \in DOMAIN first : x = verse[k]
  BY <1>3, <1>7, EachIs
<1>9. IsList(SourceRow(MorphGNT))
  BY OneIs DEF SourceRow
<1>10. ASSUME NEW k \in DOMAIN gs PROVE \E v \in Range(verse) : v.id = VerseId(gs[k].ref)
  <2>1. PICK y \in Range(first) : y.ref = gs[k].ref
    BY <1>6, <1>7
  <2>2. PICK n \in DOMAIN first : y = first[n]
    BY <1>7, ListIs
  <2> QED
    BY <1>3, <1>8, <2>1, <2>2
<1>11. \A n \in MorphgntLists : IsList(MorphgntRows[n])
  BY <1>1, <1>5, <1>8, <1>9 DEF MorphgntLists
<1>12. \A k \in DOMAIN gs : \A i \in DOMAIN gs[k].words :
         /\ [id |-> MorphgntId(gs[k], i), text |-> gs[k].words[i], source |-> MorphGNT] \in Range(MorphgntRows.word)
         /\ Link(MorphgntId(gs[k], i), VerseId(gs[k].ref)) \in Range(MorphgntRows.in_verse)
  BY <1>1, <1>4, <1>5
<1> QED
  BY <1>1, <1>10, <1>11, <1>12

\* So all of it is among the rows of every disk that has the files.
LEMMA MorphgntSent ==
  ASSUME NEW has \in Disks, "morphgnt" \in has
  PROVE  \A n \in MorphgntLists : \A x \in Range(MorphgntRows[n]) :
           [t |-> MorphgntTemplates[n], row |-> x] \in AllRowed(has)
<1>1. MorphgntOrder \in Seq(MorphgntLists) /\ Range(MorphgntOrder) = MorphgntLists
  <2>1. DOMAIN MorphgntOrder = 1 .. 5 /\ MorphgntOrder = [i \in 1 .. 5 |-> MorphgntOrder[i]]
    BY DEF MorphgntOrder
  <2>2. /\ MorphgntOrder[1] = "source" /\ MorphgntOrder[2] = "word" /\ MorphgntOrder[3] = "verse"
        /\ MorphgntOrder[4] = "in_verse" /\ MorphgntOrder[5] = "parse_of"
    BY DEF MorphgntOrder
  <2>3. \A i \in 1 .. 5 : i = 1 \/ i = 2 \/ i = 3 \/ i = 4 \/ i = 5
    OBVIOUS
  <2>4. MorphgntOrder \in [1 .. 5 -> MorphgntLists]
    BY <2>1, <2>2, <2>3 DEF MorphgntLists
  <2>5. MorphgntOrder \in Seq(MorphgntLists)
    BY <2>4, SeqDef
  <2>6. Range(MorphgntOrder) = MorphgntLists
    BY <2>1, <2>2, <2>3 DEF MorphgntLists, Range
  <2> QED
    BY <2>5, <2>6
<1>2. ScriptOf("morphgnt", has) = Script(MorphgntOrder, MorphgntTemplates, ReadFrom(has, "morphgnt", MorphgntRows))
  BY DEF ScriptOf, MorphgntScript
<1>3. "morphgnt" \in Sendable(has)
  BY TheseAreSent
<1>5. MorphgntLists \subseteq DOMAIN MorphgntRows
  BY DEF MorphgntRows, MorphgntLists
<1> HIDE DEF Range, MorphgntLists
<1> QED
  BY <1>1, <1>2, <1>3, MorphgntRowsAre, <1>5, ReadSent

-----------------------------------------------------------------------------
(* What MACULA-Hebrew sends. *)

MaculaLists ==
  {"source", "token", "lemma", "greek_lemma", "enrichment", "instance_of", "bridges"}

\* The words that are read.
LEMMA MaculaTokensAre == IsList(MaculaTokens)
<1> DEFINE c == [i \in DOMAIN LowfatWords |-> LowfatWords[i].id # Null]
           f == [i \in DOMAIN LowfatWords |-> When(c[i], LowfatWords[i])]
<1>1. IsList(LowfatWords)
  BY LowfatAssumption DEF IsList
<1>2. MaculaTokens = FirstBy("id", FlattenSeq(f))
  BY DEF MaculaTokens, Only, EachAll, Each
<1>3. c \in [DOMAIN LowfatWords -> BOOLEAN] /\ f = [i \in DOMAIN LowfatWords |-> When(c[i], LowfatWords[i])]
  OBVIOUS
<1> HIDE DEF c, f
<1>4. IsList(FlattenSeq(f))
  BY <1>1, <1>3, ChosenAre
<1> QED
  BY <1>2, <1>4, FirstIs

\* The lists they are sent in; a lemma has a number.
LEMMA MaculaRowsAre ==
  /\ \A n \in MaculaLists : IsList(MaculaRows[n])
  /\ \A x \in Range(MaculaRows.lemma) : DOMAIN x = {"id", "strong", "source"} /\ x.strong # Null
<1> DEFINE M == MaculaTokens
           Number(w) == CanonicalStrongs(w.strong, "hb").id
           c == [i \in DOMAIN M |-> Number(M[i]) # Null]
           known == FlattenSeq([i \in DOMAIN M |-> When(c[i], M[i])])
           d == [i \in DOMAIN known |-> known[i].greek # Null]
           bridge == FlattenSeq([i \in DOMAIN known |-> When(d[i], known[i])])
           e == [i \in DOMAIN M |-> MaculaOsis(M[i].ref) # Null /\ M[i].lemma # Null]
           placed == FlattenSeq([i \in DOMAIN M |-> When(e[i], M[i])])
           token == [i \in DOMAIN M |-> [id |-> M[i].id, source |-> MaculaHebrew]]
           hebrew == [i \in DOMAIN known |-> HebrewLemma(known[i])]
           greek == [i \in DOMAIN bridge |-> BridgedLemma(bridge[i])]
           enrichment == [i \in DOMAIN placed |->
                            LinkAs(MaculaOsis(placed[i].ref), placed[i].id, [join_lemma |-> placed[i].lemma])]
           instance_of == [i \in DOMAIN known |-> Link(known[i].id, HebrewLemma(known[i]).id)]
           pairs == [i \in DOMAIN bridge |->
                       [pair |-> <<HebrewLemma(bridge[i]).id, BridgedLemma(bridge[i]).id>>,
                        greek |-> bridge[i].greek]]
           firsts == FirstBy("pair", pairs)
           bridges == [i \in DOMAIN firsts |->
                         LinkSet(firsts[i].pair[1], firsts[i].pair[2], [source |-> MaculaHebrew],
                                 [greek_surface |-> firsts[i].greek])]
<1>1. /\ MaculaRows.source = SourceRow(MaculaHebrew)
      /\ MaculaRows.token = token
      /\ MaculaRows.lemma = LastBy("id", hebrew)
      /\ MaculaRows.greek_lemma = LastBy("id", greek)
      /\ MaculaRows.enrichment = enrichment
      /\ MaculaRows.instance_of = instance_of
      /\ MaculaRows.bridges = bridges
  BY DEF MaculaRows, Only, EachAll, Each
<1>2. /\ c \in [DOMAIN M -> BOOLEAN] /\ d \in [DOMAIN known -> BOOLEAN] /\ e \in [DOMAIN M -> BOOLEAN]
      /\ \A i \in DOMAIN M : c[i] = (Number(M[i]) # Null)
  <2> HIDE DEF Number, M, known
  <2> QED
    OBVIOUS
<1>3. IsList(M)
  BY MaculaTokensAre
<1> HIDE DEF c, d, e, M, Range
<1>4. IsList(known) /\ \A x : x \in Range(known) <=> \E i \in DOMAIN M : c[i] /\ x = M[i]
  BY <1>2, <1>3, ChosenAre
<1>5. IsList(placed)
  <2> HIDE DEF known, bridge, firsts
  <2>1. e \in [DOMAIN M -> BOOLEAN]
    BY <1>2
  <2> QED
    BY <1>3, <2>1, ChosenAre
<1> HIDE DEF known, placed
<1>6. IsList(bridge)
  BY <1>2, <1>4, ChosenAre
<1> HIDE DEF bridge
<1>7. /\ DOMAIN token = DOMAIN M /\ token = [i \in DOMAIN M |-> token[i]]
      /\ DOMAIN hebrew = DOMAIN known /\ hebrew = [i \in DOMAIN known |-> hebrew[i]]
      /\ \A i \in DOMAIN known : hebrew[i] = HebrewLemma(known[i])
      /\ DOMAIN greek = DOMAIN bridge /\ greek = [i \in DOMAIN bridge |-> greek[i]]
      /\ DOMAIN enrichment = DOMAIN placed /\ enrichment = [i \in DOMAIN placed |-> enrichment[i]]
      /\ DOMAIN instance_of = DOMAIN known /\ instance_of = [i \in DOMAIN known |-> instance_of[i]]
      /\ DOMAIN pairs = DOMAIN bridge /\ pairs = [i \in DOMAIN bridge |-> pairs[i]]
      /\ DOMAIN bridges = DOMAIN firsts /\ bridges = [i \in DOMAIN firsts |-> bridges[i]]
  OBVIOUS
<1> HIDE DEF token, hebrew, greek, enrichment, instance_of, pairs, bridges
<1>8. /\ IsList(token) /\ IsList(hebrew) /\ IsList(greek) /\ IsList(enrichment) /\ IsList(instance_of)
      /\ IsList(pairs)
      /\ \A x : x \in Range(hebrew) <=> \E i \in DOMAIN known : x = hebrew[i]
  BY <1>3, <1>4, <1>5, <1>6, <1>7, EachIs
<1>9. IsList(firsts)
  BY <1>8, FirstIs
<1> HIDE DEF firsts
<1>10. IsList(bridges)
  BY <1>7, <1>9, EachIs
<1>11. IsList(SourceRow(MaculaHebrew))
  BY OneIs DEF SourceRow
<1>12. /\ IsList(LastBy("id", hebrew)) /\ IsList(LastBy("id", greek))
       /\ \A x \in Range(LastBy("id", hebrew)) : x \in Range(hebrew)
  BY <1>8, LastIs
<1>13. ASSUME NEW x \in Range(MaculaRows.lemma)
       PROVE  DOMAIN x = {"id", "strong", "source"} /\ x.strong # Null
  <2>1. PICK i \in DOMAIN known : x = HebrewLemma(known[i])
    BY <1>1, <1>7, <1>8, <1>12, <1>13
  <2>2. known[i] \in Range(known)
    BY <1>4, ListIs
  <2>3. Number(known[i]) # Null
    BY <1>2, <1>4, <2>2
  <2> QED
    BY <2>1, <2>3 DEF HebrewLemma
<1> QED
  BY <1>1, <1>8, <1>10, <1>11, <1>12, <1>13 DEF MaculaLists

\* So all of it is among the rows of every disk that has the files.
LEMMA MaculaSent ==
  ASSUME NEW has \in Disks, "macula_hebrew" \in has
  PROVE  \A n \in MaculaLists : \A x \in Range(MaculaRows[n]) :
           [t |-> MaculaTemplates[n], row |-> x] \in AllRowed(has)
<1>1. MaculaOrder \in Seq(MaculaLists) /\ Range(MaculaOrder) = MaculaLists
  <2>1. DOMAIN MaculaOrder = 1 .. 7 /\ MaculaOrder = [i \in 1 .. 7 |-> MaculaOrder[i]]
    BY DEF MaculaOrder
  <2>2. /\ MaculaOrder[1] = "source" /\ MaculaOrder[2] = "token" /\ MaculaOrder[3] = "lemma"
        /\ MaculaOrder[4] = "greek_lemma" /\ MaculaOrder[5] = "enrichment"
        /\ MaculaOrder[6] = "instance_of" /\ MaculaOrder[7] = "bridges"
    BY DEF MaculaOrder
  <2>3. \A i \in 1 .. 7 : i = 1 \/ i = 2 \/ i = 3 \/ i = 4 \/ i = 5 \/ i = 6 \/ i = 7
    OBVIOUS
  <2>4. MaculaOrder \in [1 .. 7 -> MaculaLists]
    BY <2>1, <2>2, <2>3 DEF MaculaLists
  <2>5. MaculaOrder \in Seq(MaculaLists)
    BY <2>4, SeqDef
  <2>6. Range(MaculaOrder) = MaculaLists
    BY <2>1, <2>2, <2>3 DEF MaculaLists, Range
  <2> QED
    BY <2>5, <2>6
<1>2. ScriptOf("macula_hebrew", has) = Script(MaculaOrder, MaculaTemplates, ReadFrom(has, "macula_hebrew", MaculaRows))
  BY DEF ScriptOf, MaculaScript
<1>3. "macula_hebrew" \in Sendable(has)
  BY TheseAreSent
<1>4. \A n \in MaculaLists : IsList(MaculaRows[n])
  BY MaculaRowsAre
<1>5. MaculaLists \subseteq DOMAIN MaculaRows
  BY DEF MaculaRows, MaculaLists
<1> HIDE DEF Range, MaculaLists
<1> QED
  BY <1>1, <1>2, <1>3, <1>4, <1>5, ReadSent

\* A row with the number is on the disk.
NumberSent(has, label, s) ==
  \E y \in AllRowed(has) : IsNode(y, label) /\ Given(y, "strong") /\ y.row.strong = s

\* Each number MACULA-Hebrew knows is sent as a lemma.
LEMMA HebrewNumberSent ==
  ASSUME NEW has \in Disks, "macula_hebrew" \in has, NEW s \in HebrewNumbers
  PROVE  NumberSent(has, "Lemma", s)
<1> HIDE DEF Range
<1>1. PICK r \in Range(MaculaRows.lemma) : s = r.strong
  BY DEF HebrewNumbers
<1>2. DOMAIN r = {"id", "strong", "source"} /\ r.strong # Null
  BY MaculaRowsAre
<1> DEFINE y == [t |-> MaculaTemplates.lemma, row |-> r]
<1>3. y.t = MaculaTemplates.lemma /\ y.row = r
  OBVIOUS
<1>4. y \in AllRowed(has)
  <2>1. "lemma" \in MaculaLists
    BY DEF MaculaLists
  <2> QED
    BY <2>1, MaculaSent
<1> HIDE DEF y
<1>5. IsNode(y, "Lemma")
  BY <1>3 DEF MaculaTemplates, NodeT, IsNode
<1>6. Given(y, "strong") /\ y.row.strong = s
  BY <1>1, <1>2, <1>3 DEF Given
<1> QED
  BY <1>4, <1>5, <1>6 DEF NumberSent

-----------------------------------------------------------------------------
(* What MACULA-Greek sends. *)

\* The words with a lemma, and their lemmas.
Numbered(x)  == x.w.lemma # Null /\ GreekStrong(x.w.strong) # Null
NumberedOf(ws)  == FlattenSeq([i \in DOMAIN ws |-> When(Numbered(ws[i]), ws[i])])
LemmasOf(ws) == [i \in DOMAIN NumberedOf(ws) |-> GreekLemmaOf(NumberedOf(ws)[i].source, NumberedOf(ws)[i].w)]

\* Of each id the first is sent.
LEMMA LemmaRowsAre ==
  ASSUME NEW ws PROVE GreekRows(ws).lemma = FirstBy("id", LemmasOf(ws))
BY DEF GreekRows, LemmasOf, NumberedOf, Numbered, Only, EachAll, Each

\* Those words are a list.
LEMMA NumberedAre ==
  ASSUME NEW ws, IsList(ws)
  PROVE  /\ IsList(NumberedOf(ws))
         /\ \A x \in Range(NumberedOf(ws)) : x \in Range(ws) /\ Numbered(x)
<1> DEFINE c == [i \in DOMAIN ws |-> Numbered(ws[i])]
           f == [i \in DOMAIN ws |-> When(c[i], ws[i])]
<1>1. c \in [DOMAIN ws -> BOOLEAN] /\ \A i \in DOMAIN ws : c[i] = Numbered(ws[i])
  BY DEF Numbered
<1>2. NumberedOf(ws) = FlattenSeq(f)
  BY DEF NumberedOf
<1> HIDE DEF c, Range
<1>3. f = [i \in DOMAIN ws |-> When(c[i], ws[i])]
  OBVIOUS
<1> HIDE DEF f
<1>4. /\ IsList(FlattenSeq(f))
      /\ \A x : x \in Range(FlattenSeq(f)) <=> \E i \in DOMAIN ws : c[i] /\ x = ws[i]
  BY <1>1, <1>3, ChosenAre
<1>5. \A i \in DOMAIN ws : ws[i] \in Range(ws)
  BY ListIs
<1> QED
  BY <1>1, <1>2, <1>4, <1>5

\* The lemmas are a list, and each has a number.
LEMMA GreekLemmasAre ==
  ASSUME NEW ws, IsList(ws)
  PROVE  /\ IsList(GreekRows(ws).lemma)
         /\ \A x \in Range(GreekRows(ws).lemma) :
              DOMAIN x = {"id", "strong", "source"} /\ x.strong # Null /\ Range(ws) # {}
<1> DEFINE xs == NumberedOf(ws)
           f  == LemmasOf(ws)
<1> HIDE DEF Range
<1>1. IsList(xs) /\ \A x \in Range(xs) : x \in Range(ws) /\ Numbered(x)
  BY NumberedAre
<1>2. /\ DOMAIN f = DOMAIN xs /\ f = [i \in DOMAIN xs |-> f[i]]
      /\ \A i \in DOMAIN xs : f[i] = GreekLemmaOf(xs[i].source, xs[i].w)
  BY DEF LemmasOf
<1> HIDE DEF xs, f
<1>3. IsList(f) /\ \A x : x \in Range(f) <=> \E i \in DOMAIN xs : x = f[i]
  BY <1>1, <1>2, EachIs
<1>4. IsList(FirstBy("id", f)) /\ \A x \in Range(FirstBy("id", f)) : x \in Range(f)
  BY <1>3, FirstIs
<1>5. ASSUME NEW x \in Range(f)
      PROVE  DOMAIN x = {"id", "strong", "source"} /\ x.strong # Null /\ Range(ws) # {}
  <2>1. PICK i \in DOMAIN xs : x = f[i]
    BY <1>3
  <2>2. xs[i] \in Range(xs)
    BY <1>1, ListIs
  <2>3. Numbered(xs[i]) /\ xs[i] \in Range(ws)
    BY <1>1, <2>2
  <2>4. x = GreekLemmaOf(xs[i].source, xs[i].w)
    BY <1>2, <2>1
  <2>5. DOMAIN x = {"id", "strong", "source"} /\ x.strong = GreekStrong(xs[i].w.strong)
    BY <2>4 DEF GreekLemmaOf
  <2> QED
    BY <2>3, <2>5 DEF Numbered
<1>6. GreekRows(ws).lemma = FirstBy("id", f)
  BY LemmaRowsAre DEF f
<1> QED
  BY <1>4, <1>5, <1>6

\* With more words there are more lemmas behind those of the first words.
LEMMA GreekLemmasBegin ==
  ASSUME NEW ws, IsList(ws), NEW more, IsList(more), Begins(ws, more)
  PROVE  Begins(GreekRows(ws).lemma, GreekRows(more).lemma)
<1> HIDE DEF Range
<1>1. Begins(NumberedOf(ws), NumberedOf(more))
  <2> DEFINE c == [i \in DOMAIN ws |-> Numbered(ws[i])]
             d == [i \in DOMAIN more |-> Numbered(more[i])]
             f == [i \in DOMAIN ws |-> When(c[i], ws[i])]
             g == [i \in DOMAIN more |-> When(d[i], more[i])]
  <2>1. /\ c \in [DOMAIN ws -> BOOLEAN] /\ d \in [DOMAIN more -> BOOLEAN]
        /\ NumberedOf(ws) = FlattenSeq(f) /\ NumberedOf(more) = FlattenSeq(g)
    BY DEF Numbered, NumberedOf
  <2>2. \A i \in DOMAIN ws : c[i] = d[i]
    BY DEF Begins
  <2> HIDE DEF c, d
  <2>3. f = [i \in DOMAIN ws |-> When(c[i], ws[i])] /\ g = [i \in DOMAIN more |-> When(d[i], more[i])]
    OBVIOUS
  <2> HIDE DEF f, g
  <2> QED
    BY <2>1, <2>2, <2>3, ChosenBegins
<1>2. /\ DOMAIN LemmasOf(ws) = DOMAIN NumberedOf(ws) /\ LemmasOf(ws) = [i \in DOMAIN NumberedOf(ws) |-> LemmasOf(ws)[i]]
      /\ DOMAIN LemmasOf(more) = DOMAIN NumberedOf(more) /\ LemmasOf(more) = [i \in DOMAIN NumberedOf(more) |-> LemmasOf(more)[i]]
      /\ \A i \in DOMAIN NumberedOf(ws) : LemmasOf(ws)[i] = GreekLemmaOf(NumberedOf(ws)[i].source, NumberedOf(ws)[i].w)
      /\ \A i \in DOMAIN NumberedOf(more) : LemmasOf(more)[i] = GreekLemmaOf(NumberedOf(more)[i].source, NumberedOf(more)[i].w)
  BY DEF LemmasOf
<1>3. Begins(LemmasOf(ws), LemmasOf(more))
  BY <1>1, <1>2 DEF Begins
<1>4. IsList(LemmasOf(ws)) /\ IsList(LemmasOf(more))
  BY <1>2, NumberedAre, EachIs
<1> QED
  BY <1>3, <1>4, LemmaRowsAre, FirstBegins

\* The chunks the words are read in.
LEMMA EditionChunksAre ==
  ASSUME NEW source, NEW rows, IsList(rows)
  PROVE  IsList(EditionChunks(source, rows)) /\ \A b \in Range(EditionChunks(source, rows)) : IsList(b)
<1> DEFINE c == [i \in DOMAIN rows |-> rows[i].id # Null]
           f == [i \in DOMAIN rows |-> When(c[i], rows[i])]
           read == FlattenSeq(f)
           ws == [i \in DOMAIN read |-> [source |-> source, w |-> read[i]]]
<1>1. EditionChunks(source, rows) = Chunks(ws)
  BY DEF EditionChunks, Only, EachAll, Each
<1>2. c \in [DOMAIN rows -> BOOLEAN]
  OBVIOUS
<1> HIDE DEF c
<1>3. f = [i \in DOMAIN rows |-> When(c[i], rows[i])]
  OBVIOUS
<1> HIDE DEF f
<1>4. IsList(read)
  BY <1>2, <1>3, ChosenAre
<1>5. DOMAIN ws = DOMAIN read /\ ws = [i \in DOMAIN read |-> ws[i]]
  OBVIOUS
<1> HIDE DEF read, ws, Range
<1>6. IsList(ws)
  BY <1>4, <1>5, EachIs
<1> QED
  BY <1>1, <1>6, ChunksAre

LEMMA GreekChunksAre == IsList(GreekChunks) /\ \A b \in Range(GreekChunks) : IsList(b)
<1> DEFINE one == EditionChunks(Nestle, NestleWords)
           two == EditionChunks(Sblgnt, SblgntWords)
<1>1. IsList(NestleWords) /\ IsList(SblgntWords)
  BY GreekAssumption DEF IsList
<1> HIDE DEF Range
<1>2. IsList(one) /\ IsList(two) /\ (\A b \in Range(one) : IsList(b)) /\ (\A b \in Range(two) : IsList(b))
  BY <1>1, EditionChunksAre
<1>3. GreekChunks = one \o two
  BY DEF GreekChunks
<1> HIDE DEF one, two
<1>4. IsList(one \o two) /\ \A x : x \in Range(one \o two) <=> x \in Range(one) \/ x \in Range(two)
  BY <1>2, BothIs
<1> QED
  BY <1>2, <1>3, <1>4

\* The words of the first i chunks.
WordsAfter(i) == FlattenSeq(SubSeq(GreekChunks, 1, i))

\* A later chunk leaves them where they are.
LEMMA WordsAfterAre ==
  ASSUME NEW i \in 0 .. Len(GreekChunks)
  PROVE  /\ IsList(WordsAfter(i))
         /\ i = 0 => Range(WordsAfter(i)) = {}
         /\ \A j \in i .. Len(GreekChunks) : Begins(WordsAfter(i), WordsAfter(j))
<1> DEFINE C == GreekChunks
           f(k) == SubSeq(C, 1, k)
<1>1. Len(C) \in Nat /\ DOMAIN C = 1 .. Len(C) /\ IsList(C)
  BY GreekChunksAre, ListIs
<1>2. \A k \in DOMAIN C : IsList(C[k])
  <2> HIDE DEF Range, C
  <2>1. \A k \in DOMAIN C : C[k] \in Range(C)
    BY <1>1, ListIs
  <2> QED
    BY <2>1, GreekChunksAre DEF C
<1> HIDE DEF C, f, Range
<1>3. ASSUME NEW k \in 0 .. Len(C)
      PROVE  /\ IsList(f(k)) /\ DOMAIN f(k) = 1 .. k /\ f(k) = [n \in DOMAIN f(k) |-> f(k)[n]]
             /\ \A n \in 1 .. k : f(k)[n] = C[n] /\ IsList(f(k)[n])
  <2>1. /\ IsList(f(k)) /\ DOMAIN f(k) = 1 .. k
        /\ \A n \in 1 .. k : f(k)[n] = C[n] /\ n \in DOMAIN C
    BY <1>1, FirstOnes DEF f
  <2>2. f(k) = [n \in DOMAIN f(k) |-> f(k)[n]]
    <3>1. f(k) \in Seq(Range(f(k)))
      BY <2>1 DEF IsList
    <3> QED
      BY <3>1, LenProperties
  <2> QED
    BY <1>2, <2>1, <2>2
<1>4. ASSUME NEW k \in 0 .. Len(C)
      PROVE  /\ IsList(FlattenSeq(f(k)))
             /\ \A x : x \in Range(FlattenSeq(f(k))) <=> \E n \in DOMAIN f(k) : x \in Range(f(k)[n])
  BY <1>3, AllIs
<1>5. WordsAfter(i) = FlattenSeq(f(i)) /\ \A j : WordsAfter(j) = FlattenSeq(f(j))
  BY DEF WordsAfter, f, C
<1>6. i \in 0 .. Len(C)
  BY DEF C
<1>7. ASSUME i = 0 PROVE Range(WordsAfter(i)) = {}
  BY <1>3, <1>4, <1>5, <1>6, <1>7
<1>8. ASSUME NEW j \in i .. Len(C) PROVE Begins(WordsAfter(i), WordsAfter(j))
  <2>1. j \in 0 .. Len(C) /\ i <= j
    BY <1>1, <1>6
  <2>2. DOMAIN f(i) = 1 .. i /\ DOMAIN f(j) = 1 .. j /\ 1 .. i \subseteq 1 .. j
    BY <1>1, <1>3, <1>6, <2>1
  <2>3. ASSUME NEW n \in 1 .. i PROVE f(i)[n] = C[n] /\ f(j)[n] = C[n]
    BY <1>3, <1>6, <2>1, <2>2
  <2>4. Begins(f(i), f(j))
    BY <2>2, <2>3 DEF Begins
  <2> QED
    BY <1>3, <1>5, <1>6, <2>1, <2>4, FlattenBegins
<1> QED
  BY <1>4, <1>5, <1>6, <1>7, <1>8 DEF C

\* What is collected grows at its end.
LEMMA GreekAfterIs ==
  ASSUME NEW i \in 0 .. Len(GreekChunks)
  PROVE  /\ IsList(GreekAfter(i).lemma)
         /\ \A x \in Range(GreekAfter(i).lemma) : DOMAIN x = {"id", "strong", "source"} /\ x.strong # Null
         /\ i = 0 => Range(GreekAfter(i).lemma) = {}
         /\ \A j \in i .. Len(GreekChunks) : Begins(GreekAfter(i).lemma, GreekAfter(j).lemma)
<1>1. \A k : GreekAfter(k).lemma = GreekRows(WordsAfter(k)).lemma
  BY DEF GreekAfter, WordsAfter
<1> HIDE DEF Range
<1>2. Len(GreekChunks) \in Nat
  BY GreekChunksAre, ListIs
<1>3. \A j \in i .. Len(GreekChunks) : j \in 0 .. Len(GreekChunks)
  BY <1>2
<1>4. \A j \in i .. Len(GreekChunks) : IsList(WordsAfter(j)) /\ Begins(WordsAfter(i), WordsAfter(j))
  BY <1>3, WordsAfterAre
<1>5. IsList(WordsAfter(i)) /\ (i = 0 => Range(WordsAfter(i)) = {})
  BY WordsAfterAre
<1>6. /\ IsList(GreekRows(WordsAfter(i)).lemma)
      /\ \A x \in Range(GreekRows(WordsAfter(i)).lemma) :
           DOMAIN x = {"id", "strong", "source"} /\ x.strong # Null /\ Range(WordsAfter(i)) # {}
  BY <1>5, GreekLemmasAre
<1>7. \A j \in i .. Len(GreekChunks) : Begins(GreekRows(WordsAfter(i)).lemma, GreekRows(WordsAfter(j)).lemma)
  BY <1>4, <1>5, GreekLemmasBegin
<1> QED
  BY <1>1, <1>5, <1>6, <1>7

\* What ingest_macula_greek sends with the ith chunk.
GreekPart(i, name) ==
  SubSeq(GreekAfter(i)[name], Len(GreekAfter(i - 1)[name]) + 1, Len(GreekAfter(i)[name]))
GreekFlush(i) ==
  FlattenSeq([k \in DOMAIN GreekOrder |->
                When(GreekPart(i, GreekOrder[k]) # <<>>,
                     [t |-> GreekTemplates[GreekOrder[k]], rows |-> GreekPart(i, GreekOrder[k])])])

\* It is a list, and has the new lemmas.
LEMMA GreekFlushIs ==
  ASSUME NEW i
  PROVE  /\ IsList(GreekFlush(i))
         /\ GreekPart(i, "lemma") # <<>> =>
              [t |-> GreekTemplates.lemma, rows |-> GreekPart(i, "lemma")] \in Range(GreekFlush(i))
<1> DEFINE xs == GreekOrder
           c == [k \in DOMAIN xs |-> GreekPart(i, xs[k]) # <<>>]
           g == [k \in DOMAIN xs |-> [t |-> GreekTemplates[xs[k]], rows |-> GreekPart(i, xs[k])]]
           f == [k \in DOMAIN xs |-> When(c[k], g[k])]
<1>1. GreekFlush(i) = FlattenSeq(f)
  BY DEF GreekFlush
<1>2. DOMAIN GreekOrder = 1 .. 6 /\ GreekOrder[2] = "lemma" /\ GreekOrder = [k \in 1 .. 6 |-> GreekOrder[k]]
  BY DEF GreekOrder
<1>3. c \in [DOMAIN xs -> BOOLEAN]
  OBVIOUS
<1>4. 2 \in DOMAIN xs /\ (GreekPart(i, "lemma") # <<>> => c[2])
      /\ g[2] = [t |-> GreekTemplates.lemma, rows |-> GreekPart(i, "lemma")]
  <2>1. 2 \in DOMAIN xs /\ xs[2] = "lemma"
    BY <1>2
  <2> HIDE DEF xs
  <2>2. g[2] = [t |-> GreekTemplates["lemma"], rows |-> GreekPart(i, "lemma")]
    BY <2>1
  <2>3. c[2] = (GreekPart(i, "lemma") # <<>>)
    BY <2>1
  <2> QED
    BY <2>1, <2>2, <2>3
<1>5. IsList(xs)
  <2>1. \A A : \A n \in Nat : \A h \in [1 .. n -> A] : h \in Seq(A)
    BY SeqDef
  <2>2. xs \in [1 .. 6 -> Range(xs)]
    BY <1>2 DEF Range
  <2> HIDE DEF Range, xs
  <2> QED
    BY <2>1, <2>2 DEF IsList
<1> HIDE DEF xs, c, g, Range
<1>6. f = [k \in DOMAIN xs |-> When(c[k], g[k])]
  OBVIOUS
<1> HIDE DEF f
<1>7. /\ IsList(FlattenSeq(f))
      /\ \A x : x \in Range(FlattenSeq(f)) <=> \E k \in DOMAIN xs : c[k] /\ x = g[k]
  BY <1>3, <1>5, <1>6, ChosenAre
<1> QED
  BY <1>1, <1>4, <1>7

\* All of that is in the script.
LEMMA GreekScriptHas ==
  ASSUME NEW has, "macula_greek" \in has, NEW i \in 1 .. Len(GreekChunks), NEW s \in Range(GreekFlush(i))
  PROVE  s \in Range(MaculaGreekScript(has))
<1> DEFINE n == Len(GreekChunks)
           ds == [k \in 1 .. n |-> k]
           f == [k \in DOMAIN ds |-> GreekFlush(ds[k])]
           source == Script(<<"source">>, GreekTemplates, [source |-> SourceRow(Nestle) \o SourceRow(Sblgnt)])
<1>1. n \in Nat
  BY GreekChunksAre, ListIs
<1>2. MaculaGreekScript(has) = source \o FlattenSeq(f)
  BY DEF MaculaGreekScript, Flushed, GreekFlush, GreekPart, EachAll, Each
<1>3. DOMAIN ds = 1 .. n /\ IsList(ds)
  <2>1. \A A : \A m \in Nat : \A h \in [1 .. m -> A] : h \in Seq(A)
    BY SeqDef
  <2> HIDE DEF n
  <2>2. ds \in [1 .. n -> Nat]
    BY <1>1
  <2>3. ds \in Seq(Nat)
    BY <1>1, <2>1, <2>2
  <2> HIDE DEF ds
  <2>4. IsList(ds)
    BY <2>3, SeqIsList
  <2> QED
    BY <2>4 DEF ds
<1>4. DOMAIN f = DOMAIN ds /\ f = [k \in DOMAIN ds |-> f[k]]
      /\ \A k \in DOMAIN ds : f[k] = GreekFlush(ds[k])
  OBVIOUS
<1>5. i \in DOMAIN ds /\ ds[i] = i
  OBVIOUS
<1>6. IsList(source)
  <2> DEFINE rows == [source |-> SourceRow(Nestle) \o SourceRow(Sblgnt)]
             names == <<"source">>
             h == [k \in DOMAIN names |-> Batched(GreekTemplates[names[k]], rows[names[k]])]
  <2>1. source = FlattenSeq(h)
    BY DEF Script, EachAll, Each
  <2>2. IsList(names) /\ \A y : y \in Range(names) <=> y = "source"
    <3> HIDE DEF Range
    <3> QED
      BY OneIs
  <2>3. IsList(rows.source)
    <3>1. IsList(SourceRow(Nestle)) /\ IsList(SourceRow(Sblgnt))
      BY OneIs DEF SourceRow
    <3>2. IsList(SourceRow(Nestle) \o SourceRow(Sblgnt))
      BY <3>1, BothIs
    <3> QED
      BY <3>2
  <2>4. DOMAIN h = DOMAIN names /\ h = [k \in DOMAIN names |-> h[k]]
        /\ \A k \in DOMAIN names : h[k] = Batched(GreekTemplates[names[k]], rows[names[k]])
    OBVIOUS
  <2> HIDE DEF h, rows, names, Range
  <2>5. \A k \in DOMAIN names : names[k] = "source"
    BY <2>2, ListIs
  <2>6. IsList(Batched(GreekTemplates.source, rows.source))
    BY <2>3, BatchedIs DEF IsList
  <2>7. \A k \in DOMAIN names : IsList(h[k])
    BY <2>4, <2>5, <2>6
  <2> QED
    BY <2>1, <2>2, <2>4, <2>7, AllIs
<1> HIDE DEF ds, f, source, Range
<1>7. \A k \in DOMAIN ds : IsList(f[k])
  BY <1>4, GreekFlushIs
<1>8. /\ IsList(FlattenSeq(f))
      /\ \A x : x \in Range(FlattenSeq(f)) <=> \E k \in DOMAIN ds : x \in Range(f[k])
  BY <1>3, <1>4, <1>7, AllIs
<1>9. s \in Range(FlattenSeq(f))
  BY <1>4, <1>5, <1>8
<1> QED
  BY <1>2, <1>6, <1>8, <1>9, BothIs

\* A lemma goes with the first chunk after which it is there.
LEMMA GreekLemmaPart ==
  ASSUME NEW r \in Range(GreekAfter(Len(GreekChunks)).lemma)
  PROVE  \E i \in 1 .. Len(GreekChunks) : r \in Range(GreekPart(i, "lemma"))
<1> DEFINE n == Len(GreekChunks)
           L(i) == GreekAfter(i).lemma
<1>1. n \in Nat
  BY GreekChunksAre, ListIs
<1>2. \A i \in 0 .. n : IsList(L(i))
  BY GreekAfterIs
<1>3. \A i \in 0 .. n : DOMAIN L(i) = 1 .. Len(L(i)) /\ Len(L(i)) \in Nat
  <2> HIDE DEF L, n
  <2> QED
    BY <1>2, ListIs
<1>4. \A i \in 0 .. n : Begins(L(i), L(n))
  BY <1>1, GreekAfterIs
<1>5. Range(L(0)) = {}
  BY <1>1, GreekAfterIs
<1>6. r \in Range(L(n))
  OBVIOUS
<1> HIDE DEF Range, L, n
<1>7. PICK k \in DOMAIN L(n) : r = L(n)[k]
  BY <1>1, <1>2, <1>6, ListIs
<1> DEFINE T == {i \in 0 .. n : k \in DOMAIN L(i)}
<1>8. PICK i \in T : \A j \in T : i <= j
  <2>1. n \in T /\ T \subseteq Nat
    BY <1>1, <1>7
  <2> HIDE DEF T
  <2> QED
    BY <2>1, LeastNumber
<1>9. i \in 0 .. n /\ k \in DOMAIN L(i)
  OBVIOUS
<1>10. i # 0
  <2>1. ASSUME i = 0 PROVE FALSE
    <3>1. L(0)[k] \in Range(L(0))
      BY <1>2, <1>9, <2>1, ListIs
    <3> QED
      BY <1>5, <3>1
  <2> QED
    BY <2>1
<1>11. i - 1 \in 0 .. n /\ i \in 1 .. n /\ k \notin DOMAIN L(i - 1)
  <2>1. i - 1 \in 0 .. n /\ i \in 1 .. n /\ ~(i <= i - 1)
    BY <1>1, <1>9, <1>10
  <2>2. i - 1 \notin T
    BY <1>8, <2>1
  <2> QED
    BY <2>1, <2>2
<1> DEFINE a == Len(L(i - 1))
           b == Len(L(i))
<1>12. a \in Nat /\ b \in Nat /\ k \in a + 1 .. b /\ k \in Nat
  BY <1>3, <1>9, <1>11
<1>13. L(i)[k] = r
  BY <1>4, <1>7, <1>9 DEF Begins
<1>14. r \in Range(SubSeq(L(i), a + 1, b))
  <2>1. L(i) \in Seq(Range(L(i))) /\ DOMAIN L(i) = 1 .. b
    BY <1>2, <1>3, <1>9 DEF IsList
  <2> HIDE DEF a, b
  <2>2. \A j \in a + 1 .. b : L(i)[j] \in Range(L(i))
    <3>1. \A j \in a + 1 .. b : j \in DOMAIN L(i)
      BY <1>12, <2>1
    <3> QED
      BY <1>2, <1>9, <3>1, ListIs
  <2> DEFINE q == SubSeq(L(i), a + 1, b)
  <2>3. /\ q \in Seq(Range(L(i)))
        /\ Len(q) = IF a + 1 <= b THEN b - (a + 1) + 1 ELSE 0
        /\ \A j \in 1 .. b - (a + 1) + 1 : q[j] = L(i)[a + 1 + j - 1]
    <3>1. a + 1 \in Int /\ b \in Int
      BY <1>12
    <3> QED
      BY <2>1, <2>2, <3>1, SubSeqProperties
  <2> HIDE DEF q
  <2>4. k - a \in 1 .. b - (a + 1) + 1 /\ a + 1 + (k - a) - 1 = k /\ k - a \in 1 .. Len(q)
    BY <1>12, <2>3
  <2>5. q[k - a] = r
    BY <1>13, <2>3, <2>4
  <2>6. k - a \in DOMAIN q
    BY <2>3, <2>4, LenProperties
  <2> QED
    BY <2>5, <2>6 DEF Range, q
<1>15. r \in Range(GreekPart(i, "lemma"))
  BY <1>14 DEF GreekPart, L
<1> QED
  BY <1>11, <1>15 DEF n

\* Each number MACULA-Greek knows is sent as a lemma.
LEMMA GreekNumberSent ==
  ASSUME NEW has \in Disks, "macula_greek" \in has, NEW s \in GreekNumbers
  PROVE  NumberSent(has, "GreekLemma", s)
<1> HIDE DEF Range
<1>1. PICK r \in Range(GreekAfter(Len(GreekChunks)).lemma) : s = r.strong
  BY DEF GreekNumbers
<1>2. DOMAIN r = {"id", "strong", "source"} /\ r.strong # Null
  <2>1. Len(GreekChunks) \in 0 .. Len(GreekChunks)
    BY GreekChunksAre, ListIs
  <2> QED
    BY <2>1, GreekAfterIs
<1>3. PICK i \in 1 .. Len(GreekChunks) : r \in Range(GreekPart(i, "lemma"))
  BY GreekLemmaPart
<1> DEFINE part == GreekPart(i, "lemma")
           z == [t |-> GreekTemplates.lemma, rows |-> part]
           y == [t |-> GreekTemplates.lemma, row |-> r]
<1>4. z.t = GreekTemplates.lemma /\ z.rows = part /\ y.t = GreekTemplates.lemma /\ y.row = r
  OBVIOUS
<1>5. part # <<>>
  BY <1>3, NoneIs
<1>6. z \in Range(MaculaGreekScript(has))
  BY <1>5, GreekFlushIs, GreekScriptHas
<1>7. y \in AllRowed(has)
  <2>1. ScriptOf("macula_greek", has) = MaculaGreekScript(has)
    BY DEF ScriptOf
  <2>2. "macula_greek" \in Sendable(has)
    BY TheseAreSent
  <2> HIDE DEF z, part
  <2>3. [t |-> z.t, row |-> r] \in AllRowed(has)
    BY <1>3, <1>4, <1>6, <2>1, <2>2, SentRow DEF part
  <2> QED
    BY <1>4, <2>3
<1> HIDE DEF y
<1>8. IsNode(y, "GreekLemma")
  BY <1>4 DEF GreekTemplates, NodeT, IsNode
<1>9. Given(y, "strong") /\ y.row.strong = s
  BY <1>1, <1>2, <1>4 DEF Given
<1> QED
  BY <1>7, <1>8, <1>9 DEF NumberSent

-----------------------------------------------------------------------------
(* What the tagged texts send. *)

\* The tokens of the two texts.
LEMMA TahotTokensAre == IsList(TahotTokens)
<1> DEFINE T == {l \in Range(TahotLines) : l.filled /\ RootStrong(l) # ""}
           Token(l) ==
             [id |-> TokenStableId(l), verse |-> StepVerse(l), strong |-> RootStrong(l),
              lxx |-> IF RootStrong(l) \in DOMAIN LxxVariantByStrong
                      THEN LxxVariantByStrong[RootStrong(l)] ELSE Null]
           only == Only(TahotLines, LAMBDA l : l.filled /\ RootStrong(l) # "")
           f == [i \in DOMAIN TahotLines |-> When(TahotLines[i] \in T, TahotLines[i])]
           g == [i \in DOMAIN only |-> Token(only[i])]
<1>1. IsList(TahotLines)
  BY TaggedAssumption DEF IsList
<1>2. only = FlattenSeq(f)
  <2>1. only = FlattenSeq([i \in DOMAIN TahotLines |->
                  When(TahotLines[i].filled /\ RootStrong(TahotLines[i]) # "", TahotLines[i])])
    BY DEF Only, EachAll, Each
  <2>2. ASSUME NEW i \in DOMAIN TahotLines
        PROVE  TahotLines[i] \in T <=> (TahotLines[i].filled /\ RootStrong(TahotLines[i]) # "")
    <3>1. TahotLines[i] \in Range(TahotLines)
      BY DEF Range
    <3> HIDE DEF Range
    <3> QED
      BY <3>1
  <2> HIDE DEF T
  <2>3. f = [i \in DOMAIN TahotLines |->
                  When(TahotLines[i].filled /\ RootStrong(TahotLines[i]) # "", TahotLines[i])]
    BY <2>2 DEF When
  <2> QED
    BY <2>1, <2>3
<1> HIDE DEF T
<1>3. TahotTokens = FirstBy("id", g)
  BY DEF TahotTokens, Each
<1>4. IsList(only)
  <2>1. f = [i \in DOMAIN TahotLines |-> When(TahotLines[i] \in T, TahotLines[i])]
    OBVIOUS
  <2> HIDE DEF f
  <2>2. IsList(FlattenSeq(f))
    BY <1>1, <2>1, OnlyIs
  <2> QED
    BY <1>2, <2>2
<1> HIDE DEF Token, only
<1>5. DOMAIN g = DOMAIN only /\ g = [i \in DOMAIN only |-> g[i]]
  OBVIOUS
<1> HIDE DEF g
<1>6. IsList(g)
  BY <1>4, <1>5, EachIs
<1> QED
  BY <1>3, <1>6, FirstIs

LEMMA TagntTokensAre == IsList(TagntTokens)
<1> DEFINE T == {l \in Range(TagntLines) : l.pos # ""}
           Token(l) ==
             [id |-> "stepbible-tagnt:" \o Osis(l.book, l.chapter, l.verse) \o ".w" \o Zfill(2, l.pos),
              verse |-> StepVerse(l), strong |-> CanonicalStrongs(l.strong, "gk").id]
           only == Only(TagntLines, LAMBDA l : l.pos # "")
           f == [i \in DOMAIN TagntLines |-> When(TagntLines[i] \in T, TagntLines[i])]
           g == [i \in DOMAIN only |-> Token(only[i])]
<1>1. IsList(TagntLines)
  BY TaggedAssumption DEF IsList
<1>2. only = FlattenSeq(f)
  <2>1. only = FlattenSeq([i \in DOMAIN TagntLines |->
                  When(TagntLines[i].pos # "", TagntLines[i])])
    BY DEF Only, EachAll, Each
  <2>2. ASSUME NEW i \in DOMAIN TagntLines PROVE TagntLines[i] \in T <=> TagntLines[i].pos # ""
    <3>1. TagntLines[i] \in Range(TagntLines)
      BY DEF Range
    <3> HIDE DEF Range
    <3> QED
      BY <3>1
  <2> HIDE DEF T
  <2>3. f = [i \in DOMAIN TagntLines |-> When(TagntLines[i].pos # "", TagntLines[i])]
    BY <2>2 DEF When
  <2> QED
    BY <2>1, <2>3
<1> HIDE DEF T
<1>3. TagntTokens = FirstBy("id", g)
  BY DEF TagntTokens, Each
<1>4. IsList(only)
  <2>1. f = [i \in DOMAIN TagntLines |-> When(TagntLines[i] \in T, TagntLines[i])]
    OBVIOUS
  <2> HIDE DEF f
  <2>2. IsList(FlattenSeq(f))
    BY <1>1, <2>1, OnlyIs
  <2> QED
    BY <1>2, <2>2
<1> HIDE DEF Token, only
<1>5. DOMAIN g = DOMAIN only /\ g = [i \in DOMAIN only |-> g[i]]
  OBVIOUS
<1> HIDE DEF g
<1>6. IsList(g)
  BY <1>4, <1>5, EachIs
<1> QED
  BY <1>3, <1>6, FirstIs

\* What a tagged text sends of a token x: its own row, its lemma and its verse.
TokenT         == NodeT("TaggedToken", "id")
LemmaT(label)  == EdgeT("INSTANCE_OF", End("TaggedToken", "id"), End(label, "strong"))
VerseT         == EdgeT("IN_VERSE", End("TaggedToken", "id"), End("Verse", "id"))
TokenSent(has, x, label, row) ==
  /\ [t |-> TokenT, row |-> row] \in AllRowed(has)
  /\ x.strong # Null => [t |-> LemmaT(label), row |-> Link(x.id, x.strong)] \in AllRowed(has)
  /\ x.verse # Null => [t |-> VerseT, row |-> Link(x.id, x.verse)] \in AllRowed(has)

\* The templates, by their names.
LEMMA TemplatesAre ==
  ASSUME NEW label
  PROVE  /\ TaggedTemplates(label).token = TokenT
         /\ TaggedTemplates(label).instance_of = LemmaT(label)
         /\ TaggedTemplates(label).in_verse = VerseT
BY DEF TaggedTemplates, TokenT, LemmaT, VerseT, IdEdgeT

\* The three statements of a batch of TAHOT.
TahotToken(x)    == [id |-> x.id, source |-> Tahot, strong |-> x.strong, lxx_lemma |-> x.lxx]
TahotRows(b)     == [i \in DOMAIN b |-> TahotToken(b[i])]
TahotInstances(b) == [i \in DOMAIN b |-> Link(b[i].id, b[i].strong)]
TahotVerses(b)   == FlattenSeq([i \in DOMAIN b |-> When(b[i].verse # Null, Link(b[i].id, b[i].verse))])
TahotBatch(b)    ==
  <<[t |-> TokenT, rows |-> TahotRows(b)], [t |-> LemmaT("Lemma"), rows |-> TahotInstances(b)],
    [t |-> VerseT, rows |-> TahotVerses(b)]>>

\* What it sends of each token.
LEMMA TahotBatchIs ==
  ASSUME NEW b, IsList(b), NEW x \in Range(b)
  PROVE  /\ TahotToken(x) \in Range(TahotRows(b))
         /\ Link(x.id, x.strong) \in Range(TahotInstances(b))
         /\ x.verse # Null => Link(x.id, x.verse) \in Range(TahotVerses(b))
<1>1. PICK i \in DOMAIN b : x = b[i]
  BY ListIs
<1>2. TahotToken(x) \in Range(TahotRows(b)) /\ Link(x.id, x.strong) \in Range(TahotInstances(b))
  BY <1>1 DEF TahotRows, TahotInstances, Range
<1>3. ASSUME x.verse # Null PROVE Link(x.id, x.verse) \in Range(TahotVerses(b))
  <2> DEFINE T == {z \in Range(b) : z.verse # Null}
             y == [j \in DOMAIN b |-> Link(b[j].id, b[j].verse)]
             f == [j \in DOMAIN b |-> When(b[j] \in T, y[j])]
             g == [j \in DOMAIN b |-> When(b[j].verse # Null, Link(b[j].id, b[j].verse))]
  <2>1. \A j \in DOMAIN b : b[j] \in T <=> b[j].verse # Null
    <3>1. \A j \in DOMAIN b : b[j] \in Range(b)
      BY DEF Range
    <3> HIDE DEF Range
    <3> QED
      BY <3>1
  <2> HIDE DEF T, Range
  <2>2. f = g
    BY <2>1 DEF When
  <2>3. \A j \in DOMAIN b : b[j] \in T => y[j] \in Range(FlattenSeq(f))
    <3>1. f = [j \in DOMAIN b |-> When(b[j] \in T, y[j])]
      OBVIOUS
    <3> HIDE DEF f, y, g
    <3> QED
      BY <3>1, SomeRowsAre
  <2>4. y[i] = Link(x.id, x.verse) /\ b[i] \in T
    BY <1>1, <1>3, <2>1
  <2> HIDE DEF f, y, g
  <2>5. Link(x.id, x.verse) \in Range(FlattenSeq(g))
    BY <2>2, <2>3, <2>4
  <2> QED
    BY <2>5 DEF TahotVerses, g
<1> QED
  BY <1>2, <1>3

\* TAHOT sends batch by batch, TAGNT list by list.
LEMMA TahotSent ==
  ASSUME NEW has \in Disks, "stepbible_tahot" \in has, NEW x \in Range(TahotTokens)
  PROVE  TokenSent(has, x, "Lemma", TahotToken(x))
<1> DEFINE tokens == TahotTokens
           C == Chunks(tokens)
           f == [i \in DOMAIN C |-> TahotBatch(C[i])]
           source == Batched(SourceT, SourceRow(Tahot))
           script == ScriptOf("stepbible_tahot", has)
<1>1. script = source \o FlattenSeq(f)
  BY TemplatesAre DEF ScriptOf, TahotScript, Present, EachAll, Each, TahotBatch, TahotRows, TahotInstances,
         TahotVerses, TahotToken, TaggedTemplates
<1>2. /\ IsList(C) /\ \A b \in Range(C) : IsList(b)
      /\ \A z \in Range(tokens) : \E b \in Range(C) : z \in Range(b)
      /\ x \in Range(tokens)
  <2> HIDE DEF Range
  <2> QED
    BY TahotTokensAre, ChunksAre
<1>3. DOMAIN f = DOMAIN C /\ f = [i \in DOMAIN C |-> f[i]] /\ \A i \in DOMAIN C : f[i] = TahotBatch(C[i])
  OBVIOUS
<1> HIDE DEF Range, C, f, tokens, source, script
<1>4. \A i \in DOMAIN C :
        /\ IsList(f[i])
        /\ [t |-> TokenT, rows |-> TahotRows(C[i])] \in Range(f[i])
        /\ [t |-> LemmaT("Lemma"), rows |-> TahotInstances(C[i])] \in Range(f[i])
        /\ [t |-> VerseT, rows |-> TahotVerses(C[i])] \in Range(f[i])
  BY <1>3, ThreeIs DEF TahotBatch
<1>5. /\ IsList(FlattenSeq(f))
      /\ \A s : s \in Range(FlattenSeq(f)) <=> \E i \in DOMAIN C : s \in Range(f[i])
  BY <1>2, <1>3, <1>4, AllIs
<1>6. IsList(source)
  <2>1. SourceRow(Tahot) \in Seq(Range(SourceRow(Tahot)))
    BY OneIs DEF SourceRow, IsList
  <2> QED
    BY <2>1, BatchedIs DEF source, IsList
<1>7. \A s \in Range(FlattenSeq(f)) : s \in Range(script)
  BY <1>1, <1>5, <1>6, BothIs
<1>8. PICK b \in Range(C) : x \in Range(b)
  BY <1>2
<1>9. PICK i \in DOMAIN C : b = C[i]
  BY <1>2, ListIs
<1>10. IsList(b)
  BY <1>2
<1>11. /\ TahotToken(x) \in Range(TahotRows(b))
       /\ Link(x.id, x.strong) \in Range(TahotInstances(b))
       /\ x.verse # Null => Link(x.id, x.verse) \in Range(TahotVerses(b))
  BY <1>8, <1>10, TahotBatchIs
<1>12. /\ [t |-> TokenT, rows |-> TahotRows(b)] \in Range(script)
       /\ [t |-> LemmaT("Lemma"), rows |-> TahotInstances(b)] \in Range(script)
       /\ [t |-> VerseT, rows |-> TahotVerses(b)] \in Range(script)
  BY <1>4, <1>5, <1>7, <1>9
<1>13. "stepbible_tahot" \in Sendable(has)
  BY TheseAreSent
<1>14. ASSUME NEW s \in Range(script), NEW row \in Range(s.rows)
       PROVE  [t |-> s.t, row |-> row] \in AllRowed(has)
  BY <1>13, <1>14, SentRow DEF script
<1>15. ASSUME NEW t, NEW rows, [t |-> t, rows |-> rows] \in Range(script), NEW row \in Range(rows)
       PROVE  [t |-> t, row |-> row] \in AllRowed(has)
  <2> DEFINE s == [t |-> t, rows |-> rows]
  <2>1. s \in Range(script) /\ s.t = t /\ s.rows = rows
    BY <1>15
  <2> HIDE DEF s
  <2>2. [t |-> s.t, row |-> row] \in AllRowed(has)
    BY <1>14, <1>15, <2>1
  <2> QED
    BY <2>1, <2>2
<1>16. [t |-> TokenT, row |-> TahotToken(x)] \in AllRowed(has)
  BY <1>11, <1>12, <1>15
<1>17. [t |-> LemmaT("Lemma"), row |-> Link(x.id, x.strong)] \in AllRowed(has)
  BY <1>11, <1>12, <1>15
<1>18. x.verse # Null => [t |-> VerseT, row |-> Link(x.id, x.verse)] \in AllRowed(has)
  BY <1>11, <1>12, <1>15
<1> QED
  BY <1>16, <1>17, <1>18 DEF TokenSent

TagntLists    == {"source", "token", "instance_of", "in_verse"}
TagntToken(x) == [id |-> x.id, source |-> "STEPBible-TAGNT"]

LEMMA TagntSent ==
  ASSUME NEW has \in Disks, "stepbible_tagnt" \in has, NEW x \in Range(TagntTokens)
  PROVE  TokenSent(has, x, "GreekLemma", TagntToken(x))
<1> DEFINE tokens == TagntTokens
           D == DOMAIN tokens
           token == [i \in D |-> TagntToken(tokens[i])]
           instance_of == [i \in D |-> When(tokens[i].strong # Null, Link(tokens[i].id, tokens[i].strong))]
           in_verse == [i \in D |-> When(tokens[i].verse # Null, Link(tokens[i].id, tokens[i].verse))]
           rows == [source |-> SourceRow("STEPBible-TAGNT"), token |-> token,
                    instance_of |-> FlattenSeq(instance_of), in_verse |-> FlattenSeq(in_verse)]
           order == <<"source", "token", "instance_of", "in_verse">>
           T == TaggedTemplates("GreekLemma")
           S == {z \in Range(tokens) : z.strong # Null}
           V == {z \in Range(tokens) : z.verse # Null}
<1>1. ScriptOf("stepbible_tagnt", has) = Script(order, T, rows)
  BY DEF ScriptOf, TagntScript, Present, EachAll, Each, TagntToken
<1>2. order \in Seq(TagntLists) /\ Range(order) = TagntLists
  <2>1. DOMAIN order = 1 .. 4 /\ order = [i \in 1 .. 4 |-> order[i]]
        /\ order[1] = "source" /\ order[2] = "token" /\ order[3] = "instance_of" /\ order[4] = "in_verse"
    OBVIOUS
  <2>2. \A i \in 1 .. 4 : i = 1 \/ i = 2 \/ i = 3 \/ i = 4
    OBVIOUS
  <2> HIDE DEF order
  <2>3. order \in [1 .. 4 -> TagntLists]
    BY <2>1, <2>2 DEF TagntLists
  <2>4. order \in Seq(TagntLists)
    <3>1. \A f, A : f \in [1 .. 4 -> A] => f \in Seq(A)
      BY SeqDef
    <3> QED
      BY <2>3, <3>1
  <2>5. Range(order) = TagntLists
    BY <2>1, <2>2 DEF TagntLists, Range
  <2> QED
    BY <2>4, <2>5
<1>3. /\ rows.source = SourceRow("STEPBible-TAGNT") /\ rows.token = token
      /\ rows.instance_of = FlattenSeq(instance_of) /\ rows.in_verse = FlattenSeq(in_verse)
  OBVIOUS
<1>4. /\ DOMAIN token = D /\ token = [i \in D |-> token[i]]
      /\ \A i \in D : token[i] = TagntToken(tokens[i])
  OBVIOUS
<1>5. \A i \in D : tokens[i] \in Range(tokens)
  BY DEF Range
<1>6. IsList(tokens) /\ x \in Range(tokens)
  BY TagntTokensAre
<1> HIDE DEF Range, tokens, rows, order, token
<1>7. PICK n \in D : x = tokens[n]
  BY <1>6, ListIs
<1>8. IsList(token) /\ token[n] \in Range(token)
  <2>1. IsList(token) /\ \A z : z \in Range(token) <=> \E i \in D : z = token[i]
    BY <1>4, <1>6, EachIs
  <2> QED
    BY <1>7, <2>1
<1>9. /\ IsList(FlattenSeq(instance_of))
      /\ x.strong # Null => Link(x.id, x.strong) \in Range(FlattenSeq(instance_of))
  <2> DEFINE y == [i \in D |-> Link(tokens[i].id, tokens[i].strong)]
  <2>1. y[n] = Link(x.id, x.strong) /\ (x.strong # Null => tokens[n] \in S)
    BY <1>6, <1>7
  <2>2. instance_of = [i \in D |-> When(tokens[i] \in S, y[i])]
    <3>1. \A i \in D : tokens[i] \in S <=> tokens[i].strong # Null
      BY <1>5
    <3> HIDE DEF S
    <3> QED
      BY <3>1 DEF When
  <2> HIDE DEF y, instance_of, S
  <2>3. /\ IsList(FlattenSeq(instance_of))
        /\ \A i \in D : tokens[i] \in S => y[i] \in Range(FlattenSeq(instance_of))
    BY <1>6, <2>2, SomeRowsAre
  <2> QED
    BY <1>7, <2>1, <2>3
<1>10. /\ IsList(FlattenSeq(in_verse))
       /\ x.verse # Null => Link(x.id, x.verse) \in Range(FlattenSeq(in_verse))
  <2> DEFINE y == [i \in D |-> Link(tokens[i].id, tokens[i].verse)]
  <2>1. y[n] = Link(x.id, x.verse) /\ (x.verse # Null => tokens[n] \in V)
    BY <1>6, <1>7
  <2>2. in_verse = [i \in D |-> When(tokens[i] \in V, y[i])]
    <3>1. \A i \in D : tokens[i] \in V <=> tokens[i].verse # Null
      BY <1>5
    <3> HIDE DEF V
    <3> QED
      BY <3>1 DEF When
  <2> HIDE DEF y, in_verse, V
  <2>3. /\ IsList(FlattenSeq(in_verse))
        /\ \A i \in D : tokens[i] \in V => y[i] \in Range(FlattenSeq(in_verse))
    BY <1>6, <2>2, SomeRowsAre
  <2> QED
    BY <1>7, <2>1, <2>3
<1> HIDE DEF instance_of, in_verse, T, S, V
<1>11. \A k \in TagntLists : IsList(rows[k])
  <2>1. IsList(SourceRow("STEPBible-TAGNT"))
    BY OneIs DEF SourceRow
  <2> QED
    BY <1>3, <1>8, <1>9, <1>10, <2>1 DEF TagntLists
<1>12. "stepbible_tagnt" \in Sendable(has)
  BY TheseAreSent
<1>13. \A k \in TagntLists : \A r \in Range(rows[k]) : [t |-> T[k], row |-> r] \in AllRowed(has)
  BY <1>1, <1>2, <1>11, <1>12, OwnSent
<1>14. /\ \A r \in Range(rows.token) : [t |-> T.token, row |-> r] \in AllRowed(has)
       /\ \A r \in Range(rows.instance_of) : [t |-> T.instance_of, row |-> r] \in AllRowed(has)
       /\ \A r \in Range(rows.in_verse) : [t |-> T.in_verse, row |-> r] \in AllRowed(has)
  BY <1>13 DEF TagntLists
<1>15. T.token = TokenT /\ T.instance_of = LemmaT("GreekLemma") /\ T.in_verse = VerseT
  BY TemplatesAre DEF T
<1>16. token[n] = TagntToken(x)
  BY <1>4, <1>7
<1> QED
  BY <1>3, <1>8, <1>9, <1>10, <1>14, <1>15, <1>16 DEF TokenSent

-----------------------------------------------------------------------------
(* What the anchors reach. *)

\* A node of the label that shows what the row gives.
Standing(x, n) == n \in AllOf(x.t.label) /\ \A f : Given(x, f) => Prop(n, f) = x.row[f]

\* The template of a row fits the constraints.
LEMMA RowFits ==
  ASSUME NEW most, FilesSettle(most), NEW has \in Disks, NEW x \in AllRowed(has)
  PROVE  Fits(x.t)
<1>1. PICK name \in Sendable(has) : x \in Rowed(name, has)
  BY DEF AllRowed
<1> HIDE DEF Range
<1>2. PICK s \in Range(Scripts[has][name]) : x \in {[t |-> s.t, row |-> r] : r \in Range(s.rows)}
  BY <1>1 DEF Rowed
<1>3. x.t = s.t
  BY <1>2
<1> QED
  BY <1>1, <1>2, <1>3 DEF FilesSettle, ScriptsFit

\* After a pass, the node of a row stands.
LEMMA NodeStands ==
  ASSUME NEW most, FilesSettle(most), Inv(most), passed, InOrder,
         NEW x \in AllRowed(disk), x.t.kind = "node"
  PROVE  \E n : Standing(x, n)
<1> DEFINE l == x.t.label
           X == NodesOf(graph, x)
<1>1. disk \in Disks
  BY DEF Inv, Position
<1>2. Fits(x.t) /\ l \in Labels
  BY <1>1, RowFits DEF Fits
<1>3. IsGraph(graph) /\ Applied(graph, x) = graph
  BY <1>2, PassSettles DEF SettledIn, Applied
<1>4. NodesSet(graph, graph, l, X, x.row)
  BY <1>2, <1>3, NodeApplied
<1>5. PICK k : k \in X
  BY DEF NodesOf
<1> HIDE DEF l, X
<1>6. IsSetIn(graph.nodes[l], graph.nodes[l], X, x.row)
  <2>1. graph.nodes[l] = SetIn(graph.nodes[l], X, x.row)
    BY <1>4 DEF NodesSet
  <2> QED
    BY <2>1, SetInIs
<1>7. k \in DOMAIN graph.nodes[l] /\ graph.nodes[l][k] = SetProps(OldProps(graph.nodes[l], k), x.row)
  BY <1>5, <1>6 DEF IsSetIn
<1>8. \A f \in DOMAIN x.row : x.row[f] # Null =>
        f \in DOMAIN graph.nodes[l][k] /\ graph.nodes[l][k][f] = x.row[f]
  BY <1>7, SetPropsAre
<1> DEFINE n == <<l, k>>
<1>9. n[1] = l /\ n[2] = k /\ n \in AllOf(l)
  BY <1>7 DEF AllOf
<1> HIDE DEF n
<1>10. Standing(x, n)
  BY <1>8, <1>9 DEF Standing, Given, Prop, l
<1> QED
  BY <1>10

\* Matching an end of an edge by one property.
LEMMA MatchesOne ==
  ASSUME NEW label, NEW p, NEW v, v # Null, NEW n \in AllOf(label), Prop(n, p) = v
  PROVE  n[2] \in Matches(graph, End(label, p), v) /\ n = <<label, n[2]>>
<1>1. PICK k \in DOMAIN graph.nodes[label] : n = <<label, k>>
  BY DEF AllOf
<1>2. n[1] = label /\ n[2] = k
  BY <1>1
<1>3. p \in DOMAIN graph.nodes[label][k] /\ graph.nodes[label][k][p] = v
  BY <1>2 DEF Prop
<1> DEFINE wanted == Put(<<>>, p, v)
<1>4. DOMAIN wanted = {p} /\ wanted[p] = v
  BY DEF Put
<1>5. Matches(graph, End(label, p), v) = Find(graph, label, wanted)
  BY DEF Matches, End
<1> HIDE DEF wanted
<1>6. k \in Find(graph, label, wanted)
  BY <1>1, <1>3, <1>4 DEF Find, Has
<1> QED
  BY <1>1, <1>2, <1>5, <1>6

\* After a pass, the edges of a row stand.
LEMMA EdgeStands ==
  ASSUME NEW most, FilesSettle(most), Inv(most), passed, InOrder,
         NEW type, NEW la, NEW pa, NEW lb, NEW pb, NEW row,
         [t |-> EdgeT(type, End(la, pa), End(lb, pb)), row |-> row] \in AllRowed(disk),
         NEW n \in AllOf(la), Prop(n, pa) = row.from, row.from # Null,
         NEW m \in AllOf(lb), Prop(m, pb) = row.to, row.to # Null
  PROVE  \E e \in DOMAIN graph.edges : e.type = type /\ e.a = n /\ e.b = m
<1> DEFINE t == EdgeT(type, End(la, pa), End(lb, pb))
           x == [t |-> t, row |-> row]
           e == [type |-> type, a |-> n, b |-> m, pat |-> row.pat]
<1>1. /\ t.kind = "edge" /\ t.type = type /\ t.a = End(la, pa) /\ t.b = End(lb, pb)
      /\ End(la, pa).label = la /\ End(lb, pb).label = lb
  BY DEF EdgeT, End
<1>2. x \in AllRowed(disk) /\ x.t = t /\ x.row = row
  OBVIOUS
<1>3. disk \in Disks
  BY DEF Inv, Position
<1> HIDE DEF t, x
<1>4. Fits(x.t)
  BY <1>2, <1>3, RowFits
<1>5. IsGraph(graph) /\ Applied(graph, x) = graph
  BY <1>2, <1>4, PassSettles DEF SettledIn, Applied
<1>6. EdgesSet(graph, graph, EdgesOf(graph, t, row), row.set)
  BY <1>1, <1>2, <1>5, EdgeApplied
<1>7. IsSetIn(graph.edges, graph.edges, EdgesOf(graph, t, row), row.set)
  BY <1>6, SetInIs DEF EdgesSet
<1>8. EdgesOf(graph, t, row) \subseteq DOMAIN graph.edges
  BY <1>7 DEF IsSetIn
<1>9. /\ n[2] \in Matches(graph, End(la, pa), row.from) /\ n = <<la, n[2]>>
      /\ m[2] \in Matches(graph, End(lb, pb), row.to) /\ m = <<lb, m[2]>>
  BY MatchesOne
<1>10. e \in EdgesOf(graph, t, row)
  BY <1>1, <1>9 DEF EdgesOf
<1> QED
  BY <1>8, <1>10

\* The bundle shows text under the reference r.
ShownAt(refs, r, text) ==
  \E row \in AnchorVerses(refs) : row.ref = r /\ \E x \in row.words : x.surface = text
\* w is seen as text.
Looks(w, text) ==
  IF Prop(w, "surface") # Null THEN Prop(w, "surface") = text ELSE Prop(w, "text") = text

\* A word in a verse that is found at an anchor is shown.
LEMMA WordIsShown ==
  ASSUME Sound, BundleSettles, NEW q \in Questions, NEW r \in Range(AnchorRefs(q)),
         NEW v \in AllOf("Verse"), Prop(v, "id") = VerseId(r), VerseId(r) # Null,
         NEW w \in AllOf("Word"),
         \E e \in DOMAIN graph.edges : e.type = "IN_VERSE" /\ e.a = w /\ e.b = v,
         NEW text, Looks(w, text)
  PROVE  ShownAt(AnchorRefs(q), r, text)
<1> DEFINE Morphology(y) == {Prop(m, "strong") : m \in To("HAS_MORPHEME", y)}
           Surface(y) == IF Prop(y, "surface") # Null THEN Prop(y, "surface") ELSE Prop(y, "text")
           Word(y) == [surface |-> Surface(y), strong |-> Prop(y, "strong"), morphology |-> Morphology(y)]
           VerseRow(u) == [ref |-> Prop(u, "osis"), words |-> {Word(y) : y \in From("IN_VERSE", "Word", u)}]
<1>1. AnchorVerses(AnchorRefs(q)) = {VerseRow(u) : u \in VersesAt(AnchorRefs(q))}
  BY DEF AnchorVerses
<1>2. v \in Nodes("Verse", [id |-> VerseId(r)])
  <2>1. PICK k \in DOMAIN graph.nodes["Verse"] : v = <<"Verse", k>>
    BY DEF AllOf
  <2>2. "id" \in DOMAIN graph.nodes["Verse"][k] /\ graph.nodes["Verse"][k]["id"] = VerseId(r)
    BY <2>1 DEF Prop
  <2> QED
    BY <2>1, <2>2 DEF Nodes, Find, Has
<1>3. v \in VersesAt(AnchorRefs(q))
  BY <1>2 DEF VersesAt
<1>4. Prop(v, "osis") = r
  BY <1>2, VersesAreNamed
<1>5. w \in From("IN_VERSE", "Word", v)
  <2>1. w[1] = "Word"
    BY DEF AllOf
  <2> QED
    BY <2>1 DEF From
<1>6. Surface(w) = text
  BY DEF Looks
<1> HIDE DEF Surface, Morphology
<1>7. Word(w).surface = text /\ VerseRow(v).ref = r /\ Word(w) \in VerseRow(v).words
  BY <1>4, <1>5, <1>6
<1> HIDE DEF Word, VerseRow
<1> QED
  BY <1>1, <1>3, <1>7 DEF ShownAt

\* Every word of the Hebrew Bible at an anchor is shown: a row for the word, one
\* for its verse and one that links them.
LEMMA OshbShown ==
  ASSUME NEW most, FilesSettle(most), Inv(most), Sound, BundleSettles, passed, InOrder,
         "oshb" \in disk, NEW q \in Questions, NEW w \in Range(OshbWords), w.ref \in Range(AnchorRefs(q))
  PROVE  ShownAt(AnchorRefs(q), w.ref, w.text)
<1>1. disk \in Disks
  BY DEF Inv, Position
<1> HIDE DEF Range
<1>2. PICK rw \in Range(OshbRows.word) : OfWord(w, rw)
  BY OshbWordRows
<1>3. PICK rv \in Range(OshbRows.verse) : rv.id = VerseId(w.ref)
  BY OshbWordRows
<1>4. Link(w.id, VerseId(w.ref)) \in Range(OshbRows.in_verse)
  BY OshbWordRows
<1> DEFINE x == [t |-> OshbTemplates.word, row |-> rw]
           y == [t |-> OshbTemplates.verse, row |-> rv]
           z == [t |-> EdgeT("IN_VERSE", End("Word", "id"), End("Verse", "id")),
                 row |-> Link(w.id, VerseId(w.ref))]
<1>5. x \in AllRowed(disk) /\ y \in AllRowed(disk) /\ z \in AllRowed(disk)
  <2>1. OshbTemplates.in_verse = EdgeT("IN_VERSE", End("Word", "id"), End("Verse", "id"))
    BY DEF OshbTemplates, IdEdgeT
  <2>2. "word" \in OshbLists /\ "verse" \in OshbLists /\ "in_verse" \in OshbLists
    BY DEF OshbLists
  <2> QED
    BY <1>1, <1>2, <1>3, <1>4, <2>1, <2>2, OshbSent
<1>6. /\ x.t.kind = "node" /\ x.t.label = "Word" /\ x.row = rw
      /\ y.t.kind = "node" /\ y.t.label = "Verse" /\ y.row = rv
      /\ z.t.kind = "edge" /\ z.t.type = "IN_VERSE" /\ z.t.a.label = "Word" /\ z.row = Link(w.id, VerseId(w.ref))
      /\ z.row.from = w.id /\ z.row.to = VerseId(w.ref)
  BY DEF OshbTemplates, NodeT, EdgeT, End, Link
<1> HIDE DEF x, y
<1>7. EveryRow = UNION {AllRowed(has) : has \in Disks}
  BY DEF EveryRow
<1>8. Given(x, "id") /\ Given(y, "id") /\ Given(x, "surface")
  <2>1. x \in EveryRow /\ y \in EveryRow /\ z \in EveryRow
    BY <1>1, <1>5, <1>7
  <2>2. RowOfBundle(x) /\ RowOfBundle(y) /\ RowOfBundle(z)
    BY <2>1 DEF BundleSettles
  <2>3. IsNode(x, "Word") /\ IsNode(y, "Verse") /\ Given(x, "id") /\ Given(y, "id")
    BY <1>6, <2>2 DEF RowOfBundle, IsNode
  <2>4. x.row.id = z.row.from
    BY <1>2, <1>6 DEF OfWord
  <2> HIDE DEF z
  <2>5. Given(x, "surface") \/ Given(x, "text")
    BY <1>6, <2>1, <2>2, <2>3, <2>4 DEF RowOfBundle
  <2>6. ~ Given(x, "text")
    BY <1>2, <1>6 DEF OfWord, Given
  <2> QED
    BY <2>3, <2>5, <2>6
<1>9. PICK n : Standing(x, n)
  BY <1>5, <1>6, NodeStands
<1>10. PICK m : Standing(y, m)
  BY <1>5, <1>6, NodeStands
<1>11. /\ n \in AllOf("Word") /\ Prop(n, "id") = w.id /\ w.id # Null
       /\ Prop(n, "surface") = w.text /\ w.text # Null
       /\ m \in AllOf("Verse") /\ Prop(m, "id") = VerseId(w.ref) /\ VerseId(w.ref) # Null
  BY <1>2, <1>3, <1>6, <1>8, <1>9, <1>10 DEF Standing, OfWord, Given
<1>12. \E e \in DOMAIN graph.edges : e.type = "IN_VERSE" /\ e.a = n /\ e.b = m
  <2> HIDE DEF z
  <2>1. [t |-> EdgeT("IN_VERSE", End("Word", "id"), End("Verse", "id")), row |-> z.row] \in AllRowed(disk)
    BY <1>5, <1>6 DEF z
  <2> QED
    BY <1>6, <1>11, <2>1, EdgeStands
<1>13. Looks(n, w.text)
  BY <1>11 DEF Looks
<1> QED
  BY <1>11, <1>12, <1>13, WordIsShown

\* Every word of MorphGNT at an anchor is shown: its node has no other text.
LEMMA MorphgntShown ==
  ASSUME NEW most, FilesSettle(most), Inv(most), Sound, BundleSettles, AnchorsSettle(most), passed,
         InOrder, "morphgnt" \in disk, NEW q \in Questions,
         NEW line \in UNION {Range(book) : book \in Range(MorphgntBooks)},
         MorphgntOsis(line.bcv) \in Range(AnchorRefs(q))
  PROVE  ShownAt(AnchorRefs(q), MorphgntOsis(line.bcv), line.text)
<1>1. disk \in Disks /\ GraphIn(graph, most[disk])
  BY DEF Inv, Position, Bounded, InOrder
<1>2. MorphgntOsis(line.bcv) # Null
  BY DEF AnchorsSettle
<1> DEFINE r == MorphgntOsis(line.bcv)
           text == line.text
<1>3. Holds(MorphgntGroups, r, text)
  <2> HIDE DEF Range
  <2> QED
    BY <1>2, MorphgntGroupsAre
<1> HIDE DEF Range, r, text
<1>4. r \in Range(AnchorRefs(q))
  BY DEF r
<1>5. PICK g \in Range(MorphgntGroups) : g.ref = r /\ text \in Range(g.words)
  BY <1>3 DEF Holds
<1>6. PICK k \in DOMAIN MorphgntGroups : g = MorphgntGroups[k]
  BY <1>5, MorphgntGroupsAre, ListIs DEF GroupList
<1>7. PICK i \in DOMAIN g.words : text = g.words[i]
  <2>1. IsList(g.words)
    BY <1>5, MorphgntGroupsAre DEF GroupList, IsGroup
  <2> QED
    BY <1>5, <2>1, ListIs
<1> DEFINE id == MorphgntId(g, i)
           rw == [id |-> id, text |-> text, source |-> MorphGNT]
           link == Link(id, VerseId(r))
<1>8. rw \in Range(MorphgntRows.word) /\ link \in Range(MorphgntRows.in_verse)
  BY <1>5, <1>6, <1>7, MorphgntRowsAre
<1>9. PICK rv \in Range(MorphgntRows.verse) : rv.id = VerseId(r)
  BY <1>5, <1>6, MorphgntRowsAre
<1> DEFINE x == [t |-> MorphgntTemplates.word, row |-> rw]
           y == [t |-> MorphgntTemplates.verse, row |-> rv]
           z == [t |-> EdgeT("IN_VERSE", End("Word", "id"), End("Verse", "id")), row |-> link]
<1>10. x \in AllRowed(disk) /\ y \in AllRowed(disk) /\ z \in AllRowed(disk)
  <2>1. MorphgntTemplates.in_verse = EdgeT("IN_VERSE", End("Word", "id"), End("Verse", "id"))
    BY DEF MorphgntTemplates, IdEdgeT
  <2>2. "word" \in MorphgntLists /\ "verse" \in MorphgntLists /\ "in_verse" \in MorphgntLists
    BY DEF MorphgntLists
  <2> QED
    BY <1>1, <1>8, <1>9, <2>1, <2>2, MorphgntSent
<1>11. /\ x.t.kind = "node" /\ x.t.label = "Word" /\ x.row = rw
       /\ y.t.kind = "node" /\ y.t.label = "Verse" /\ y.row = rv
       /\ z.t.kind = "edge" /\ z.t.type = "IN_VERSE" /\ z.t.a.label = "Word" /\ z.row = link
       /\ link.from = id /\ link.to = VerseId(r)
       /\ rw.id = id /\ rw.text = text /\ DOMAIN rw = {"id", "text", "source"}
  BY DEF MorphgntTemplates, NodeT, EdgeT, End, Link
<1> HIDE DEF x, y, rw, link, id
<1>12. EveryRow = UNION {AllRowed(has) : has \in Disks}
  BY DEF EveryRow
<1>13. Given(x, "id") /\ Given(y, "id") /\ Given(x, "text")
  <2>1. x \in EveryRow /\ y \in EveryRow /\ z \in EveryRow
    BY <1>1, <1>10, <1>12
  <2>2. RowOfBundle(x) /\ RowOfBundle(y) /\ RowOfBundle(z)
    BY <2>1 DEF BundleSettles
  <2>3. IsNode(x, "Word") /\ IsNode(y, "Verse") /\ Given(x, "id") /\ Given(y, "id")
    BY <1>11, <2>2 DEF RowOfBundle, IsNode
  <2>4. x.row.id = z.row.from
    BY <1>11
  <2> HIDE DEF z
  <2>5. Given(x, "surface") \/ Given(x, "text")
    BY <1>11, <2>1, <2>2, <2>3, <2>4 DEF RowOfBundle
  <2>6. ~ Given(x, "surface")
    BY <1>11 DEF Given
  <2> QED
    BY <2>3, <2>5, <2>6
<1>14. PICK n : Standing(x, n)
  BY <1>10, <1>11, NodeStands
<1>15. PICK m : Standing(y, m)
  BY <1>10, <1>11, NodeStands
<1>16. /\ n \in AllOf("Word") /\ Prop(n, "id") = id /\ id # Null
       /\ Prop(n, "text") = text /\ text # Null
       /\ m \in AllOf("Verse") /\ Prop(m, "id") = VerseId(r) /\ VerseId(r) # Null
  BY <1>9, <1>11, <1>13, <1>14, <1>15 DEF Standing, Given
<1>17. Prop(n, "surface") = Null
  <2>1. PICK j \in DOMAIN graph.nodes["Word"] : n = <<"Word", j>>
    BY <1>16 DEF AllOf
  <2>2. n[1] = "Word" /\ n[2] = j
    BY <2>1
  <2> DEFINE node == graph.nodes["Word"][j]
  <2>3. "text" \in DOMAIN node
    BY <1>16, <2>2 DEF Prop
  <2>4. j \in DOMAIN most[disk].nodes["Word"] /\ DOMAIN node \subseteq DOMAIN most[disk].nodes["Word"][j]
    <3>1. "Word" \in Labels
      BY DEF BundleSettles, BundleLabels
    <3> QED
      BY <1>1, <2>1, <3>1 DEF GraphIn, AllIn, PropsIn
  <2>5. ~({"surface", "text"} \subseteq DOMAIN most[disk].nodes["Word"][j])
    BY <1>1, <2>4 DEF AnchorsSettle
  <2>6. "surface" \notin DOMAIN node
    BY <2>3, <2>4, <2>5
  <2> QED
    BY <2>2, <2>6 DEF Prop
<1>18. \E e \in DOMAIN graph.edges : e.type = "IN_VERSE" /\ e.a = n /\ e.b = m
  <2>1. [t |-> EdgeT("IN_VERSE", End("Word", "id"), End("Verse", "id")), row |-> link] \in AllRowed(disk)
    BY <1>10
  <2> QED
    BY <1>11, <1>16, <2>1, EdgeStands
<1>19. Looks(n, text)
  BY <1>16, <1>17 DEF Looks
<1>20. ShownAt(AnchorRefs(q), r, text)
  BY <1>4, <1>16, <1>18, <1>19, WordIsShown
<1> QED
  BY <1>20 DEF r, text

\* A lemma of a token at the anchors is shown, or as many others as the limit allows.
LemmaShownAt(refs, strong) ==
  \/ Cardinality(AnchorLemmas(refs)) = ANCHOR_LEMMA_LIMIT
  \/ \E l \in AnchorLemmas(refs) : l.strong = strong

\* A number at the anchors is shown, or the limit is reached.
LEMMA LemmaIsShown ==
  ASSUME Sound, BundleSettles, NEW refs, NEW s \in StrongsAt(refs)
  PROVE  LemmaShownAt(refs, s)
<1> DEFINE S == StrongsAt(refs)
           L == AnchorLemmas(refs)
           T == {l.strong : l \in L}
<1>1. T \subseteq S /\ Cardinality(T) = MinOf(ANCHOR_LEMMA_LIMIT, Cardinality(S))
  BY LemmasAreVouched, StrongsAgree DEF Complete
<1>2. IsFiniteSet(S)
  BY StrongsAreFinite
<1>3. IsFiniteSet(T) /\ (Cardinality(S) = Cardinality(T) => S = T)
  <2> HIDE DEF S, T
  <2> QED
    BY <1>1, <1>2, FS_Subset
<1>4. Cardinality(L) = Cardinality(T)
  <2> DEFINE R(x) == [strong |-> x, occurrences_in_canon |-> Cardinality(CanonTokens(x))]
             top  == Top(StrongsAt(refs), ANCHOR_LEMMA_LIMIT, CountedAt(refs))
             f    == [x \in top |-> R(x)]
  <2>1. T = top
    BY LemmasAreTop
  <2>2. L = {R(x) : x \in top}
    BY DEF AnchorLemmas, TokensAt, StrongsOf, StrongsAt, CountedAt
  <2>3. \A x \in top : f[x] = R(x) /\ R(x).strong = x
    OBVIOUS
  <2> HIDE DEF L, T, R, top, f
  <2>4. \A x, y \in top : f[x] = f[y] => x = y
    BY <2>3
  <2>5. Cardinality({f[x] : x \in top}) = Cardinality(top)
    BY <1>3, <2>1, <2>4, AsManyValues
  <2>6. {f[x] : x \in top} = L
    BY <2>2, <2>3
  <2> QED
    BY <2>1, <2>5, <2>6
<1>5. CASE Cardinality(T) = Cardinality(S)
  <2>1. s \in T
    BY <1>3, <1>5
  <2> QED
    BY <2>1 DEF LemmaShownAt
<1>6. CASE Cardinality(T) # Cardinality(S)
  <2>1. Cardinality(T) = ANCHOR_LEMMA_LIMIT
    BY <1>1, <1>6 DEF MinOf
  <2> QED
    BY <1>4, <2>1 DEF LemmaShownAt
<1> QED
  BY <1>5, <1>6

\* A token whose verse is an anchor, and whose lemma is there, brings its number.
LEMMA TokenIsShown ==
  ASSUME NEW most, FilesSettle(most), Inv(most), Sound, BundleSettles, AnchorsSettle(most), passed,
         InOrder, NEW tokens, TokensSettle(disk, tokens), NEW x \in Range(tokens),
         NEW label, NEW row, row.id = x.id, TokenSent(disk, x, label, row),
         NumberSent(disk, label, x.strong),
         NEW q \in Questions, NEW r \in Range(AnchorRefs(q)), x.verse = VerseId(r)
  PROVE  LemmaShownAt(AnchorRefs(q), x.strong)
<1>1. disk \in Disks
  BY DEF Inv, Position
<1> HIDE DEF Range
<1>2. PICK v \in AllRowed(disk) : IsNode(v, "Verse") /\ Given(v, "id") /\ v.row.id = x.verse
  BY DEF TokensSettle, VerseComes
<1>3. PICK l \in AllRowed(disk) : IsNode(l, label) /\ Given(l, "strong") /\ l.row.strong = x.strong
  BY DEF NumberSent
<1>4. x.verse # Null /\ x.strong # Null
  BY <1>2, <1>3 DEF Given
<1>5. [t |-> TokenT, row |-> row] \in AllRowed(disk)
  BY DEF TokenSent
<1> DEFINE y == [t |-> TokenT, row |-> row]
<1>6. y \in AllRowed(disk) /\ y.row = row /\ IsNode(y, "TaggedToken")
  BY <1>5 DEF TokenT, NodeT, IsNode
<1> HIDE DEF y
<1>7. Given(y, "id")
  <2>1. y \in EveryRow
    BY <1>1, <1>6 DEF EveryRow
  <2> QED
    BY <1>6, <2>1 DEF AnchorsSettle
<1>8. PICK n : Standing(y, n)
  BY <1>6, NodeStands DEF IsNode
<1>9. PICK a : Standing(v, a)
  BY <1>2, NodeStands DEF IsNode
<1>10. PICK b : Standing(l, b)
  BY <1>3, NodeStands DEF IsNode
<1>11. /\ n \in AllOf("TaggedToken") /\ Prop(n, "id") = x.id /\ x.id # Null
       /\ a \in AllOf("Verse") /\ Prop(a, "id") = x.verse
       /\ b \in AllOf(label) /\ Prop(b, "strong") = x.strong
  BY <1>2, <1>3, <1>5, <1>6, <1>7, <1>8, <1>9, <1>10 DEF Standing, Given, IsNode
<1>12. \E e \in DOMAIN graph.edges : e.type = "IN_VERSE" /\ e.a = n /\ e.b = a
  <2> DEFINE k == Link(x.id, x.verse)
  <2>1. k.from = x.id /\ k.to = x.verse
    BY DEF Link
  <2>2. [t |-> EdgeT("IN_VERSE", End("TaggedToken", "id"), End("Verse", "id")), row |-> k] \in AllRowed(disk)
    BY <1>4 DEF TokenSent, VerseT
  <2> HIDE DEF k
  <2> QED
    BY <1>4, <1>11, <2>1, <2>2, EdgeStands
<1>13. \E e \in DOMAIN graph.edges : e.type = "INSTANCE_OF" /\ e.a = n /\ e.b = b
  <2> DEFINE k == Link(x.id, x.strong)
  <2>1. k.from = x.id /\ k.to = x.strong
    BY DEF Link
  <2>2. [t |-> EdgeT("INSTANCE_OF", End("TaggedToken", "id"), End(label, "strong")), row |-> k] \in AllRowed(disk)
    BY <1>4 DEF TokenSent, LemmaT
  <2> HIDE DEF k
  <2> QED
    BY <1>4, <1>11, <2>1, <2>2, EdgeStands
<1>14. a \in VersesAt(AnchorRefs(q))
  <2>1. PICK j \in DOMAIN graph.nodes["Verse"] : a = <<"Verse", j>>
    BY <1>11 DEF AllOf
  <2>2. "id" \in DOMAIN graph.nodes["Verse"][j] /\ graph.nodes["Verse"][j]["id"] = VerseId(r)
    BY <1>4, <1>11, <2>1 DEF Prop
  <2>3. a \in Nodes("Verse", [id |-> VerseId(r)])
    BY <2>1, <2>2 DEF Nodes, Find, Has
  <2> QED
    BY <2>3 DEF VersesAt
<1>15. n \in TokensAt(AnchorRefs(q))
  <2>1. n[1] = "TaggedToken"
    BY <1>11 DEF AllOf
  <2> QED
    BY <1>12, <1>14, <2>1 DEF TokensAt, From
<1>16. x.strong \in StrongsOf(n)
  <2>1. b \in To("INSTANCE_OF", n)
    BY <1>13 DEF To
  <2> QED
    BY <1>4, <1>11, <2>1 DEF StrongsOf, Lexemes
<1>17. x.strong \in StrongsAt(AnchorRefs(q))
  BY <1>15, <1>16 DEF StrongsAt
<1> QED
  BY <1>17, LemmaIsShown

\* What the tagged tokens of a testament need of the disk.
HebrewText == {"oshb", "macula_hebrew", "stepbible_tahot"}
GreekText  == {"morphgnt", "macula_greek", "stepbible_tagnt"}

\* What is proved of one question.
LEMMA AnchorsOfOne ==
  ASSUME NEW most, FilesSettle(most), Inv(most), Sound, BundleSettles, AnchorsSettle(most), passed,
         InOrder, NEW q \in Questions
  PROVE  /\ "oshb" \in disk => \A w \in Range(OshbWords) :
              w.ref \in Range(AnchorRefs(q)) => ShownAt(AnchorRefs(q), w.ref, w.text)
         /\ "morphgnt" \in disk => \A line \in UNION {Range(book) : book \in Range(MorphgntBooks)} :
              MorphgntOsis(line.bcv) \in Range(AnchorRefs(q)) =>
                ShownAt(AnchorRefs(q), MorphgntOsis(line.bcv), line.text)
         /\ HebrewText \subseteq disk => \A t \in Range(TahotTokens), r \in Range(AnchorRefs(q)) :
              t.verse = VerseId(r) /\ t.strong \in HebrewNumbers => LemmaShownAt(AnchorRefs(q), t.strong)
         /\ GreekText \subseteq disk => \A t \in Range(TagntTokens), r \in Range(AnchorRefs(q)) :
              t.verse = VerseId(r) /\ t.strong \in GreekNumbers => LemmaShownAt(AnchorRefs(q), t.strong)
<1>1. disk \in Disks
  BY DEF Inv, Position
<1> HIDE DEF Range
<1>2. ASSUME HebrewText \subseteq disk, NEW t \in Range(TahotTokens), NEW r \in Range(AnchorRefs(q)),
             t.verse = VerseId(r), t.strong \in HebrewNumbers
      PROVE  LemmaShownAt(AnchorRefs(q), t.strong)
  <2>1. "oshb" \in disk /\ "macula_hebrew" \in disk /\ "stepbible_tahot" \in disk
    BY <1>2 DEF HebrewText
  <2>2. TokensSettle(disk, TahotTokens)
    BY <1>1, <2>1 DEF AnchorsSettle
  <2>3. TokenSent(disk, t, "Lemma", TahotToken(t)) /\ NumberSent(disk, "Lemma", t.strong)
    BY <1>1, <1>2, <2>1, TahotSent, HebrewNumberSent
  <2>4. TahotToken(t).id = t.id
    BY DEF TahotToken
  <2> QED
    BY <1>2, <2>2, <2>3, <2>4, TokenIsShown
<1>3. ASSUME GreekText \subseteq disk, NEW t \in Range(TagntTokens), NEW r \in Range(AnchorRefs(q)),
             t.verse = VerseId(r), t.strong \in GreekNumbers
      PROVE  LemmaShownAt(AnchorRefs(q), t.strong)
  <2>1. "morphgnt" \in disk /\ "macula_greek" \in disk /\ "stepbible_tagnt" \in disk
    BY <1>3 DEF GreekText
  <2>2. TokensSettle(disk, TagntTokens)
    BY <1>1, <2>1 DEF AnchorsSettle
  <2>3. TokenSent(disk, t, "GreekLemma", TagntToken(t)) /\ NumberSent(disk, "GreekLemma", t.strong)
    BY <1>1, <1>3, <2>1, TagntSent, GreekNumberSent
  <2>4. TagntToken(t).id = t.id
    BY DEF TagntToken
  <2> QED
    BY <1>3, <2>2, <2>3, <2>4, TokenIsShown
<1> QED
  BY <1>2, <1>3, OshbShown, MorphgntShown

-----------------------------------------------------------------------------
(* Lemmas that are early, and whole passes. *)

\* A lemma is known by the key it was made with: one made by number has no id.
Known(F) ==
  /\ \A v : [strong |-> v] \in DOMAIN F =>
       LET p == F[[strong |-> v]] IN "strong" \in DOMAIN p /\ p["strong"] = v /\ "id" \notin DOMAIN p
  /\ \A i : [id |-> i] \in DOMAIN F =>
       LET p == F[[id |-> i]] IN "id" \in DOMAIN p /\ p["id"] = i
  /\ \A k \in DOMAIN F : "id" \in DOMAIN F[k] => F[k]["id"] # Null
\* What a row by id leaves: a lemma with its id and its number.
Held(F, x) ==
  \E k \in DOMAIN F :
    {"id", "strong"} \subseteq DOMAIN F[k] /\ F[k]["id"] = x.row.id /\ F[k]["strong"] = x.row.strong

\* A row by id on the lemmas F makes them G.
LEMMA IdRowKeeps ==
  ASSUME NEW F, NEW G, Known(F), NEW i, NEW row, NEW X,
         "id" \in DOMAIN row, "strong" \in DOMAIN row, row["id"] = i, i # Null, row["strong"] # Null,
         LET hit == {k \in DOMAIN F : "id" \in DOMAIN F[k] /\ F[k]["id"] = i}
         IN  X = IF hit = {} THEN {[id |-> i]} ELSE hit,
         IsSetIn(G, F, X, row)
  PROVE  /\ Known(G) /\ \A y : y.row = row => Held(G, y)
         /\ \A x : Held(F, x) /\ (x.row.id = i => x.row.strong = row["strong"]) => Held(G, x)
<1> DEFINE hit == {k \in DOMAIN F : "id" \in DOMAIN F[k] /\ F[k]["id"] = i}
<1>1. /\ DOMAIN G = DOMAIN F \cup X
      /\ \A k \in X : G[k] = SetProps(OldProps(F, k), row)
      /\ \A k \in DOMAIN F \ X : G[k] = F[k]
  BY DEF IsSetIn
<1>2. \A k \in X : /\ "id" \in DOMAIN G[k] /\ G[k]["id"] = i
                   /\ "strong" \in DOMAIN G[k] /\ G[k]["strong"] = row["strong"]
  <2>1. SUFFICES ASSUME NEW k \in X
                 PROVE  /\ "id" \in DOMAIN G[k] /\ G[k]["id"] = i
                        /\ "strong" \in DOMAIN G[k] /\ G[k]["strong"] = row["strong"]
    OBVIOUS
  <2>2. G[k] = SetProps(OldProps(F, k), row)
    BY <1>1
  <2> QED
    BY <2>2, SetPropsAre
<1>3. X = IF hit = {} THEN {[id |-> i]} ELSE hit
  OBVIOUS
<1>4. PICK k : k \in X
  BY <1>3
<1>5. \A v : [strong |-> v] \notin X
  <2>1. SUFFICES ASSUME NEW v, [strong |-> v] \in X PROVE FALSE
    OBVIOUS
  <2>2. CASE hit = {}
    <3>1. [strong |-> v] = [id |-> i] /\ DOMAIN [strong |-> v] = {"strong"} /\ DOMAIN [id |-> i] = {"id"}
      BY <1>3, <2>1, <2>2
    <3> QED
      BY <3>1
  <2>3. CASE hit # {}
    BY <1>3, <2>1, <2>3 DEF Known
  <2> QED
    BY <2>2, <2>3
<1>6. Known(G)
  <2>1. ASSUME NEW v, [strong |-> v] \in DOMAIN G
        PROVE  LET p == G[[strong |-> v]] IN "strong" \in DOMAIN p /\ p["strong"] = v /\ "id" \notin DOMAIN p
    BY <1>1, <1>5, <2>1 DEF Known
  <2>2. ASSUME NEW j, [id |-> j] \in DOMAIN G
        PROVE  LET p == G[[id |-> j]] IN "id" \in DOMAIN p /\ p["id"] = j
    <3>1. CASE [id |-> j] \in X
      <4>1. i = j
        <5>1. CASE hit = {}
          <6>1. [id |-> j] = [id |-> i]
            BY <1>3, <3>1, <5>1
          <6>2. [id |-> j].id = j /\ [id |-> i].id = i
            OBVIOUS
          <6> QED
            BY <6>1, <6>2
        <5>2. CASE hit # {}
          BY <1>3, <3>1, <5>2 DEF Known
        <5> QED
          BY <5>1, <5>2
      <4> QED
        BY <1>2, <3>1, <4>1
    <3>2. CASE [id |-> j] \notin X
      BY <1>1, <2>2, <3>2 DEF Known
    <3> QED
      BY <3>1, <3>2
  <2>3. \A m \in DOMAIN G : "id" \in DOMAIN G[m] => G[m]["id"] # Null
    BY <1>1, <1>2, <1>4 DEF Known
  <2> QED
    BY <2>1, <2>2, <2>3 DEF Known
<1>7. \A y : y.row = row => Held(G, y)
  BY <1>1, <1>2, <1>4 DEF Held
<1>8. ASSUME NEW x, Held(F, x), x.row.id = i => x.row.strong = row["strong"] PROVE Held(G, x)
  <2>1. PICK j \in DOMAIN F : {"id", "strong"} \subseteq DOMAIN F[j]
                                /\ F[j]["id"] = x.row.id /\ F[j]["strong"] = x.row.strong
    BY <1>8 DEF Held
  <2>2. CASE j \in X
    <3>1. F[j]["id"] = i
      <4>1. CASE hit = {}
        <5>1. j = [id |-> i]
          BY <1>3, <2>2, <4>1
        <5> QED
          BY <5>1 DEF Known
      <4>2. CASE hit # {}
        BY <1>3, <2>2, <4>2
      <4> QED
        BY <4>1, <4>2
    <3> QED
      BY <1>1, <1>2, <1>8, <2>1, <2>2, <3>1 DEF Held
  <2>3. CASE j \notin X
    BY <1>1, <2>1, <2>3 DEF Held
  <2> QED
    BY <2>2, <2>3
<1> QED
  BY <1>6, <1>7, <1>8

\* A row by number does.
LEMMA NumberRowKeeps ==
  ASSUME NEW F, NEW G, Known(F), NEW v, NEW row, NEW X,
         "id" \notin DOMAIN row, "strong" \in DOMAIN row, row["strong"] = v, v # Null,
         LET hit == {k \in DOMAIN F : "strong" \in DOMAIN F[k] /\ F[k]["strong"] = v}
         IN  X = IF hit = {} THEN {[strong |-> v]} ELSE hit,
         IsSetIn(G, F, X, row)
  PROVE  Known(G) /\ \A x : Held(F, x) => Held(G, x)
<1> DEFINE hit == {k \in DOMAIN F : "strong" \in DOMAIN F[k] /\ F[k]["strong"] = v}
<1>1. /\ DOMAIN G = DOMAIN F \cup X
      /\ \A k \in X : G[k] = SetProps(OldProps(F, k), row)
      /\ \A k \in DOMAIN F \ X : G[k] = F[k]
  BY DEF IsSetIn
<1>2. X = IF hit = {} THEN {[strong |-> v]} ELSE hit
  OBVIOUS
<1>3. \A k \in X \cap DOMAIN F : k \in hit
  BY <1>2 DEF Known
<1>4. ASSUME NEW k \in X
      PROVE  /\ "strong" \in DOMAIN G[k] /\ G[k]["strong"] = v
             /\ "id" \in DOMAIN G[k] <=> k \in DOMAIN F /\ "id" \in DOMAIN F[k]
             /\ "id" \in DOMAIN G[k] => G[k]["id"] = F[k]["id"]
  <2>1. G[k] = SetProps(OldProps(F, k), row)
    BY <1>1
  <2>2. "strong" \in DOMAIN G[k] /\ G[k]["strong"] = v
    BY <2>1, SetPropsAre
  <2>3. "id" \in DOMAIN G[k] <=> "id" \in DOMAIN OldProps(F, k) /\ OldProps(F, k)["id"] # Null
    BY <2>1, SetPropsAre
  <2>4. "id" \in DOMAIN G[k] => G[k]["id"] = OldProps(F, k)["id"]
    BY <2>1, SetPropsAre
  <2>5. k \in DOMAIN F /\ "id" \in DOMAIN F[k] => F[k]["id"] # Null
    BY DEF Known
  <2> QED
    BY <2>2, <2>3, <2>4, <2>5 DEF OldProps
<1>5. Known(G)
  <2>1. ASSUME NEW w, [strong |-> w] \in DOMAIN G
        PROVE  LET p == G[[strong |-> w]] IN "strong" \in DOMAIN p /\ p["strong"] = w /\ "id" \notin DOMAIN p
    <3>1. CASE [strong |-> w] \in X
      <4>1. w = v /\ ([strong |-> w] \in DOMAIN F => "id" \notin DOMAIN F[[strong |-> w]])
        <5>1. CASE [strong |-> w] \in DOMAIN F
          BY <1>3, <3>1, <5>1 DEF Known
        <5>2. CASE [strong |-> w] \notin DOMAIN F
          <6>1. [strong |-> w] = [strong |-> v] /\ [strong |-> w].strong = w /\ [strong |-> v].strong = v
            BY <1>2, <3>1, <5>2
          <6> QED
            BY <5>2, <6>1
        <5> QED
          BY <5>1, <5>2
      <4> QED
        BY <1>4, <3>1, <4>1
    <3>2. CASE [strong |-> w] \notin X
      BY <1>1, <2>1, <3>2 DEF Known
    <3> QED
      BY <3>1, <3>2
  <2>2. ASSUME NEW j, [id |-> j] \in DOMAIN G
        PROVE  LET p == G[[id |-> j]] IN "id" \in DOMAIN p /\ p["id"] = j
    <3>1. [id |-> j] \in DOMAIN F
      <4>1. [id |-> j] # [strong |-> v]
        <5>1. DOMAIN [strong |-> v] = {"strong"} /\ DOMAIN [id |-> j] = {"id"}
          OBVIOUS
        <5> QED
          BY <5>1
      <4> QED
        BY <1>1, <1>2, <2>2, <4>1
    <3>2. "id" \in DOMAIN F[[id |-> j]] /\ F[[id |-> j]]["id"] = j
      BY <3>1 DEF Known
    <3> QED
      BY <1>1, <1>4, <3>1, <3>2
  <2>3. \A m \in DOMAIN G : "id" \in DOMAIN G[m] => G[m]["id"] # Null
    BY <1>1, <1>2, <1>4 DEF Known
  <2> QED
    BY <2>1, <2>2, <2>3 DEF Known
<1>6. ASSUME NEW x, Held(F, x) PROVE Held(G, x)
  <2>1. PICK j \in DOMAIN F : {"id", "strong"} \subseteq DOMAIN F[j]
                                /\ F[j]["id"] = x.row.id /\ F[j]["strong"] = x.row.strong
    BY <1>6 DEF Held
  <2>2. CASE j \in X
    <3>1. F[j]["strong"] = v
      BY <1>3, <2>2
    <3> QED
      BY <1>1, <1>4, <2>1, <2>2, <3>1 DEF Held
  <2>3. CASE j \notin X
    BY <1>1, <2>1, <2>3 DEF Held
  <2> QED
    BY <2>2, <2>3
<1> QED
  BY <1>5, <1>6

\* What is so of the store whatever is sent.
Sane(g) == IsGraph(g) /\ Finite(g) /\ Known(g.nodes["Lemma"])
Bears(g, x) == ById(x) => Held(g.nodes["Lemma"], x)

LEMMA RowKeepsFinite ==
  ASSUME NEW g, IsGraph(g), Finite(g), NEW y, Fits(y.t)
  PROVE  Finite(Applied(g, y))
<1> DEFINE h == Applied(g, y)
           l == y.t.label
<1>1. CASE y.t.kind = "edge"
  <2>1. EdgesSet(h, g, EdgesOf(g, y.t, y.row), y.row.set)
    BY <1>1, EdgeApplied
  <2> QED
    BY <2>1 DEF EdgesSet, Finite
<1>2. CASE y.t.kind # "edge"
  <2>1. NodesSet(h, g, l, NodesOf(g, y), y.row) /\ l \in Labels
    BY <1>2, NodeApplied DEF Fits
  <2> HIDE DEF h, l
  <2>2. IsSetIn(h.nodes[l], g.nodes[l], NodesOf(g, y), y.row)
    BY <2>1, SetInIs DEF NodesSet
  <2>3. IsFiniteSet(DOMAIN g.nodes[l])
    BY <2>1 DEF Finite
  <2>4. IsFiniteSet(NodesOf(g, y))
    <3>1. Find(g, l, KeyOf(y)) \subseteq DOMAIN g.nodes[l]
      BY DEF Find
    <3>2. IsFiniteSet(Find(g, l, KeyOf(y))) /\ IsFiniteSet({KeyOf(y)})
      BY <2>3, <3>1, FS_Subset, FS_Singleton
    <3> QED
      BY <3>2 DEF NodesOf, l
  <2>5. IsFiniteSet(DOMAIN h.nodes[l])
    BY <2>2, <2>3, <2>4, FS_Union DEF IsSetIn
  <2> QED
    BY <2>1, <2>5 DEF NodesSet, Finite, h
<1> QED
  BY <1>1, <1>2

LEMMA RowKeepsLemmas ==
  ASSUME NEW most, FilesSettle(most), NEW has \in Disks, NEW y \in AllRowed(has), Fits(y.t),
         NEW g, Sane(g)
  PROVE  /\ Sane(Applied(g, y)) /\ Bears(Applied(g, y), y)
         /\ \A more \in Disks : \A x \in AllRowed(more) : Bears(g, x) => Bears(Applied(g, y), x)
<1> DEFINE h == Applied(g, y)
           F == g.nodes["Lemma"]
           G == h.nodes["Lemma"]
           X == NodesOf(g, y)
<1>1. IsGraph(g) /\ Finite(g) /\ Known(F) /\ "Lemma" \in Labels
  BY DEF Sane, FilesSettle, LemmasSettle
<1>2. IsGraph(h) /\ Finite(h)
  BY <1>1, RowWidens, RowKeepsFinite
<1>3. CASE ~LemmaRow(y)
  <2>1. G = F
    <3>1. CASE y.t.kind = "edge"
      <4>1. EdgesSet(h, g, EdgesOf(g, y.t, y.row), y.row.set)
        BY <1>1, <3>1, EdgeApplied
      <4> QED
        BY <4>1 DEF EdgesSet
    <3>2. CASE y.t.kind # "edge"
      <4>1. NodesSet(h, g, y.t.label, X, y.row)
        BY <1>1, <3>2, NodeApplied
      <4> QED
        BY <1>1, <1>3, <3>2, <4>1 DEF NodesSet, LemmaRow
    <3> QED
      BY <3>1, <3>2
  <2>2. ~ById(y)
    BY <1>3 DEF ById, LemmaRow, NodeT
  <2> QED
    BY <1>1, <1>2, <2>1, <2>2 DEF Sane, Bears
<1>4. CASE LemmaRow(y)
  <2>1. y.t.kind # "edge" /\ y.t.label = "Lemma" /\ "strong" \in DOMAIN y.row /\ y.row["strong"] # Null
    BY <1>4 DEF FilesSettle, LemmasSettle, LemmaRow
  <2>2. NodesSet(h, g, "Lemma", X, y.row)
    BY <1>1, <2>1, NodeApplied
  <2> HIDE DEF h, X
  <2>3. IsSetIn(G, F, X, y.row)
    BY <2>2, SetInIs DEF NodesSet
  <2>4. CASE ById(y)
    <3> DEFINE i == y.row["id"]
    <3>1. /\ "id" \in DOMAIN y.row /\ i # Null
          /\ y.t.kind = "node" /\ y.t.keys = {"id"}
      BY <1>4, <2>4 DEF FilesSettle, LemmasSettle, ById, NodeT
    <3>2. KeyOf(y) = [id |-> i] /\ DOMAIN KeyOf(y) = {"id"} /\ KeyOf(y)["id"] = i
      BY <3>1 DEF KeyOf, Restrict
    <3>3. X = IF {k \in DOMAIN F : "id" \in DOMAIN F[k] /\ F[k]["id"] = i} = {} THEN {[id |-> i]}
              ELSE {k \in DOMAIN F : "id" \in DOMAIN F[k] /\ F[k]["id"] = i}
      <4>1. Find(g, "Lemma", KeyOf(y)) = {k \in DOMAIN F : "id" \in DOMAIN F[k] /\ F[k]["id"] = i}
        BY <3>2 DEF Find, Has
      <4> QED
        BY <2>1, <3>1, <3>2, <4>1 DEF X, NodesOf
    <3> HIDE DEF F, G
    <3>4. /\ Known(G) /\ \A x : x.row = y.row => Held(G, x)
          /\ \A x : Held(F, x) /\ (x.row.id = i => x.row.strong = y.row["strong"]) => Held(G, x)
      BY <1>1, <2>1, <2>3, <3>1, <3>3, IdRowKeeps
    <3>5. ASSUME NEW more \in Disks, NEW x \in AllRowed(more), ById(x), Held(F, x) PROVE Held(G, x)
      <4>1. LemmaRow(x)
        BY <3>5 DEF LemmaRow, ById, NodeT
      <4>2. x.row.id = y.row.id => x.row.strong = y.row.strong
        BY <2>4, <3>5, <4>1 DEF FilesSettle, LemmasSettle
      <4> QED
        BY <3>4, <3>5, <4>2
    <3> QED
      BY <1>2, <3>4, <3>5 DEF Sane, Bears, F, G, h
  <2>5. CASE ~ById(y)
    <3> DEFINE v == y.row["strong"]
    <3>1. /\ "id" \notin DOMAIN y.row /\ y.t.kind = "node" /\ y.t.keys = {"strong"}
      <4>1. /\ y.t = NodeT("Lemma", "strong") /\ <<"Lemma", "id">> \in Unique
            /\ \A f \in DOMAIN y.row : <<"Lemma", f>> \in Unique => f = "strong"
        BY <1>4, <2>5 DEF FilesSettle, LemmasSettle
      <4> QED
        BY <4>1 DEF NodeT
    <3>2. KeyOf(y) = [strong |-> v] /\ DOMAIN KeyOf(y) = {"strong"} /\ KeyOf(y)["strong"] = v
      BY <2>1, <3>1 DEF KeyOf, Restrict
    <3>3. X = IF {k \in DOMAIN F : "strong" \in DOMAIN F[k] /\ F[k]["strong"] = v} = {} THEN {[strong |-> v]}
              ELSE {k \in DOMAIN F : "strong" \in DOMAIN F[k] /\ F[k]["strong"] = v}
      <4>1. Find(g, "Lemma", KeyOf(y)) = {k \in DOMAIN F : "strong" \in DOMAIN F[k] /\ F[k]["strong"] = v}
        BY <3>2 DEF Find, Has
      <4> QED
        BY <2>1, <3>1, <3>2, <4>1 DEF X, NodesOf
    <3> HIDE DEF F, G
    <3>4. Known(G) /\ \A x : Held(F, x) => Held(G, x)
      BY <1>1, <2>1, <2>3, <3>1, <3>3, NumberRowKeeps
    <3> QED
      BY <1>2, <2>5, <3>4 DEF Sane, Bears, F, G, h
  <2> QED
    BY <2>4, <2>5
<1> QED
  BY <1>3, <1>4

\* So is a session.run, and each of its rows by id stands after it.
LEMMA SendKeepsLemmas ==
  ASSUME NEW most, FilesSettle(most), Position, result = "running", at.script # <<>>,
         NEW g, Sane(g)
  PROVE  LET s == Head(at.script)
             h == SentTo(g, s)
         IN  /\ Sane(h) /\ \A n \in 1 .. Len(s.rows) : Bears(h, Row(s, n))
             /\ \A x \in AllRowed(disk) : Bears(g, x) => Bears(h, x)
<1> DEFINE s == Head(at.script)
           h == SentTo(g, s)
<1>1. Statement(s) /\ disk \in Disks
  BY Ahead DEF Position
<1>2. \A n \in 1 .. Len(s.rows) : Row(s, n) \in AllRowed(disk) /\ Fits(Row(s, n).t)
  BY AheadOwns
<1> HIDE DEF s
<1>3. Len(s.rows) \in Nat
  BY <1>1, LenProperties DEF Statement
<1>4. PICK f : RowByRow(f, g, s, h)
  BY <1>3, BatchIs
<1> HIDE DEF h
<1>5. /\ f[0] = g /\ h = f[Len(s.rows)]
      /\ \A n \in Nat : n + 1 <= Len(s.rows) => f[n + 1] = Applied(f[n], Row(s, n + 1))
  BY <1>4 DEF RowByRow
<1> DEFINE Good(n) == /\ Sane(f[n])
                      /\ \A i \in 1 .. Len(s.rows) : i <= n => Bears(f[n], Row(s, i))
                      /\ \A x \in AllRowed(disk) : Bears(g, x) => Bears(f[n], x)
           S == {n \in Nat : n <= Len(s.rows) => Good(n)}
<1>6. 0 \in S
  BY <1>5
<1>7. ASSUME NEW n \in Nat, n \in S PROVE n + 1 \in S
  <2>1. SUFFICES ASSUME n + 1 <= Len(s.rows) PROVE Good(n + 1)
    OBVIOUS
  <2>2. Good(n) /\ n + 1 \in 1 .. Len(s.rows) /\ f[n + 1] = Applied(f[n], Row(s, n + 1))
    BY <1>3, <1>5, <1>7, <2>1
  <2>3. /\ Sane(f[n + 1]) /\ Bears(f[n + 1], Row(s, n + 1))
        /\ \A x \in AllRowed(disk) : Bears(f[n], x) => Bears(f[n + 1], x)
    BY <1>1, <1>2, <2>2, RowKeepsLemmas
  <2>4. ASSUME NEW i \in 1 .. Len(s.rows), i <= n + 1 PROVE Bears(f[n + 1], Row(s, i))
    <3>1. i <= n \/ i = n + 1
      BY <2>4
    <3>2. CASE i <= n
      BY <1>2, <2>2, <2>3, <3>2
    <3> QED
      BY <2>3, <3>1, <3>2
  <2> HIDE DEF S
  <2> QED
    BY <2>2, <2>3, <2>4
<1> HIDE DEF S
<1>8. Nat \subseteq S
  BY <1>6, <1>7, InductionOnNat
<1>9. Good(Len(s.rows))
  BY <1>3, <1>8 DEF S
<1>10. \A i \in 1 .. Len(s.rows) : i <= Len(s.rows)
  BY <1>3
<1> QED
  BY <1>5, <1>9, <1>10 DEF s, h

\* The statements of MACULA-Hebrew, and what its rows by id leave.
MaculaFull == Scripts[disk]["macula_hebrew"]
AllBorne(g, s) == \A n \in 1 .. Len(s.rows) : Bears(g, Row(s, n))
\* The constraints hold of the store; a whole run has left the lemmas of every
\* statement of MACULA-Hebrew that it does not have to send yet.
Coming ==
  result = "running" /\ chosen = Datasets => \A s \in Range(MaculaFull) :
    AllBorne(graph, s) \/ Place < 2 \/ (Place = 2 /\ s \in Range(at.script))
Come == passed => \A s \in Range(MaculaFull) : AllBorne(graph, s)
LemmaInv == Sane(graph) /\ Respects(graph, Unique) /\ Coming /\ Come

LEMMA LemmasInit == ASSUME NEW most, FilesSettle(most), Init PROVE LemmaInv
<1>1. /\ graph = EmptyGraph(Labels) /\ disk \in Disks /\ result = "fresh" /\ passed = FALSE
  BY DEF Init
<1>2. IsGraph(graph) /\ GraphIn(graph, most[disk]) /\ "Lemma" \in Labels
  BY <1>1, EmptyIsLeast DEF FilesSettle, Ceiling, LemmasSettle
<1>3. /\ Respects(most[disk], Unique)
      /\ \A l \in Labels : IsFiniteSet(DOMAIN most[disk].nodes[l])
  BY <1>1 DEF FilesSettle, Ceiling
<1>4. Respects(graph, Unique)
  BY <1>2, <1>3, RespectsBelow
<1>5. Finite(graph)
  <2>1. \A l \in Labels : DOMAIN graph.nodes[l] \subseteq DOMAIN most[disk].nodes[l]
    BY <1>2 DEF GraphIn, AllIn
  <2> QED
    BY <1>3, <2>1, FS_Subset DEF Finite
<1>6. Known(graph.nodes["Lemma"])
  <2>1. graph.nodes["Lemma"] = <<>>
    BY <1>1, <1>2 DEF EmptyGraph
  <2> QED
    BY <2>1 DEF Known
<1> QED
  BY <1>1, <1>2, <1>4, <1>5, <1>6 DEF LemmaInv, Sane, Coming, Come

LEMMA LemmasNext ==
  ASSUME NEW most, FilesSettle(most), Inv(most), LemmaInv, [Next]_vars
  PROVE  LemmaInv'
<1> HIDE DEF Range
<1>1. Position /\ disk \in Disks
  BY DEF Inv, Position
<1>2. ASSUME graph' = graph, Coming', Come' PROVE LemmaInv'
  BY <1>2 DEF LemmaInv, Sane, Finite
<1>3. ASSUME NEW list \in Subsets \cup {Datasets}, Start(list) PROVE LemmaInv'
  <2>1. Place' = 0
    BY <1>1, <1>3, StartKeepsPosition
  <2>2. graph' = graph /\ passed' = passed /\ disk' = disk
    BY <1>3 DEF Start
  <2> QED
    BY <1>2, <2>1, <2>2 DEF LemmaInv, Coming, Come, MaculaFull, AllBorne
<1>4. CASE Load
  <2>1. /\ Place' = Place + 1 /\ Place \in Nat /\ at'.name = chosen[Place + 1]
        /\ at'.script = Scripts[disk][at'.name]
    BY <1>1, <1>4, LoadKeepsPosition
  <2>2. /\ graph' = graph /\ passed' = passed /\ disk' = disk /\ chosen' = chosen
        /\ result = "running" /\ at.script = <<>>
    BY <1>4 DEF Load, Reading
  <2>3. Coming'
    <3>1. SUFFICES ASSUME chosen = Datasets, NEW s \in Range(MaculaFull)
                   PROVE  AllBorne(graph, s) \/ Place + 1 < 2 \/ (Place + 1 = 2 /\ s \in Range(at'.script))
      BY <2>1, <2>2 DEF Coming, MaculaFull, AllBorne
    <3>2. AllBorne(graph, s) \/ Place < 2 \/ (Place = 2 /\ s \in Range(at.script))
      BY <2>2, <3>1 DEF LemmaInv, Coming
    <3>3. s \notin Range(at.script)
      BY <2>2 DEF Range
    <3>4. Place + 1 = 2 => at'.script = MaculaFull
      BY <2>1, <3>1 DEF Datasets, MaculaFull
    <3> QED
      BY <2>1, <3>1, <3>2, <3>3, <3>4
  <2> QED
    BY <1>2, <2>2, <2>3 DEF LemmaInv, Come, MaculaFull, AllBorne
<1>5. CASE Send
  <2> DEFINE s    == Head(at.script)
             next == SentTo(graph, s)
  <2>1. /\ result = "running" /\ at.script # <<>>
        /\ disk' = disk /\ passed' = passed /\ chosen' = chosen
    BY <1>5 DEF Send
  <2>2. /\ Sane(next) /\ AllBorne(next, s)
        /\ \A x \in AllRowed(disk) : Bears(graph, x) => Bears(next, x)
    BY <1>1, <2>1, SendKeepsLemmas DEF LemmaInv, AllBorne
  <2>3. \/ graph' = next /\ Sends /\ Respects(next, Unique)
        \/ graph' = graph /\ result' = "refused"
    <3>1. PICK n \in {Sent(Head(at.script))} :
             IF Respects(n, Unique)
             THEN /\ graph' = n /\ at' = [at EXCEPT !.script = Tail(@)]
                  /\ UNCHANGED <<todo, result>>
             ELSE /\ todo' = <<>> /\ at' = Idle /\ result' = "refused"
                  /\ UNCHANGED graph
      BY <1>5 DEF Send
    <3>2. n = next
      BY DEF Sent, SentTo
    <3> QED
      BY <2>1, <3>1, <3>2 DEF Sends
  <2>4. CASE graph' = graph /\ result' = "refused"
    BY <1>2, <2>1, <2>4 DEF LemmaInv, Coming, Come, MaculaFull, AllBorne
  <2>5. CASE graph' = next /\ Sends /\ Respects(next, Unique)
    <3>1. /\ Place' = Place /\ result' = "running"
          /\ \A r : r \in Range(at.script) => r = s \/ r \in Range(at'.script)
      BY <1>1, <2>1, <2>5, SendKeepsPosition DEF Sends
    <3>2. ASSUME NEW r \in Range(MaculaFull), AllBorne(graph, r) PROVE AllBorne(next, r)
      <4>1. ASSUME NEW n \in 1 .. Len(r.rows) PROVE Row(r, n) \in AllRowed(disk)
        <5>1. "macula_hebrew" \in Sendable(disk)
          BY TheseAreSent
        <5>2. \A q \in Range(Scripts[disk]["macula_hebrew"]) : Statement(q)
          BY <1>1, <5>1 DEF FilesSettle, ScriptsFit, Statement
        <5>3. Row(r, n) \in Rowed("macula_hebrew", disk)
          BY <5>2, RowsOf DEF MaculaFull
        <5> QED
          BY <5>1, <5>3 DEF AllRowed
      <4> QED
        BY <2>2, <3>2, <4>1 DEF AllBorne
    <3> HIDE DEF s, next
    <3>3. Coming'
      <4>1. SUFFICES ASSUME chosen = Datasets, NEW r \in Range(MaculaFull)
                     PROVE  AllBorne(next, r) \/ Place < 2 \/ (Place = 2 /\ r \in Range(at'.script))
        BY <2>1, <2>5, <3>1 DEF Coming, MaculaFull, AllBorne
      <4>2. AllBorne(graph, r) \/ Place < 2 \/ (Place = 2 /\ r \in Range(at.script))
        BY <2>1, <4>1 DEF LemmaInv, Coming
      <4> QED
        BY <2>2, <3>1, <3>2, <4>2
    <3>4. Come'
      BY <2>1, <2>5, <3>2 DEF LemmaInv, Come, MaculaFull, AllBorne
    <3> QED
      BY <2>2, <2>5, <3>3, <3>4 DEF LemmaInv, Sane, Finite
  <2> QED
    BY <2>3, <2>4, <2>5
<1>6. CASE Finish
  <2>1. /\ result = "running" /\ at.script = <<>> /\ todo = <<>> /\ result' = "ok"
        /\ passed' = (passed \/ chosen = Datasets) /\ graph' = graph /\ disk' = disk
    BY <1>6 DEF Finish, Reading
  <2>2. ASSUME chosen = Datasets, NEW s \in Range(MaculaFull) PROVE AllBorne(graph, s)
    <3>1. Place = 23
      BY <2>1, <2>2 DEF Place, Datasets
    <3>2. AllBorne(graph, s) \/ Place < 2 \/ (Place = 2 /\ s \in Range(at.script))
      BY <2>1, <2>2 DEF LemmaInv, Coming
    <3> QED
      BY <3>1, <3>2
  <2> QED
    BY <1>2, <2>1, <2>2 DEF LemmaInv, Coming, Come, MaculaFull, AllBorne
<1>7. CASE RaiseOnLoad \/ Stop
  <2>1. result' = "stopped" /\ graph' = graph /\ disk' = disk /\ passed' = passed
    BY <1>7 DEF RaiseOnLoad, Stop
  <2> QED
    BY <1>2, <2>1 DEF LemmaInv, Coming, Come, MaculaFull, AllBorne
<1>8. CASE AddFiles
  <2>1. result' # "running" /\ graph' = graph /\ passed' = FALSE
    BY <1>8 DEF AddFiles
  <2> QED
    BY <1>2, <2>1 DEF Coming, Come
<1>9. CASE UNCHANGED vars
  <2>1. /\ graph' = graph /\ disk' = disk /\ todo' = todo /\ at' = at /\ chosen' = chosen
        /\ result' = result /\ passed' = passed
    BY <1>9 DEF vars
  <2> QED
    BY <1>2, <2>1 DEF LemmaInv, Coming, Come, MaculaFull, AllBorne, Place
<1> QED
  BY <1>3, <1>4, <1>5, <1>6, <1>7, <1>8, <1>9 DEF Next

\* Two lemmas of one number: the constraint is broken.
LEMMA PassIsInOrder ==
  ASSUME NEW most, FilesSettle(most), Inv(most), LemmaInv
  PROVE  passed /\ "macula_hebrew" \in disk => ~Early
<1>1. SUFFICES ASSUME passed, "macula_hebrew" \in disk, Early PROVE FALSE
  OBVIOUS
<1> HIDE DEF Range
<1> DEFINE F == graph.nodes["Lemma"]
<1>2. /\ disk \in Disks /\ "Lemma" \in Labels /\ <<"Lemma", "strong">> \in Unique
  BY DEF Inv, Position, FilesSettle, LemmasSettle
<1>3. PICK v \in HebrewNumbers : [strong |-> v] \in DOMAIN F
  BY <1>1 DEF Early, EarlyIn
<1>4. PICK x \in Rowed("macula_hebrew", disk) : ById(x) /\ x.row.strong = v
  BY <1>1, <1>2 DEF FilesSettle, LemmasSettle
<1>5. Held(F, x)
  <2>1. "macula_hebrew" \in Sendable(disk)
    BY TheseAreSent
  <2>2. \A q \in Range(Scripts[disk]["macula_hebrew"]) : Statement(q)
    BY <1>2, <2>1 DEF FilesSettle, ScriptsFit, Statement
  <2>3. PICK s \in Range(MaculaFull) : \E n \in 1 .. Len(s.rows) : x = Row(s, n)
    BY <2>2, RowsOf DEF MaculaFull
  <2>4. AllBorne(graph, s)
    BY <1>1 DEF LemmaInv, Come
  <2> QED
    BY <1>4, <2>3, <2>4 DEF AllBorne, Bears
<1>6. PICK k \in DOMAIN F : "id" \in DOMAIN F[k] /\ "strong" \in DOMAIN F[k] /\ F[k]["strong"] = v
  BY <1>4, <1>5 DEF Held
<1> DEFINE j == [strong |-> v]
<1>7. "id" \notin DOMAIN F[j] /\ "strong" \in DOMAIN F[j] /\ F[j]["strong"] = v
  BY <1>3 DEF LemmaInv, Sane, Known
<1> HIDE DEF F, j
<1>8. j \in With(F, "strong") /\ k \in With(F, "strong") /\ j # k
  BY <1>3, <1>6, <1>7 DEF With, j
<1>9. IsFiniteSet(With(F, "strong"))
  <2>1. With(F, "strong") \subseteq DOMAIN F /\ IsFiniteSet(DOMAIN F)
    BY <1>2 DEF With, LemmaInv, Sane, Finite, F
  <2> QED
    BY <2>1, FS_Subset
<1>10. Cardinality(Values(F, "strong")) = Cardinality(With(F, "strong"))
  <2> DEFINE u == <<"Lemma", "strong">>
  <2>1. u[1] = "Lemma" /\ u[2] = "strong"
    OBVIOUS
  <2> HIDE DEF u
  <2> QED
    BY <1>2, <2>1 DEF LemmaInv, Respects, Values, With, F, u
<1> QED
  BY <1>6, <1>7, <1>8, <1>9, <1>10, OneValueEach

-----------------------------------------------------------------------------
(* The theorems. *)

\* Wherever runs are cut off, whatever they are given and whatever comes to the
\* disk between them: as long as no lemma is early, the store stays between what its
\* disks can bring and what the run has brought so far.
THEOREM InvHolds ==
  ASSUME NEW most, FilesSettle(most)
  PROVE  Spec => []Inv(most)
<1>1. Init => Inv(most)
  BY InvInit
<1>2. Inv(most) /\ [Next]_vars => Inv(most)'
  BY InvNext
<1> QED
  BY <1>1, <1>2, PTL DEF Spec

\* run.py, DATASETS and --dataset: a uniqueness constraint refuses a statement only
\* when a lemma MACULA-Hebrew brings was made by its number first, which takes a run
\* of the brief lexicon without the files of MACULA-Hebrew before it.
THEOREM NeverRefused ==
  ASSUME NEW most, FilesSettle(most)
  PROVE  Spec => []OnlyEarlyLemmasRefuse
<1>1. Inv(most) => OnlyEarlyLemmasRefuse
  BY DEF Inv, Bounded, OnlyEarlyLemmasRefuse
<1> QED
  BY <1>1, InvHolds, PTL

\* run.py: once a lemma was made before MACULA-Hebrew brings it, no pass over its
\* files comes to its end, in any number of runs: the lemma keeps its number and has
\* no id, and the rows of MACULA-Hebrew would make a second one of that number.
THEOREM EarlyNeverPasses ==
  ASSUME NEW most, FilesSettle(most)
  PROVE  Spec => [](LemmaInv /\ EarlyLemmasBlock)
<1>1. Init => LemmaInv
  BY LemmasInit
<1>2. Inv(most) /\ LemmaInv /\ [Next]_vars => LemmaInv'
  BY LemmasNext
<1>3. Inv(most) /\ LemmaInv => EarlyLemmasBlock
  BY PassIsInOrder DEF EarlyLemmasBlock
<1> QED
  BY <1>1, <1>2, <1>3, InvHolds, PTL DEF Spec

\* So after a pass over the files of MACULA-Hebrew all is in order.
PassInOrder == passed /\ "macula_hebrew" \in disk => InOrder

LEMMA PassesAreInOrder ==
  ASSUME NEW most, FilesSettle(most)
  PROVE  Spec => [](Inv(most) /\ PassInOrder)
<1>1. EarlyLemmasBlock => PassInOrder
  BY DEF EarlyLemmasBlock, InOrder, PassInOrder
<1> QED
  BY <1>1, InvHolds, EarlyNeverPasses, PTL

\* run.py, _run_one: what the adapters write from files that came later is all
\* there after a pass, with those of MACULA-Hebrew on the disk.
THEOREM LateFilesComeIn ==
  ASSUME NEW most, FilesSettle(most)
  PROVE  Spec => []("macula_hebrew" \in disk => LateFilesAreTakenIn)
<1>1. Inv(most) /\ PassInOrder => ("macula_hebrew" \in disk => LateFilesAreTakenIn)
  BY DEF Inv, Passed, LateFilesAreTakenIn, GraphIn, AllIn, PassInOrder
<1> QED
  BY <1>1, PassesAreInOrder, PTL

\* run.py, main: a pass over all datasets ends with the graph of an undisturbed
\* one, property by property, as long as the files were the same throughout and
\* those of MACULA-Hebrew are among them.
THEOREM PassesConverge ==
  ASSUME NEW most, FilesSettle(most)
  PROVE  Spec => []("macula_hebrew" \in disk => WholePassConverges)
<1>1. Inv(most) /\ PassInOrder => ("macula_hebrew" \in disk => WholePassConverges)
  <2>1. SUFFICES ASSUME Inv(most), InOrder, passed, disks = {disk} PROVE graph = CleanGraphs[disk]
    BY DEF WholePassConverges, PassInOrder
  <2>2. IsGraph(CleanGraphs[disk]) /\ GraphIn(CleanGraphs[disk], graph) /\ IsGraph(graph)
    BY <2>1 DEF Inv, Passed, Bounded, InOrder
  <2>3. GraphIn(graph, CleanGraphs[disk])
    BY <2>1, <2>2 DEF Inv, OneDisk
  <2> QED
    BY <2>2, <2>3, SameGraph
<1> QED
  BY <1>1, PassesAreInOrder, PTL

\* docs/SCHEMA_DECISIONS.md, "Single-pass dispatch order is a schema contract":
\* after a pass over all datasets no run over the same files writes anything, with
\* those of MACULA-Hebrew on the disk.
THEOREM SecondPassIsIdle ==
  ASSUME NEW most, FilesSettle(most)
  PROVE  Spec => []["macula_hebrew" \in disk /\ passed /\ passed' => graph' = graph]_vars
<1>1. Inv(most) /\ PassInOrder /\ [Next]_vars =>
        ["macula_hebrew" \in disk /\ passed /\ passed' => graph' = graph]_vars
  BY SendIsIdle, OnlySendWrites DEF PassInOrder
<1> QED
  BY <1>1, PassesAreInOrder, PTL DEF Spec

\* As long as no lemma is early, no run, whole or not, takes a node, an edge or a
\* property away or changes one.
THEOREM NothingIsTakenAway ==
  ASSUME NEW most, FilesSettle(most)
  PROVE  Spec => [][~Early' => GraphIn(graph, graph')]_vars
<1>1. Inv(most) /\ [Next]_vars => [~Early' => GraphIn(graph, graph')]_vars
  BY SendKeeps, OnlySendWrites, GraphInItself
<1> QED
  BY <1>1, InvHolds, PTL DEF Spec

\* open_cbgm_3_john.py, _build_payloads: after a pass every witness in scope
\* stands in every unit, at its readings or at its lacuna, however the runs went
\* before, with the files of MACULA-Hebrew: what is read was sent, and what was sent
\* stands.
THEOREM EveryWitnessReads ==
  ASSUME NEW most, FilesSettle(most), CollationSettles(most)
  PROVE  Spec => []("macula_hebrew" \in disk => WitnessesReadOnce)
<1>1. Init => ReadsAreSent
  <2>1. Init => graph.edges = <<>>
    BY DEF Init, EmptyGraph
  <2> QED
    BY <2>1 DEF ReadsAreSent
<1>2. Inv(most) /\ ReadsAreSent /\ [Next]_vars => ReadsAreSent'
  BY ReadsStaySent
<1>3. Inv(most) /\ ReadsAreSent /\ PassInOrder => ("macula_hebrew" \in disk => WitnessesReadOnce)
  BY ReadsOnce DEF WitnessesReadOnce, PassInOrder
<1> QED
  BY <1>1, <1>2, <1>3, PassesAreInOrder, PTL DEF Spec

\* As long as no lemma is early, every node and every edge a run has written comes from a row of some files: a
\* row of its label with its keys, whose values the node shows, or a row that
\* matches both ends of the edge.
THEOREM NothingIsInvented ==
  ASSUME NEW most, FilesSettle(most)
  PROVE  Spec => [](~Early => AllSent(graph))
<1> DEFINE Invented == ~Early /\ ~AllSent(graph)
<1>1. Init => ~Invented
  BY AllSentInit
<1>2. Inv(most) /\ ~Invented /\ [Next]_vars => ~Invented'
  BY AllSentStays DEF AllSent, NodeSent, EdgeSent
<1>3. ~Invented => (~Early => AllSent(graph))
  OBVIOUS
<1>4. Spec => []Inv(most)
  BY InvHolds
<1> HIDE DEF Invented
<1> QED
  BY <1>1, <1>2, <1>3, <1>4, PTL DEF Spec

\* The gate accepts what a pass over the files of MACULA-Hebrew and any others leaves,
\* whatever came before it, and what it reads at the anchors is what the bundle shows.
THEOREM GateVouches ==
  ASSUME NEW most, FilesSettle(most), BundleSettles
  PROVE  Spec => []("macula_hebrew" \in disk => GateVouchesForBundle)
<1>1. Inv(most) /\ PassInOrder /\ (~Early => AllSent(graph))
        => ("macula_hebrew" \in disk => GateVouchesForBundle)
  <2> SUFFICES ASSUME Inv(most), ~Early, AllSent(graph) PROVE GateVouchesForBundle
    BY DEF InOrder, GateVouchesForBundle, Settled, PassInOrder
  <2>1. Sound
    BY SentIsSound
  <2>2. \A q \in Questions : Vouches(AnchorRefs(q))
    BY <2>1, OfOneQuestion
  <2> QED
    BY <2>2 DEF GateVouchesForBundle
<1>2. Spec => [](Inv(most) /\ PassInOrder)
  BY PassesAreInOrder
<1>3. Spec => [](~Early => AllSent(graph))
  BY NothingIsInvented
<1> QED
  BY <1>1, <1>2, <1>3, PTL

\* context_builder.py, build_lexical_context_bundle, for all files in which each word
\* has one kind of text and what a tagged text has at an anchor is of a verse that
\* the files bring: after a pass with MACULA-Hebrew, whatever came before it, the bundle has every word
\* at the anchors and the lemma of every tagged token, or as many as its limit allows.
THEOREM AnchorsAreReached ==
  ASSUME NEW most, FilesSettle(most), BundleSettles, AnchorsSettle(most)
  PROVE  Spec => []("macula_hebrew" \in disk => BundleReachesAnchors)
<1>1. Inv(most) /\ PassInOrder /\ (~Early => AllSent(graph))
        => ("macula_hebrew" \in disk => BundleReachesAnchors)
  <2> SUFFICES ASSUME Inv(most), InOrder, ~Early, AllSent(graph), Settled, NEW q \in Questions
               PROVE  LET refs == AnchorRefs(q)
                          b    == Bundle(refs)
                          HasWord(ref, text) ==
                            \E row \in b.anchor_verses :
                              row.ref = ref /\ \E w \in row.words : w.surface = text
                          HasLemma(strong) ==
                            \/ Cardinality(b.anchor_lemmas) = ANCHOR_LEMMA_LIMIT
                            \/ \E l \in b.anchor_lemmas : l.strong = strong
                          At(token) == \E r \in Range(refs) : token.verse = VerseId(r)
                      IN  /\ "oshb" \in disk =>
                               \A w \in Range(OshbWords) : w.ref \in Range(refs) => HasWord(w.ref, w.text)
                          /\ "morphgnt" \in disk =>
                               \A line \in UNION {Range(book) : book \in Range(MorphgntBooks)} :
                                 MorphgntOsis(line.bcv) \in Range(refs) => HasWord(MorphgntOsis(line.bcv), line.text)
                          /\ HebrewText \subseteq disk =>
                               \A t \in Range(TahotTokens) : At(t) /\ t.strong \in HebrewNumbers => HasLemma(t.strong)
                          /\ GreekText \subseteq disk =>
                               \A t \in Range(TagntTokens) : At(t) /\ t.strong \in GreekNumbers => HasLemma(t.strong)
    BY DEF BundleReachesAnchors, HebrewText, GreekText, InOrder, Settled, PassInOrder
  <2>1. Sound /\ passed
    BY SentIsSound DEF Settled
  <2> DEFINE refs == AnchorRefs(q)
             b    == Bundle(refs)
             HasWord(ref, text) ==
               \E row \in b.anchor_verses : row.ref = ref /\ \E w \in row.words : w.surface = text
             HasLemma(strong) ==
               \/ Cardinality(b.anchor_lemmas) = ANCHOR_LEMMA_LIMIT
               \/ \E l \in b.anchor_lemmas : l.strong = strong
             At(token) == \E r \in Range(refs) : token.verse = VerseId(r)
  <2>2. b.anchor_lemmas = AnchorLemmas(refs) /\ b.anchor_verses = AnchorVerses(refs)
    BY DEF Bundle
  <2> HIDE DEF b, Range
  <2>3. /\ \A ref, text : ShownAt(refs, ref, text) => HasWord(ref, text)
        /\ \A strong : LemmaShownAt(refs, strong) => HasLemma(strong)
    BY <2>2 DEF ShownAt, LemmaShownAt
  <2> HIDE DEF HasWord, HasLemma
  <2>4. "oshb" \in disk => \A w \in Range(OshbWords) : w.ref \in Range(refs) => HasWord(w.ref, w.text)
    BY <2>1, <2>3, AnchorsOfOne
  <2>5. "morphgnt" \in disk => \A line \in UNION {Range(book) : book \in Range(MorphgntBooks)} :
          MorphgntOsis(line.bcv) \in Range(refs) => HasWord(MorphgntOsis(line.bcv), line.text)
    BY <2>1, <2>3, AnchorsOfOne
  <2>6. HebrewText \subseteq disk =>
          \A t \in Range(TahotTokens) : At(t) /\ t.strong \in HebrewNumbers => HasLemma(t.strong)
    BY <2>1, <2>3, AnchorsOfOne
  <2>7. GreekText \subseteq disk =>
          \A t \in Range(TagntTokens) : At(t) /\ t.strong \in GreekNumbers => HasLemma(t.strong)
    BY <2>1, <2>3, AnchorsOfOne
  <2> QED
    BY <2>4, <2>5, <2>6, <2>7 DEF HasWord, HasLemma, b
<1>2. Spec => [](Inv(most) /\ PassInOrder)
  BY PassesAreInOrder
<1>3. Spec => [](~Early => AllSent(graph))
  BY NothingIsInvented
<1> QED
  BY <1>1, <1>2, <1>3, PTL
=============================================================================
