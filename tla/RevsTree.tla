------------------------------ MODULE RevsTree ------------------------------
(***************************************************************************)
(* The tree of revisions that an io.cozy.shared document keeps for a       *)
(* shared document (model/sharing/revisions.go).                           *)
(*                                                                         *)
(* A tree is a function from the places of its nodes to revisions.  A      *)
(* place is the sequence of the branches taken from the root: <<>> is the  *)
(* root, Append(p, i) the i-th branch of p.  The main branch goes through  *)
(* the first branch of each node.  A revision is <<generation, id>>.       *)
(***************************************************************************)
EXTENDS Naturals, FiniteSets, SequencesExt

CONSTANT MaxDepth

ASSUME DepthAssumption == MaxDepth \in Nat \ {0}

Gen(rev) == rev[1]
RevLess(r, s) == Gen(r) < Gen(s) \/ (Gen(r) = Gen(s) /\ r[2] < s[2])

Least(S) == CHOOSE n \in S : \A k \in S : n <= k
Below(p, q) == SubSeq(q, Len(p) + 1, Len(q))
NbBranches(t, p) ==
    Cardinality({q \in DOMAIN t : Len(q) = Len(p) + 1 /\ IsPrefix(p, q)})
RevsIn(t) == {t[p] : p \in DOMAIN t}
Leaves(t) == {p \in DOMAIN t : NbBranches(t, p) = 0}

\* &RevsTree{Rev: rev}
Root(rev) == [p \in {<<>>} |-> rev]

Generation(t) ==
    CHOOSE g \in {Gen(t[p]) : p \in Leaves(t)} : \A p \in Leaves(t) : Gen(t[p]) <= g

\* The order of a depth-first search.
Before(p, q) ==
    \/ IsPrefix(p, q)
    \/ \E i \in DOMAIN p \cap DOMAIN q :
          p[i] < q[i] /\ SubSeq(p, 1, i - 1) = SubSeq(q, 1, i - 1)

\* The place of a revision of the tree.
Find(t, rev) ==
    LET found == {p \in DOMAIN t : t[p] = rev}
    IN  CHOOSE p \in found : \A q \in found : Before(p, q)

Main(k) == [i \in 1 .. k |-> 1]
MainLength(t) ==
    CHOOSE k \in 0 .. Cardinality(DOMAIN t) :
        Main(k) \in DOMAIN t /\ Main(k + 1) \notin DOMAIN t
MainBranch(t) == [k \in 1 .. MainLength(t) + 1 |-> t[Main(k - 1)]]

-----------------------------------------------------------------------------
(* Changes of a tree.                                                      *)

\* rev as one more node, at a place that is free.
Grow(t, p, rev) == [q \in DOMAIN t \cup {p} |-> IF q = p THEN rev ELSE t[q]]

\* Mutant of Raise: the node that was there is overwritten.
RaiseOver(t, p, rev) == Grow(t, p, rev)

\* rev takes the place p, and the node that was there becomes its only branch.
Raise(t, p, rev) ==
    LET Moved(q) == IF IsPrefix(p, q) THEN p \o <<1>> \o Below(p, q) ELSE q
    IN  [q \in {Moved(r) : r \in DOMAIN t} \cup {p} |->
            IF q = p THEN rev ELSE t[CHOOSE r \in DOMAIN t : Moved(r) = q]]

\* The only branch of p takes its place.
Collapse(t, p) ==
    [q \in {q \in DOMAIN t : ~IsPrefix(p, q)}
           \cup {p \o Below(p \o <<1>>, r) : r \in {r \in DOMAIN t : IsPrefix(p \o <<1>>, r)}} |->
        IF IsPrefix(p, q) THEN t[p \o <<1>> \o Below(p, q)] ELSE t[q]]

\* Add walks down the main branch, to the first node that is rev or has a
\* greater generation, or past its end.
AddPlace(t, rev) ==
    LET stop == {k \in 0 .. MainLength(t) :
                    t[Main(k)] = rev \/ Gen(rev) < Gen(t[Main(k)])}
    IN  Main(IF stop = {} THEN MainLength(t) + 1 ELSE Least(stop))
Add(t, rev) ==
    LET p == AddPlace(t, rev)
    IN  IF p \notin DOMAIN t THEN Grow(t, p, rev)
        ELSE IF t[p] = rev THEN t
        ELSE Raise(t, p, rev)

\* The first nodes are collapsed until the branch of parent is short enough; the
\* loop goes past a node with several branches towards parent.
EnsureMaxDepth(tree, parent, depth) ==
    LET Branches(s) ==
            {i \in 1 .. NbBranches(s.t, s.at) :
                \E q \in DOMAIN s.t : IsPrefix(Append(s.at, i), q) /\ s.t[q] = parent}
        Step(s, i) ==
            IF s.depth <= MaxDepth \/ s.t[s.at] = parent THEN s
            ELSE IF NbBranches(s.t, s.at) = 1
                 THEN [s EXCEPT !.t = Collapse(s.t, s.at), !.depth = @ - 1]
            ELSE IF Branches(s) = {} THEN s
            ELSE [s EXCEPT !.at = Append(s.at, Least(Branches(s)))]
    IN  FoldLeft(Step, [t |-> tree, at |-> <<>>, depth |-> depth],
                 [i \in 1 .. Cardinality(DOMAIN tree) |-> i]).t

\* The chain is followed from its first revision that the tree has.  After a
\* revision is appended to a node, the walk goes on from the first branch of
\* that node, whether it is the new one or not.
InsertChain(tree, chain) ==
    LET known == {i \in DOMAIN chain : chain[i] \in RevsIn(tree)}
        common == IF known = {} THEN 1 ELSE Least(known)
        depth == IF known = {} THEN 0
                 ELSE Len(Find(tree, chain[common])) + 1 + Len(chain) - (common - 1)
        start == EnsureMaxDepth(IF known = {} THEN Add(tree, chain[1]) ELSE tree,
                                chain[common], depth)
        Step(s, rev) ==
            LET nb == NbBranches(s.t, s.at)
                same == {i \in 1 .. nb : s.t[Append(s.at, i)] = rev}
            IN  IF same # {} THEN [s EXCEPT !.at = Append(s.at, Least(same))]
                ELSE [t |-> Grow(s.t, Append(s.at, nb + 1), rev), at |-> Append(s.at, 1)]
    IN  FoldLeft(Step, [t |-> start, at |-> Find(start, chain[common])],
                 SubSeq(chain, common + 1, Len(chain))).t

\* check: the generation of a branch is the one of its parent plus one.
Consecutive(t) ==
    \A p \in DOMAIN t \ {<<>>} : Gen(t[p]) = Gen(t[Front(p)]) + 1

IsTree(t) ==
    /\ <<>> \in DOMAIN t
    /\ \A p \in DOMAIN t : \A i \in DOMAIN p :
          \A k \in 1 .. p[i] : Append(SubSeq(p, 1, i - 1), k) \in DOMAIN t
=============================================================================
