------------------------------ MODULE ListRows ------------------------------
(***************************************************************************)
(* The rows of a pipeline's list view (PipelineListView.js): the jobs that *)
(* a resource reaches, in breadth-first order, arranged as a tree in which *)
(* jobs with the same parents form a parallel group and a job that joins a *)
(* group is drawn under it.  Pure functions of the pipeline.               *)
(***************************************************************************)
EXTENDS ListTree, SequencesExt

-----------------------------------------------------------------------------
(* The chain. *)

Steps(j) == {jobs[j][k] : k \in DOMAIN jobs[j]}

\* the jobs that get r directly
Entries(r) == SelectSeq([j \in JobNames |-> j],
                        LAMBDA j : \E g \in Steps(j) : g.r = r /\ g.passed = {})

Follows(i, j) == \E g \in Steps(j) : i \in g.passed

RECURSIVE Walk(_, _, _)
Walk(queue, visited, chain) ==
    IF queue = <<>> THEN chain
    ELSE LET i == Head(queue)
             new == SelectSeq([j \in JobNames |-> j],
                              LAMBDA j : j \notin visited /\ Follows(i, j))
         IN  Walk(Tail(queue) \o new, visited \union ToSet(new), Append(chain, i))

resolveChain(r) == Walk(Entries(r), ToSet(Entries(r)), <<>>)

-----------------------------------------------------------------------------
(* The tree. *)

\* buildTree: one parent for every step that passes it, so that a parent that two
\* steps pass is there twice
passes(g, chain) == SelectSeq(chain, LAMBDA p : p \in g.passed)
Parents(chain) ==
    [n \in ToSet(chain) |-> FlattenSeq([k \in DOMAIN jobs[n] |-> passes(jobs[n][k], chain)])]

Children(chain) ==
    LET times(p, n) == [k \in 1..Len(SelectSeq(Parents(chain)[n], LAMBDA q : q = p)) |-> n]
    IN  [p \in ToSet(chain) |-> FlattenSeq([k \in DOMAIN chain |-> times(p, chain[k])])]

buildTree(chain) ==
    [roots |-> SelectSeq(chain, LAMBDA n : Parents(chain)[n] = <<>>),
     children |-> Children(chain),
     parents |-> Parents(chain)]

-----------------------------------------------------------------------------
(* The rows.  The functions share one map of what is rendered and call each   *)
(* other depth first.  Each is one step here: the row it adds, the jobs that   *)
(* are marked afterwards, and the calls it makes, in their order.              *)

Render(f, names) == [f |-> f, names |-> names]

\* Mutant: a row does not mark its job as rendered.
renderEach_Unmarked(t, names, done) ==
    [row |-> <<Head(names)>>,
     done |-> done,
     calls |-> <<Render("children", t.children[Head(names)]), Render("each", Tail(names))>>]

\* a row for each of names, and what is under it
renderEach(t, names, done) ==
    [row |-> <<Head(names)>>,
     done |-> done \union {Head(names)},
     calls |-> <<Render("children", t.children[Head(names)]), Render("each", Tail(names))>>]

\* renderParallelGroup: jobs all of whose parents, two or more, are in the group
\* come under those parents; the other members follow
renderParallelGroup(t, group, done) ==
    LET joins(k) == /\ k \notin done
                    /\ Len(t.parents[k]) >= 2
                    /\ ToSet(t.parents[k]) \subseteq ToSet(group)
        kids == FlattenSeq([m \in DOMAIN group |-> t.children[group[m]]])
        first(m) == joins(kids[m]) /\ \A o \in 1..(m - 1) : kids[o] # kids[m]
        picked == SelectSeq([m \in DOMAIN kids |-> m], first)
        fanIn == [m \in DOMAIN picked |-> kids[picked[m]]]
        fanInParents == UNION {ToSet(t.parents[k]) : k \in ToSet(fanIn)}
    IN  [row |-> <<>>,
         done |-> done \union ToSet(fanIn),
         calls |-> <<Render("each", SelectSeq(group, LAMBDA n : n \in fanInParents)),
                     Render("each", fanIn),
                     Render("each", SelectSeq(group, LAMBDA n : n \notin fanInParents))>>]

\* renderChildren: the children that have no row yet, grouped by their parents
SameParents(t, a, b) == SortSeq(t.parents[a], <) = SortSeq(t.parents[b], <)

renderChildren(t, kids, done) ==
    LET open == SelectSeq(kids, LAMBDA k : k \notin done)
        group == SelectSeq(open, LAMBDA k : SameParents(t, k, Head(open)))
        left == SelectSeq(open, LAMBDA k : ~SameParents(t, k, Head(open)))
        parallel == Len(group) >= 2
    IN  [row |-> <<>>,
         done |-> IF parallel THEN done \union ToSet(group) ELSE done,
         calls |-> <<Render(IF parallel THEN "group" ELSE "each", group),
                     Render("children", left)>>]

RECURSIVE Rendered(_, _, _, _)
Rendered(t, calls, done, rows) ==
    LET open == SelectSeq(calls, LAMBDA c : c.names # <<>>)
        names == Head(open).names
        step == CASE Head(open).f = "each" -> renderEach(t, names, done)
                  [] Head(open).f = "group" -> renderParallelGroup(t, names, done)
                  [] Head(open).f = "children" -> renderChildren(t, names, done)
    IN  IF open = <<>> THEN rows
        ELSE Rendered(t, step.calls \o Tail(open), step.done, rows \o step.row)

renderTree(t) ==
    IF Len(t.roots) >= 2
    THEN Rendered(t, <<Render("group", t.roots)>>, ToSet(t.roots), <<>>)
    ELSE Rendered(t, <<Render("each", t.roots)>>, {}, <<>>)

-----------------------------------------------------------------------------
\* The jobs that depend on r, directly or through passed: the least set that has
\* the jobs that get it and, with a job, those that name it in passed.
Dependents(r) ==
    {n \in JobNames :
        \A S \in SUBSET JobNames :
            /\ \A j \in ToSet(Entries(r)) : j \in S
            /\ \A i \in S, j \in JobNames : Follows(i, j) => j \in S
            => n \in S}

\* two steps of one job pass the same job
Twice == \E j \in JobNames : \E k, m \in DOMAIN jobs[j] :
            k # m /\ jobs[j][k].passed \intersect jobs[j][m].passed # {}

\* The list shows every job that depends on the resource, each in one row,
\* whatever groups and joins the pipeline has (resolveChain, buildTree and the
\* render functions): unless two steps of a job pass the same job.
RowsOnce ==
    resource # NoResource =>
        LET chain == resolveChain(resource)
            rows == renderTree(buildTree(chain))
        IN  /\ ToSet(chain) = Dependents(resource)
            /\ IsInjective(chain)
            /\ ToSet(rows) = ToSet(chain)
            /\ ~Twice => IsInjective(rows)
=============================================================================
