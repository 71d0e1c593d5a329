---------------------------- MODULE MCWebPages ----------------------------
(* Small instances of the pages, for TLC. *)
EXTENDS WebPages, ListRows

\* A pipeline of four jobs; in a get step of git and in one of img, a job may
\* pass any of the jobs that come before it in Place.
Place == <<2, 4, 1, 3>>
Before(j) == SUBSET {i \in 1..4 : Place[i] < Place[j]}
One(j) == {<<[r |-> "git", trigger |-> TRUE, passed |-> p]>> : p \in Before(j)}
Two(j) == {g \o <<[r |-> "img", trigger |-> p = {}, passed |-> p]>> : g \in One(j), p \in Before(j)}
MCPipelines == {<<a, b, c, d>> : a \in One(1), b \in One(2) \union Two(2), c \in One(3), d \in Two(4)}

\* three pipelines in pages of two, one of them found by the search
MCMatching == [w \in Searches |-> IF w = NoSearch THEN 3 ELSE 1]

\* the bare URL, one of a page that is gone with an order that is unknown, and
\* one of a search
MCGridLinks == {[page |-> 0, q |-> "none", sort |-> "none"],
                [page |-> 3, q |-> "none", sort |-> "other"],
                [page |-> 2, q |-> "word", sort |-> "created"]}
=============================================================================
