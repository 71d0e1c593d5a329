------------------------- MODULE PipelineViewProofs -------------------------
(***************************************************************************)
(* Proofs about PipelineView, for any set of versions, any number of       *)
(* resources and any bound on requests: what the address, the page, the    *)
(* banner, the graph and the list hold is a version or none, and every     *)
(* request asks a resource that there is.                                  *)
(***************************************************************************)
EXTENDS PipelineView, WellFoundedInduction, TLAPS

\* The resolution of a shared link asks the resources one by one, from the first
\* to the last, for a version.
Asking == \A r \in reqs : r.kind = "resolve" => r.v \in Versions /\ r.i \in 1..Resources

PipeInv == TypeOK /\ Asking

-----------------------------------------------------------------------------
\* The page opens with the invariant.
LEMMA InitPipe == Init => PipeInv
  BY DEF Init, PipeInv, TypeOK, Asking, Scopes, None

\* A set of numbers has a least one.
LEMMA LeastOf ==
  ASSUME NEW S, S \subseteq Nat, S # {}
  PROVE  \E n \in S : \A o \in S : n <= o
<1>1. PICK x \in S : \A y \in S : ~(<<y, x>> \in OpToRel(<, Nat))
  BY NatLessThanWellFounded, WFMin
<1>2. \A y \in S : ~(y < x)
  BY <1>1 DEF OpToRel
<1> QED BY <1>2

\* One more request: a request that is already there, or one of the bounded copies.
LEMMA WithIs ==
  ASSUME NEW q \in SUBSET Request, NEW k \in {"image", "path", "resolve"},
         NEW x \in Scopes, NEW j \in 0..Resources
  PROVE  /\ With(q, k, x, j) \in SUBSET Request
         /\ \A r \in With(q, k, x, j) : r \in q \/ (r.kind = k /\ r.v = x /\ r.i = j)
<1> DEFINE free == {n \in 1..Copies : [kind |-> k, v |-> x, i |-> j, n |-> n] \notin q}
           m == CHOOSE n \in free : \A o \in free : n <= o
           new == [kind |-> k, v |-> x, i |-> j, n |-> m]
<1>1. CASE free = {}
  BY <1>1 DEF With
<1>2. CASE free # {}
  <2>1. m \in free
    <3>1. free \subseteq Nat /\ free # {}
      BY <1>2, PipelineAssumption
    <3>2. \E n \in free : \A o \in free : n <= o
      BY <3>1, LeastOf
    <3> HIDE DEF free
    <3> QED BY <3>2
  <2>2. With(q, k, x, j) = q \union {new}
    BY <1>2 DEF With
  <2>3. new \in Request /\ new.kind = k /\ new.v = x /\ new.i = j
    BY <2>1 DEF Request
  <2> HIDE DEF new
  <2> QED BY <2>2, <2>3
<1> QED BY <1>1, <1>2

LEMMA ImageAsked ==
  ASSUME NEW q \in SUBSET Request, NEW x \in Scopes
  PROVE  /\ fetchImage(q, x) \in SUBSET Request
         /\ \A r \in fetchImage(q, x) : r \in q \/ r.kind # "resolve"
<1>1. 0 \in 0..Resources
  BY PipelineAssumption
<1> QED BY <1>1, WithIs DEF fetchImage

LEMMA PathAsked ==
  ASSUME NEW q \in SUBSET Request, NEW x \in Scopes
  PROVE  /\ pollVersionPath(q, x) \in SUBSET Request
         /\ \A r \in pollVersionPath(q, x) : r \in q \/ r.kind # "resolve"
<1>1. 0 \in 0..Resources
  BY PipelineAssumption
<1> QED BY <1>1, WithIs DEF pollVersionPath

\* A list view that is scoped selects a job with the version of its first render.
LEMMA ScopeApplied ==
  ASSUME TypeOK, NEW x \in Scopes, applyVersionScope(x)
  PROVE  scope' \in Scopes /\ selected' \in BOOLEAN /\ url' \in Scopes
  BY DEF TypeOK, applyVersionScope, selectJob

-----------------------------------------------------------------------------
(* One lemma per group of steps. *)

\* The list view: a job is selected, and the view is switched.
LEMMA ListSteps ==
  ASSUME PipeInv, AutoSelect \/ ClickJob \/ switchView \/ PipelineLoaded
  PROVE  PipeInv'
<1> USE DEF PipeInv, TypeOK, Asking
<1>1. CASE AutoSelect
  BY <1>1 DEF AutoSelect, selectJob
<1>2. CASE ClickJob
  BY <1>2 DEF ClickJob, selectJob
<1>3. None \in Scopes
  BY DEF Scopes
<1>4. CASE switchView
  BY <1>3, <1>4 DEF switchView, Rendered
<1>5. CASE PipelineLoaded
  BY <1>3, <1>5 DEF PipelineLoaded, Rendered
<1> QED BY <1>1, <1>2, <1>4, <1>5

\* Requests are sent, by a poll, the user or the resolution of a shared link.
LEMMA AskSteps ==
  ASSUME PipeInv,
         \/ pollCallback \/ ResourcesAnswered \/ clearVersionScope \/ onSelectResource
         \/ \E x \in Versions : trackVersion(x)
  PROVE  PipeInv'
<1>1. None \in Scopes /\ Versions \subseteq Scopes
  BY DEF Scopes
<1>2. ASSUME NEW x \in Scopes, NEW y \in Scopes,
             reqs' = pollVersionPath(fetchImage(reqs, x), y) \/ reqs' = fetchImage(reqs, x)
      PROVE  reqs' \subseteq Request /\ Asking'
  <2> DEFINE q == fetchImage(reqs, x)
  <2>1. q \in SUBSET Request /\ \A r \in q : r \in reqs \/ r.kind # "resolve"
    BY ImageAsked DEF PipeInv, TypeOK
  <2>2. reqs' = pollVersionPath(q, y) \/ reqs' = q
    BY <1>2
  <2> HIDE DEF q
  <2>3. /\ pollVersionPath(q, y) \in SUBSET Request
        /\ \A r \in pollVersionPath(q, y) : r \in q \/ r.kind # "resolve"
    BY <2>1, PathAsked
  <2> QED BY <2>1, <2>2, <2>3 DEF PipeInv, Asking
<1>3. CASE pollCallback
  <2>1. PICK x \in Scopes, y \in Scopes : reqs' = pollVersionPath(fetchImage(reqs, x), y)
    BY <1>3 DEF pollCallback, PipeInv, TypeOK
  <2> QED BY <1>2, <1>3, <2>1 DEF pollCallback, listVars, PipeInv, TypeOK
<1>4. CASE ResourcesAnswered
  <2>1. reqs' \subseteq Request /\ Asking'
    <3>1. CASE ~resolved /\ url # None /\ Resources > 0
      <4>1. url \in Scopes /\ url \in Versions /\ 1 \in 0..Resources /\ 1 \in 1..Resources
        BY <3>1, PipelineAssumption DEF PipeInv, TypeOK, Scopes
      <4>2. reqs' = With(reqs, "resolve", url, 1)
        BY <1>4, <3>1 DEF ResourcesAnswered
      <4>3. /\ With(reqs, "resolve", url, 1) \in SUBSET Request
            /\ \A r \in With(reqs, "resolve", url, 1) :
                 r \in reqs \/ (r.kind = "resolve" /\ r.v = url /\ r.i = 1)
        BY <4>1, WithIs DEF PipeInv, TypeOK
      <4> QED BY <4>1, <4>2, <4>3 DEF PipeInv, Asking
    <3>2. CASE ~(~resolved /\ url # None /\ Resources > 0)
      BY <1>4, <3>2 DEF ResourcesAnswered, PipeInv, TypeOK, Asking
    <3> QED BY <3>1, <3>2
  <2>2. resolved' \in BOOLEAN
    BY <1>4 DEF ResourcesAnswered, PipeInv, TypeOK
  <2> QED BY <1>4, <2>1, <2>2 DEF ResourcesAnswered, listVars, Rendered, PipeInv, TypeOK
<1>5. CASE clearVersionScope
  <2>1. reqs' = fetchImage(reqs, None)
    BY <1>5 DEF clearVersionScope
  <2>2. reqs' \subseteq Request /\ Asking'
    BY <1>1, <1>2, <2>1
  <2> QED BY <1>1, <1>5, <2>2 DEF clearVersionScope, Rendered, PipeInv, TypeOK
<1>6. CASE onSelectResource
  <2>1. reqs' = fetchImage(reqs, None)
    BY <1>6 DEF onSelectResource
  <2>2. reqs' \subseteq Request /\ Asking'
    BY <1>1, <1>2, <2>1
  <2> QED BY <1>1, <1>6, <2>2 DEF onSelectResource, Rendered, PipeInv, TypeOK
<1>7. ASSUME NEW x \in Versions, trackVersion(x)
      PROVE  PipeInv'
  <2>1. reqs' = pollVersionPath(fetchImage(reqs, x), x) /\ x \in Scopes
    BY <1>1, <1>7 DEF trackVersion
  <2>2. reqs' \subseteq Request /\ Asking'
    BY <1>2, <2>1
  <2> QED BY <1>7, <2>1, <2>2 DEF trackVersion, listVars, Rendered, PipeInv, TypeOK
<1> QED BY <1>3, <1>4, <1>5, <1>6, <1>7

\* An answer comes, or a request fails: tryNext asks the next resource, if any.
LEMMA AnswerSteps ==
  ASSUME PipeInv, NEW r \in reqs, Answered(r) \/ tryNext(r) \/ Ignored(r)
  PROVE  PipeInv'
<1>1. r.v \in Scopes /\ reqs \subseteq Request
  BY DEF PipeInv, TypeOK, Request
<1>2. ASSUME reqs' = reqs \ {r}
      PROVE  reqs' \subseteq Request /\ Asking'
  BY <1>2 DEF PipeInv, TypeOK, Asking
<1>3. CASE ImageAnswered(r)
  <2>1. reqs' \subseteq Request /\ Asking'
    BY <1>2, <1>3 DEF ImageAnswered
  <2>2. initialVID' \in Scopes
    BY <1>3 DEF ImageAnswered, Rendered, PipeInv, TypeOK
  <2> QED BY <1>1, <1>3, <2>1, <2>2 DEF ImageAnswered, listVars, PipeInv, TypeOK
<1>4. CASE PathAnswered(r)
  <2>1. reqs' \subseteq Request /\ Asking'
    BY <1>2, <1>4 DEF PathAnswered
  <2>2. scope' \in Scopes /\ selected' \in BOOLEAN /\ url' \in Scopes
    BY <1>1, <1>4, ScopeApplied DEF PathAnswered, PipeInv
  <2> QED BY <1>1, <1>4, <2>1, <2>2 DEF PathAnswered, Rendered, PipeInv, TypeOK
<1>5. CASE Resolved(r)
  <2>1. reqs' \subseteq Request /\ Asking'
    BY <1>2, <1>5 DEF Resolved
  <2>2. scope' \in Scopes /\ selected' \in BOOLEAN /\ url' \in Scopes
    BY <1>1, <1>5, ScopeApplied DEF Resolved, PipeInv
  <2> QED BY <1>1, <1>5, <2>1, <2>2 DEF Resolved, Rendered, PipeInv, TypeOK
<1>6. CASE tryNext(r)
  <2>1. reqs' \subseteq Request /\ Asking'
    <3>1. CASE r.i < Resources
      <4> DEFINE q == reqs \ {r}
                 j == r.i + 1
      <4>1. r.v \in Versions /\ r.i \in 1..Resources
        BY <1>6 DEF tryNext, PipeInv, Asking
      <4>2. j \in 0..Resources /\ j \in 1..Resources
        BY <3>1, <4>1, PipelineAssumption
      <4>3. reqs' = With(q, "resolve", r.v, j)
        BY <1>6, <3>1 DEF tryNext
      <4>4. q \in SUBSET Request /\ \A x \in q : x \in reqs
        BY <1>1
      <4> HIDE DEF q, j
      <4>5. /\ With(q, "resolve", r.v, j) \in SUBSET Request
            /\ \A x \in With(q, "resolve", r.v, j) :
                 x \in q \/ (x.kind = "resolve" /\ x.v = r.v /\ x.i = j)
        BY <1>1, <4>2, <4>4, WithIs
      <4> QED BY <4>1, <4>2, <4>3, <4>4, <4>5 DEF PipeInv, Asking
    <3>2. CASE ~(r.i < Resources)
      BY <1>2, <1>6, <3>2 DEF tryNext
    <3> QED BY <3>1, <3>2
  <2> QED BY <1>6, <2>1 DEF tryNext, listVars, PipeInv, TypeOK
<1>7. CASE Ignored(r)
  <2>1. reqs' \subseteq Request /\ Asking'
    BY <1>2, <1>7 DEF Ignored
  <2> QED BY <1>7, <2>1 DEF Ignored, listVars, PipeInv, TypeOK
<1> QED BY <1>3, <1>4, <1>5, <1>6, <1>7 DEF Answered

-----------------------------------------------------------------------------
LEMMA NextPipe == PipeInv /\ [Next]_vars => PipeInv'
<1> SUFFICES ASSUME PipeInv, [Next]_vars PROVE PipeInv'
  OBVIOUS
<1>1. CASE UNCHANGED vars
  BY <1>1 DEF vars, PipeInv, TypeOK, Asking
<1>2. CASE Next
  BY <1>2, ListSteps, AskSteps, AnswerSteps DEF Next
<1> QED BY <1>1, <1>2

\* The page of a pipeline has its type, whatever answers overlap: what it tracks,
\* shows and asks for is a version or none, and the search for the resource of a
\* shared link asks no resource that is not there (tryNext).
THEOREM PipelineTypes == Spec => []TypeOK
<1>1. PipeInv => TypeOK
  BY DEF PipeInv
<1> QED BY <1>1, InitPipe, NextPipe, PTL DEF Spec
=============================================================================
