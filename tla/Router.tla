------------------------------- MODULE Router -------------------------------
(***************************************************************************)
(* The route that is mounted (Router of assets/js/app/app.js).  One page   *)
(* is mounted at a time; a page that is left is unmounted, and answers     *)
(* that come later set the state of a component that is gone.              *)
(***************************************************************************)

VARIABLE page

\* a route that none of the page modules describes
Elsewhere == "elsewhere"

Enter(p) == page = Elsewhere /\ page' = p
Leave(p) == page = p /\ page' = Elsewhere
On(p) == page = p /\ page' = p
=============================================================================
