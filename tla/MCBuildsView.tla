---------------------------- MODULE MCBuildsView ----------------------------
(* Instances of BuildsView for TLC. *)
EXTENDS BuildsView, TLC

Moves2 == {<<"pending", "failed">>}
Opened1 == {<<0, FALSE>>}
Opened3 == {<<0, FALSE>>, <<1, FALSE>>, <<0, TRUE>>}
=============================================================================
