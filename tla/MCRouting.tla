----------------------------- MODULE MCRouting -----------------------------
(* Values of the constants of Routing for TLC.                             *)
EXTENDS Routing

MCSessionOf == <<"s1", "s2", "s1">>
MCPromptOf == << <<1, 2>>, <<1, 3>>, <<1, 2, 4>> >>
MCStrategyOf == <<"prefix_tree", "round_robin", "consistent_hash">>
=============================================================================
