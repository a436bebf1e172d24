------------------------------ MODULE MCDijkstra -----------------------------
(* Every graph of three vertices with the edges of MCJoinable. *)
EXTENDS Dijkstra

MCJoinable == {<<0, 1>>, <<0, 2>>, <<1, 2>>, <<2, 1>>, <<1, 0>>, <<1, 1>>}
==============================================================================
