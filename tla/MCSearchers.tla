---------------------------- MODULE MCSearchers ----------------------------
(* TLC instances of Searchers. *)
EXTENDS Searchers

Searches == {<<"DFS">>, <<"BFS">>, <<"RandomState">>, <<"RandomPath">>, <<"NURS">>,
             <<"RandomPath", "NURS">>, <<"DFS", "BFS">>, <<"BFS", "NURS_Depth">>}

(* Every search with and without batching and deepening, but deepening     *)
(* with RandomPathSearcher, which does not know of paused states.          *)
SoundOptions ==
  {o \in [search : Searches, batching : BOOLEAN, deepening : BOOLEAN] :
     o.deepening => o.search[1] # "RandomPath"}
=============================================================================
