--------------------------- MODULE MCMatchReport ---------------------------
(***************************************************************************)
(* MatchReport on a small instance: two players whose keys collide, one of *)
(* them told of sparsely and on either side, and entries without an id,    *)
(* with a name, without one, and without numbers.                          *)
(***************************************************************************)
EXTENDS MatchReport, TLC

Entry(id, name, stats) == [id |-> id, name |-> name, stats |-> stats]
Full(team, score) == [team |-> team, score |-> score, shots |-> score]

FewEntries ==
  { Entry(<<"p", ".">>, <<>>, Full(Blue, 2)),
    Entry(<<"p", ".">>, <<>>, "score" :> 1),
    Entry(<<"p", ".">>, <<>>, "team" :> Orange),
    Entry(<<"p", "/">>, <<>>, Full(Orange, 2)),
    Entry(UnknownId, <<"n">>, Full(Blue, 1)),
    Entry(UnknownId, <<>>, Full(2, 1)),
    Entry(<<>>, <<>>, [Full(Orange, 2) EXCEPT !.score = -1]),
    Entry(<<>>, <<"n">>, Nothing) }
=============================================================================
