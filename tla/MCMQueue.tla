------------------------------ MODULE MCMQueue ------------------------------
(***************************************************************************)
(* Small instances of MQueue: two publishers, a consumer per topic.        *)
(***************************************************************************)
EXTENDS MQueue

(* p1 sends two messages of topic "b", priorities 0 then 2; p2 one of   *)
(* topic "a", priority 1: an insert lands before, between or behind them *)
MCScript == [p \in Publishers |-> IF p = "p1" THEN <<<<"b", 0>>, <<"b", 2>>>> ELSE <<<<"a", 1>>>>]
(* a third thread rejects a message id, then clears the queue *)
MCAdmin == <<"reject", "clear">>

MCTopicOf == [c \in Consumers |-> IF c = "c1" THEN "a" ELSE "b"]

==============================================================================
