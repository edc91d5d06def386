---------------------------- MODULE MCBookMirror ----------------------------
(* Number 1 moves between b1 and b2, as on a combined feed; b3 has numbers  *)
(* 2 and 3 to itself.                                                       *)
EXTENDS BookMirror
MCNumbers == 1..3
MCBooks == {"b1", "b2", "b3"}
MCHome == {<<1, "b1">>, <<1, "b2">>, <<2, "b3">>, <<3, "b3">>}
MCSides == {"B", "S"}
MCPrices == {10, 11}
MCQtys == {1, 2}
NoZeroOrders == {}
=============================================================================
