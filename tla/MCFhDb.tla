------------------------------- MODULE MCFhDb -------------------------------
(* Instances of FhDb: streams short enough to enumerate, each with a kind   *)
(* of message in a place where it matters.                                  *)
EXTENDS FhDb

TwoX == {<<"X", "X">>}
TickThenBook == {<<"L", "X">>}

Replay == {"replay"}
=============================================================================
