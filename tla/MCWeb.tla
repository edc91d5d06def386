------------------------------- MODULE MCWeb -------------------------------
(* jnxweb: its image of the market while jnxfh and jnxdb crash and          *)
(* datagrams are lost ("image"), repeated or overtaken ("disorder"); the    *)
(* hub while connections are lost and the feed restarts ("hub"); and what   *)
(* its users wait for: a snapshot while fetches fail ("fetch"), the pushes  *)
(* to the browsers ("push", "restart") and the orders panel.  A behaviour   *)
(* is a behaviour of the part that Init chooses, and the others keep their  *)
(* initial states.                                                          *)
EXTENDS WebState, WebPush, OrdersPanel

VARIABLE part

vars == <<part, webVars, pushVars, panelVars>>

-----------------------------------------------------------------------------
(* A session in which the first ticker falls silent. *)
Msg(t, hit) == [t |-> t, hit |-> hit]
IdleAfterFirst == <<Msg("a", FALSE), Msg("b", FALSE), Msg("b", TRUE)>>

(* A ticker trades, then both move, then one is idle. *)
TradeThenQuotes == <<Msg("a", TRUE), Msg("b", FALSE), Msg("a", FALSE)>>

(* The image on a network that loses datagrams, and on one that reorders    *)
(* and repeats them; both on WebState's own variables.                      *)
I == INSTANCE WebState WITH
       Stream <- TradeThenQuotes, MaxFhCrashes <- 1, MaxDbCrashes <- 1,
       MaxLost <- 1, MaxLate <- 0, MaxFetchFails <- 1, MaxQueue <- 2,
       MaxAttempts <- 2, PromptDb <- FALSE
D == INSTANCE WebState WITH
       Stream <- TradeThenQuotes, MaxFhCrashes <- 1, MaxDbCrashes <- 1,
       MaxLost <- 0, MaxLate <- 1, MaxFetchFails <- 0, MaxQueue <- 2,
       MaxAttempts <- 2, PromptDb <- FALSE

(* Lost connections and a restart of the feed together, and the restart    *)
(* alone; with the constants of the .cfg, lost connections alone.           *)
H == INSTANCE WebPush WITH MaxRestarts <- 1
E == INSTANCE WebPush WITH MaxRestarts <- 1, MaxDrops <- 0

ASSUME
  /\ WebAssumption /\ I!WebAssumption /\ D!WebAssumption
  /\ PushAssumption /\ OrdersPanelAssumption

-----------------------------------------------------------------------------
Init ==
  /\ part \in {"image", "disorder", "fetch", "hub", "push", "restart", "panel"}
  /\ WebInit
  /\ PushInit /\ PanelInit
  /\ part = "panel" \/ configured

Next ==
  /\ UNCHANGED part
  /\ \/ part = "image" /\ I!WebNext /\ UNCHANGED <<pushVars, panelVars>>
     \/ part = "disorder" /\ D!WebNext /\ UNCHANGED <<pushVars, panelVars>>
     \/ part = "fetch" /\ WebNext /\ UNCHANGED <<pushVars, panelVars>>
     \/ part = "hub" /\ H!PushNext /\ UNCHANGED <<webVars, panelVars>>
     \/ part = "restart" /\ E!PushNext /\ UNCHANGED <<webVars, panelVars>>
     \/ part = "push" /\ PushNext /\ UNCHANGED <<webVars, panelVars>>
     \/ part = "panel" /\ PanelNext /\ UNCHANGED <<webVars, pushVars>>

Spec == Init /\ [][Next]_vars

(* Each part's own fairness; a part that does not run owes nothing.         *)
FairSpec ==
  /\ Spec
  /\ WF_webVars(part = "fetch" /\ FeedStep)
  /\ WF_webVars(part = "fetch" /\ WebStep)
  /\ WF_webVars(part = "fetch" /\ ApplyUpdate)
  /\ \A p \in Pages :
       WF_pushVars(part \in {"push", "restart"} /\ (Serve(p) \/ Browse(p)))
  /\ \A i \in Reqs : WF_panelVars(part = "panel" /\ Progress(i))

-----------------------------------------------------------------------------
(* What the parts promise: OneIncarnation, SingleFetch, GapsAreLosses,      *)
(* MergeKeepsFresh, HubMatchesPages, RowsOfSelected and AnsweredOnce are    *)
(* defined in the modules of their parts, with their arguments.             *)

(* Every part's variables keep their ranges. *)
TypeOK == WebTypeOK /\ PushTypeOK /\ PanelTypeOK

(* The browser gets to see it all: every ticker the DB knows (snapshot.py), *)
(* the newest record of the selected one (wsock.py, static_page.py), and a  *)
(* Refresh button that always comes back (dbquery_client.py _on_timeout).   *)
EventuallyShown ==
  /\ part = "fetch" => AllShown
  /\ part \in {"push", "restart"} => PagesSettle
  /\ part = "panel" => ButtonReturns
=============================================================================
