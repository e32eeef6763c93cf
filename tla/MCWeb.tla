------------------------------- MODULE MCWeb -------------------------------
(* Small instances of what a browser tab has besides the page's core: a    *)
(* proxied socket, the polls, the run channel with the scope's endpoint,   *)
(* and the layout of the panes.  They share no state, so a behaviour is    *)
(* one of them, and the others stand still where they began.               *)
EXTENDS SocketProxy, PagePolls, RunChannel, PaneLayout

VARIABLE scene

tabVars == <<scene, vars, pollVars, feedVars, paneVars>>

TabInit ==
    /\ scene \in {"proxy", "polls", "channel", "panes"}
    /\ Init /\ PollInit /\ FeedInit /\ PaneInit
    /\ scene # "proxy" => endpoint = None
    /\ scene # "polls" => polled = "sim" /\ fact = "idle"
    /\ scene # "panes" => ~ narrow /\ ~ storing

TabNext ==
    /\ UNCHANGED scene
    /\ \/ scene = "proxy" /\ Next /\ UNCHANGED <<pollVars, feedVars, paneVars>>
       \/ scene = "polls" /\ PollNext /\ UNCHANGED <<vars, feedVars, paneVars>>
       \/ scene = "channel" /\ FeedNext /\ UNCHANGED <<vars, pollVars, paneVars>>
       \/ scene = "panes" /\ PaneNext /\ UNCHANGED <<vars, pollVars, feedVars>>

\* Each part under its own fairness; the panes owe nothing.
TabSpec ==
    /\ TabInit /\ [][TabNext]_tabVars
    /\ \/ scene = "proxy" /\ Fairness
       \/ scene = "polls" /\ PollFairness
       \/ scene = "channel" /\ FeedFairness
       \/ scene = "panes"

(* The polls come to show what is true, and the channel and the scope come *)
(* back, once nothing changes or fails any more.                           *)
PageCatchesUp ==
    /\ scene = "polls" => PollsConverge
    /\ scene = "channel" => FeedsCatchUp
=============================================================================
