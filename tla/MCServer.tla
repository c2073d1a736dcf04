------------------------------ MODULE MCServer ------------------------------
(* Instances of Server for TLC: a provider with two kinds, one that serves  *)
(* a kind twice, one with a kind of its own, one with a new kind and one of *)
(* the first's, and one that cannot be built.                               *)
EXTENDS Server

CONSTANTS pods, nodes, jobs, good, twice, other, clash, broken

SomeKinds == [c \in {good, twice, other, clash, broken} |->
                CASE c = good  -> <<pods, nodes>>
                  [] c = twice -> <<pods, nodes, pods>>
                  [] c = other -> <<jobs>>
                  [] c = clash -> <<jobs, nodes>>
                  [] OTHER     -> <<>>]

Interfaces == [c \in {good, twice, other, clash, broken} |->
                 [r \in {pods, nodes, jobs} |->
                    CASE c = good /\ r = pods  -> {"describe", "watch"}
                      [] c = good /\ r = nodes -> {"describe", "restart"}
                      [] c = other             -> {"restart", "scopedList"}
                      [] OTHER                 -> {}]]

(* Nodes declare less than they implement, jobs more; the rest declares     *)
(* nothing.                                                                 *)
SomeLists == [c \in {good, twice, other, clash, broken} |->
                [r \in {pods, nodes, jobs} |->
                   CASE c = good /\ r = nodes -> {"describe"}
                     [] c = other             -> {"restart", "describe"}
                     [] OTHER                 -> None]]

(* Read-only nodes; jobs said to be watched, which they are not; of pods    *)
(* and the rest nothing is declared.                                        *)
SomeVerbs == [c \in {good, twice, other, clash, broken} |->
               [r \in {pods, nodes, jobs} |->
                  CASE r = nodes -> {"get", "list"}
                    [] c = other /\ r # nodes -> {"get", "watch"}
                    [] OTHER     -> {}]]

(* Nothing at all; a namespace and a selector; every namespace and cascade. *)
SomeContexts ==
  {Zero,
   [Zero EXCEPT !["namespace"] = "ns", !["labelSelector"] = "l"],
   [Zero EXCEPT !["allNamespaces"] = TRUE, !["fieldSelector"] = "f", !["cascade"] = TRUE]}
=============================================================================
