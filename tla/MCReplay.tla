------------------------------ MODULE MCReplay ------------------------------
(* Traces for the model checking of Replay.                                *)
EXTENDS Replay, TLC

Edge(i, j, d) == [from |-> i, to |-> j, delay |-> d]

(* An agent with a turn before the snapshot and two behind it, and a       *)
(* subagent that joins; and a short tree of two requests.                  *)
Join == [t |-> <<0, 2, 2, 9>>, agent |-> <<1, 1, 2, 1>>,
         edges |-> {Edge(1, 2, 1), Edge(1, 3, 0), Edge(2, 4, 3), Edge(3, 4, 1)}]
Pair == [t |-> <<0, 6>>, agent |-> <<1, 1>>, edges |-> {Edge(1, 2, 5)}]

(* One agent that thinks for 7 between its turns.                          *)
Turns == [t |-> <<0, 8, 16, 24>>, agent |-> <<1, 1, 1, 1>>,
          edges |-> {Edge(1, 2, 7), Edge(2, 3, 7), Edge(3, 4, 7)}]

(* A turn with two successors, after 4 and after 7.                        *)
Fan == [t |-> <<0, 4, 8, 11>>, agent |-> <<1, 1, 1, 2>>,
        edges |-> {Edge(1, 2, 2), Edge(2, 3, 4), Edge(2, 4, 7)}]

OneTurns == <<Turns>>
OneFan == <<Fan>>
JoinPair == <<Join, Pair>>
=============================================================================
