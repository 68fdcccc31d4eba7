------------------------------ MODULE DagReplay ------------------------------
(***************************************************************************)
(* What the replay of session trees promises, whatever its timers do.      *)
(*                                                                         *)
(* A lane plays one tree at a time and goes on to a new play when all      *)
(* requests of the old one are done.  A request runs once, and not before  *)
(* those it needs are done.  Nothing but warmup requests runs before the   *)
(* warmup is over.                                                         *)
(***************************************************************************)
EXTENDS Naturals

CONSTANTS
  Lanes,
  Plays,       \* 1 .. n, in the order in which they start
  Ids,         \* the requests of a play
  Needs        \* Needs[<<p, i>>]: requests of play p that i depends on

VARIABLES
  state,       \* of each request
  open,        \* the play of each lane
  warm         \* the warmup is going on

dagvars == <<state, open, warm>>

(* A request that has no part in the replay is "away": of a play that has  *)
(* not started, or skipped.  "warm" ones run during the warmup.            *)
Here == {"warm", "idle", "run", "done"}

Over(p) == \A i \in Ids : state[<<p, i>>] \in {"away", "done"}

Opened == {open[l] : l \in Lanes}

(* The first play of every lane; its primers run at once. *)
DagInit ==
  /\ warm = TRUE
  /\ open \in [Lanes -> Plays]
  /\ \A k, l \in Lanes : open[k] = open[l] => k = l
  /\ state \in [Plays \X Ids -> {"away", "warm", "idle", "run"}]
  /\ \A p \in Plays \ Opened : \A i \in Ids : state[<<p, i>>] = "away"

Run(p, i) ==
  /\ state[<<p, i>>] \in (IF warm THEN {"warm"} ELSE {"warm", "idle"})
  /\ p \in Opened
  /\ \A j \in Needs[<<p, i>>] : state[<<p, j>>] \in {"away", "done"}
  /\ state' = [state EXCEPT ![<<p, i>>] = "run"]
  /\ UNCHANGED <<open, warm>>

Finish(p, i) ==
  /\ state[<<p, i>>] = "run"
  /\ state' = [state EXCEPT ![<<p, i>>] = "done"]
  /\ UNCHANGED <<open, warm>>

(* The last request of a play is done: a play that was never open starts.  *)
FinishLast(p, i, l, q) ==
  /\ state[<<p, i>>] = "run"
  /\ open[l] = p
  /\ \A j \in Ids \ {i} : state[<<p, j>>] \in {"away", "done"}
  /\ \A j \in Ids : state[<<q, j>>] = "away"
  /\ open' = [open EXCEPT ![l] = q]
  /\ \E S \in SUBSET Ids :
       state' = [x \in Plays \X Ids |->
                   IF x = <<p, i>> THEN "done"
                   ELSE IF x[1] = q /\ x[2] \in S THEN "idle" ELSE state[x]]
  /\ UNCHANGED warm

EndWarmup ==
  /\ warm = TRUE
  /\ \A x \in Plays \X Ids : state[x] \notin {"warm", "run"}
  /\ warm' = FALSE
  /\ UNCHANGED <<state, open>>

DagNext ==
  \/ \E p \in Plays, i \in Ids : Run(p, i) \/ Finish(p, i)
  \/ \E p, q \in Plays, i \in Ids, l \in Lanes : FinishLast(p, i, l, q)
  \/ EndWarmup

DagSpec == DagInit /\ [][DagNext]_dagvars

=============================================================================
