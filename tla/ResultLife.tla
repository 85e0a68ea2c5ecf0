----------------------------- MODULE ResultLife -----------------------------
(***************************************************************************)
(* What the server may expect of a client that it has sent a result to:    *)
(* the result is held until there is something to report, and the report   *)
(* until the server has acknowledged it.  A report is not taken back, and  *)
(* what has been dropped does not come back.  Only the user may drop       *)
(* results before that, all at once, by resetting the project.             *)
(***************************************************************************)
CONSTANT Results

VARIABLE life       \* how far each result has come

Stages == {"unsent", "held", "ready", "acked", "dropped"}

\* Arrival, end of the work, acknowledgement, deletion.
Moves == {<<"unsent", "held">>, <<"held", "ready">>, <<"ready", "acked">>,
          <<"acked", "dropped">>}

LifeInit == life = [r \in Results |-> "unsent"]

\* Any number of results come one stage further.
Advance ==
    /\ life' \in [Results -> Stages]
    /\ \A r \in Results :
         life'[r] # life[r] => <<life[r], life'[r]>> \in Moves

\* The project is reset.
DropAll ==
    life' = [r \in Results |-> IF life[r] = "unsent" THEN "unsent" ELSE "dropped"]

LifeNext == Advance \/ DropAll

LifeSpec == LifeInit /\ [][LifeNext]_life
=============================================================================
