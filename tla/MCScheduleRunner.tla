--------------------------- MODULE MCScheduleRunner ---------------------------
(* Two processes that poll two schedules, over three whole times.        *)
EXTENDS ScheduleRunner, TLC

CONSTANTS a, b
MCBroken == {{}, {b}}
MCCreated ==
  {[s \in {a, b} |->
      IF s = a THEN [period |-> 1, overlap |-> overlap, missed |-> "run_all"]
               ELSE [period |-> 2, overlap |-> "concurrent", missed |-> "run_once"]] :
   overlap \in {"skip", "concurrent"}}
MCUpsets == {[fail |-> 2, abort |-> 1, edit |-> 0], [fail |-> 0, abort |-> 0, edit |-> 1]}
Processes == Permutations(Workers)
==============================================================================
