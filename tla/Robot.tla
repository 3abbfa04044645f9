------------------------------- MODULE Robot -------------------------------
(***************************************************************************)
(* What Entity/Robot promises to the loop of cli.cpp: at any time the      *)
(* robot is off, or it serves one session, which is over before the next   *)
(* begins.  RobotSession implements it.                                    *)
(***************************************************************************)

VARIABLE phase  \* what the robot is doing

\* off, with nothing left of the last session; starting; working; closing,
\* because it was told to stop; lost, because the session ended on its own and
\* IsRunning does not say so yet; over, when IsRunning says no but the thread
\* was not joined or the session not released; doomed, when it was started like
\* that; dead, with the process
Phases == {"off", "starting", "working", "closing", "lost", "over", "doomed", "dead"}

Init == phase = "off"

Move(from, to) == phase \in from /\ phase' = to

Start   == Move({"off"}, "starting")
Work    == Move({"starting"}, "working")
Close   == Move({"starting", "working"}, "closing")
Lose    == Move({"working"}, "lost")
Retire  == Move({"starting", "closing", "lost"}, "over")
Release == Move({"over"}, "off")
Doom    == Move({"over"}, "doomed")
Die     == Move(Phases \ {"dead"}, "dead")
\* Somebody starts the process again.
Restart == Move({"dead"}, "off")

Next ==
    \/ Start \/ Work \/ Close \/ Lose \/ Retire \/ Release \/ Doom \/ Die \/ Restart

Spec == Init /\ [][Next]_phase
=============================================================================
