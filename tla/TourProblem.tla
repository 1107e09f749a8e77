---------------------------- MODULE TourProblem ----------------------------
(***************************************************************************)
(* What the solver of the station problem promises its caller.             *)
(*                                                                         *)
(* A request is answered with an optimal tour, a closed walk that visits   *)
(* every station and is not longer than any other such walk, or with an    *)
(* exception.  "infeasible" stands for the exception that is right to say  *)
(* that there is no tour, "error" for every other one.                     *)
(***************************************************************************)
CONSTANTS Shorter(_, _),    \* Shorter(t, u): t is shorter than u
          NoAnswer          \* what an asker sees before there is an answer

VARIABLES tours,            \* the tours of the problem
          status, answer

tourVars == <<tours, status, answer>>

Optimal(t) == t \in tours /\ \A u \in tours : ~Shorter(u, t)

TourInit == status = "idle" /\ answer = NoAnswer

Ask ==
  /\ status # "busy"
  /\ status' = "busy"
  /\ answer' = NoAnswer
  /\ UNCHANGED tours

AnswerTour ==
  /\ status = "busy"
  /\ \E t \in tours : Optimal(t) /\ answer' = t
  /\ status' = "answered"
  /\ UNCHANGED tours

ReportInfeasible ==
  /\ status = "busy"
  /\ tours = {}
  /\ status' = "infeasible"
  /\ UNCHANGED <<tours, answer>>

ReportError ==
  /\ status = "busy"
  /\ status' = "error"
  /\ UNCHANGED <<tours, answer>>

Finish == AnswerTour \/ ReportInfeasible \/ ReportError

TourNext == Ask \/ Finish

(* A request that was made is answered. *)
TourSpec == TourInit /\ [][TourNext]_tourVars /\ WF_tourVars(Finish)
=============================================================================
