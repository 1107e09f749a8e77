------------------------------- MODULE Walks -------------------------------
(***************************************************************************)
(* Walks in the network: sequences of arcs, as a std::list<edge> holds     *)
(* them.                                                                   *)
(***************************************************************************)
EXTENDS Network, SequencesExt

(* Each arc starts where the one before it ends. *)
IsWalk(t) == \A i \in 1..(Len(t) - 1) : Target[t[i]] = Source[t[i + 1]]

IsClosedWalkAt(t, n) ==
  /\ IsWalk(t)
  /\ t # <<>> => Source[t[1]] = n /\ Target[t[Len(t)]] = n

(* All that can be taken of x in a closed walk from the node n. *)
IsEulerTour(t, x, n) ==
  /\ t \in Seq(x)
  /\ IsInjective(t)
  /\ IsClosedWalkAt(t, n)
  /\ \A a \in x : Source[a] \in {n} \cup NodesOf(ToSet(t)) => a \in ToSet(t)
=============================================================================
