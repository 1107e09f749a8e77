--------------------------- MODULE StationSolver ---------------------------
(***************************************************************************)
(* The branch-and-cut search for a shortest tour that visits every station *)
(* (class StationSolver on top of class CplexSolver).                      *)
(*                                                                         *)
(* The program states a 0/1 model: at every node as many selected arcs     *)
(* arrive as leave, and an arc leaves every station.  Such a selection may *)
(* fall apart into several closed walks, so CPLEX calls back with every    *)
(* integral candidate, and the program cuts it off with rows "some arc     *)
(* leaves W" and "some arc enters W", or accepts it.  CPLEX, an external   *)
(* library, chooses which candidate comes next: any selection that         *)
(* satisfies the model and the rows and is shorter than the best one so    *)
(* far.  It is done when there is none.                                    *)
(***************************************************************************)
EXTENDS Network

CONSTANT StationMaps   \* the maps from station to set of nodes to solve for

ASSUME StationMapsAssumption ==
  \A st \in StationMaps : st \in [DOMAIN st -> SUBSET Node]

(* A station that only one arc enters is where a single line ends, so that *)
(* no closed walk stays in it without passing the node of that arc.        *)
ASSUME TerminalsAssumption ==
  \A st \in StationMaps : \A s \in DOMAIN st : \A e \in Arc :
    Entering(Arc, st[s]) = {e} =>
      \A x \in Circulation :
        x # {} =>
          \E a \in x : \/ Source[a] \notin st[s] \/ Target[a] \notin st[s]
                      \/ Target[e] \in {Source[a], Target[a]}

VARIABLES
  stations,        \* the constructor's argument: which nodes a station has
  phase,           \* where the program stands
  cuts,            \* lazy rows of this solve, each a set of arcs: sum >= 1
  incumbent,       \* the accepted candidate that CPLEX holds, none or one
  solution_found,  \* the result that the getters of CplexSolver hand out
  solution_value,
  solution_tour,
  failure          \* why the last call threw

solution == <<solution_found, solution_value, solution_tour>>

vars == <<stations, phase, cuts, incumbent, solution, failure>>

Phases == {"new", "invalid", "ready", "solving", "building", "found", "failed"}

InputErrors == {"no unique station", "overlapping stations", "unassigned nodes"}
SolveErrors ==
  {"infeasible", "not optimal", "CPLEX exception", "not binary", "sub tours"}

-----------------------------------------------------------------------------
(* What the constructor checks. *)

(* A station that only one arc enters from outside. *)
NonStationInEdges(S) == Entering(Arc, S)

EnteredAtAll(s) == NonStationInEdges(stations[s]) # {}   \* a slip

Unique(s) == Cardinality(NonStationInEdges(stations[s])) = 1

HasUniqueStation == \E s \in DOMAIN stations : Unique(s)

Disjoint ==
  \A s, t \in DOMAIN stations : s # t => stations[s] \cap stations[t] = {}

AllAssigned == Node = UNION {stations[s] : s \in DOMAIN stations}

(* getStation(n); unambiguous once the constructor has accepted the map. *)
StationOf(n) == CHOOSE s \in DOMAIN stations : n \in stations[s]

-----------------------------------------------------------------------------
(* The model given to CPLEX and its current extension by lazy rows. *)

LeavesEveryStation(x) ==
  \A s \in DOMAIN stations : Leaving(x, stations[s]) # {}

Satisfies(x, rows) == \A row \in rows : row \cap x # {}

(* The candidates that CPLEX may still propose. *)
Remaining ==
  {x \in Circulation : /\ LeavesEveryStation(x)
                       /\ Satisfies(x, cuts)
                       /\ \A y \in incumbent : Cost(x) < Cost(y)}

-----------------------------------------------------------------------------
(* What the lazy constraint callback computes from a candidate x whose     *)
(* components are Cs.                                                      *)

(* components_per_station *)
ComponentsAt(Cs, s) == {C \in Cs : C \cap stations[s] # {}}

ExclusiveOrNot(Cs) == Cs   \* a slip: every component gets its rows

(* components_with_excl_station: alone at some station. *)
Exclusive(Cs) ==
  {C \in Cs : \E s \in DOMAIN stations : ComponentsAt(Cs, s) = {C}}

(* The numbers COMPONENTS may give to the components; the order is LEDA's. *)
Numberings(Cs) == Bijection(Cs, 0..(Cardinality(Cs) - 1))

(* getFirstElement of the components at a station *)
FirstAt(Cs, num, s) ==
  CHOOSE C \in ComponentsAt(Cs, s) :
    \A D \in ComponentsAt(Cs, s) : num[C] <= num[D]

SideByStation(x, Cs, num, C) ==   \* a slip: forgets that n may be in x
  {n \in Node : FirstAt(Cs, num, StationOf(n)) = C}

(* The nodes whose getComponent is C: the nodes of C, and those nodes      *)
(* outside the candidate whose station has C as its first component.       *)
Side(x, Cs, num, C) ==
  C \cup {n \in Node \ NodesOf(x) : FirstAt(Cs, num, StationOf(n)) = C}

(* createDeaggregatedCut: row_out and row_in *)
Rows(W) == {Leaving(Arc, W), Entering(Arc, W)}

(* No row when one component is exclusive: the candidate is accepted.      *)
(* With none the loop over the exclusive components adds no row either.    *)
NewRows(x, Cs, num) ==
  IF \E C \in Cs : Exclusive(Cs) = {C}
  THEN {}
  ELSE UNION {Rows(Side(x, Cs, num, C)) : C \in Exclusive(Cs)}

(* A candidate that no new row cuts off becomes the incumbent. *)
NextIncumbent(x, rows) == IF Satisfies(x, rows) THEN {x} ELSE incumbent

-----------------------------------------------------------------------------
Init ==
  /\ stations \in StationMaps
  /\ phase = "new"
  /\ cuts = {}
  /\ incumbent = {}
  /\ solution_found = FALSE
  /\ solution_value = 0
  /\ solution_tour = {}
  /\ failure = "none"

(* The constructor throws on the first check that fails. *)
InvalidInput(error) ==
  /\ phase' = "invalid"
  /\ failure' = error
  /\ UNCHANGED <<stations, cuts, incumbent, solution>>

Construct ==
  /\ phase = "new"
  /\ \/ ~HasUniqueStation /\ InvalidInput("no unique station")
     \/ HasUniqueStation /\ ~Disjoint /\ InvalidInput("overlapping stations")
     \/ /\ HasUniqueStation /\ Disjoint /\ ~AllAssigned
        /\ InvalidInput("unassigned nodes")
     \/ /\ HasUniqueStation /\ Disjoint /\ AllAssigned
        /\ phase' = "ready"
        /\ UNCHANGED <<stations, cuts, incumbent, solution, failure>>

ForgetTour ==   \* a slip: the flag keeps its old value
  /\ solution_tour' = {}
  /\ solution_value' = 0
  /\ UNCHANGED solution_found

MarkNoSolution ==   \* a slip: a mark that is no length
  /\ solution_found' = FALSE
  /\ solution_value' = -1
  /\ solution_tour' = {}

ResetSolution ==
  /\ solution_found' = FALSE
  /\ solution_value' = 0
  /\ solution_tour' = {}

(* solve() may be called again, after a result and after an exception. *)
Solve ==
  /\ phase \in {"ready", "found", "failed"}
  /\ phase' = "solving"
  /\ ResetSolution
  /\ cuts' = {}
  /\ incumbent' = {}
  /\ failure' = "none"
  /\ UNCHANGED stations

(* CPLEX has found an integral candidate and asks for violated rows.       *)
LazyCallback ==
  /\ phase = "solving"
  /\ \E x \in Remaining : \E Cs \in {Components(x)} :
       \E num \in Numberings(Cs) : \E rows \in {NewRows(x, Cs, num)} :
         /\ cuts' = cuts \cup rows
         /\ incumbent' = NextIncumbent(x, rows)
  /\ UNCHANGED <<stations, phase, solution, failure>>

SolveGoesOn(error) ==   \* a slip: the exception is caught and forgotten
  /\ failure' = error
  /\ UNCHANGED <<stations, phase, cuts, incumbent, solution_found, solution_tour>>

SolveThrows(error) ==
  /\ phase' = "failed"
  /\ failure' = error
  /\ UNCHANGED <<stations, cuts, incumbent, solution_found, solution_tour>>

(* The search is over without an incumbent: "No optimal solution found". *)
CplexInfeasible ==
  /\ phase = "solving"
  /\ Remaining = {}
  /\ incumbent = {}
  /\ SolveThrows("infeasible")
  /\ UNCHANGED solution_value

(* CPLEX stops early, raises an exception, or its candidate is not binary  *)
(* within the tolerance, so that getSelectedEdges throws in the callback.  *)
CplexFails ==
  /\ phase = "solving"
  /\ \E error \in {"not optimal", "CPLEX exception", "not binary"} :
       SolveThrows(error)
  /\ UNCHANGED solution_value

(* Optimal: the value of the objective is stored before the tour is built. *)
CplexOptimal ==
  /\ phase = "solving"
  /\ Remaining = {}
  /\ \E x \in incumbent : solution_value' = Cost(x)
  /\ phase' = "building"
  /\ UNCHANGED <<stations, cuts, incumbent, solution_found, solution_tour,
                 failure>>

(* buildSolutionTour starts at the source of the first selected arc.  The  *)
(* Euler search from there returns the arcs of that component (module      *)
(* Euler), and a tour shorter than the selection is an exception.          *)
EulerTour(x, start) == {a \in x : Source[a] \in ComponentOf(x, start)}

AnyTour(x, tour) == tour # {}   \* a slip: the test for sub tours is missing

(* selected_arcs is the size of the Euler tour: no sub tours. *)
NoArcIsLeft(x, tour) == Cardinality(x) = Cardinality(tour)

BuildSolutionTour ==
  /\ phase = "building"
  /\ \E x \in incumbent : \E first \in x :
       LET tour == EulerTour(x, Source[first]) IN
       IF NoArcIsLeft(x, tour)
       THEN /\ phase' = "found"
            /\ solution_found' = TRUE
            /\ solution_tour' = tour
            /\ UNCHANGED <<stations, cuts, incumbent, solution_value, failure>>
       ELSE /\ SolveThrows("sub tours")
            /\ UNCHANGED solution_value

SolverStep ==
  CplexFails \/ BuildSolutionTour \/ CplexOptimal \/ CplexInfeasible \/ LazyCallback

Next == Construct \/ Solve \/ SolverStep

(* The program is one thread that runs solve() to its end once it is       *)
(* called; nothing makes a caller call it.                                 *)
Spec == Init /\ [][Next]_vars /\ WF_vars(SolverStep)

-----------------------------------------------------------------------------
(* The properties. *)

(* The solutions asked for: closed walks that visit every station. *)
Tours ==
  {x \in ClosedWalks :
     \A s \in DOMAIN stations : NodesOf(x) \cap stations[s] # {}}

ShorterTour(x, y) == Cost(x) < Cost(y)

Accepted == phase \in {"ready", "solving", "building", "found", "failed"}

(* Rows and tours are sets of arcs, there is at most one incumbent, and the *)
(* value is the length of some balanced selection or zero.                  *)
TypeOK ==
  /\ stations \in StationMaps
  /\ phase \in Phases
  /\ cuts \subseteq SUBSET Arc
  /\ incumbent \subseteq Circulation /\ \A x, y \in incumbent : x = y
  /\ solution_found \in BOOLEAN
  /\ solution_value \in {0} \cup {Cost(x) : x \in Circulation}
  /\ solution_tour \in SUBSET Arc
  /\ failure \in {"none"} \cup InputErrors \cup SolveErrors

(* The rows of the model and all rows the callback ever adds are valid: no *)
(* tour of the whole problem is lost, whichever candidates CPLEX proposes  *)
(* and however the components are numbered (createDeaggregatedCut).        *)
CutsKeepTours ==
  Accepted => \A x \in Tours : LeavesEveryStation(x) /\ Satisfies(x, cuts)

(* Every row that the callback derives for a candidate is violated by that *)
(* candidate, so a candidate is accepted or never proposed again.          *)
RowsCutOffCandidate ==
  phase = "solving" =>
    \A x \in Remaining : \A Cs \in {Components(x)} :
      \A num \in Numberings(Cs) :
        \A row \in NewRows(x, Cs, num) : row \cap x = {}

(* The two assertions of the callback: a candidate has a component at      *)
(* every station, and one that some station has for itself.                *)
CallbackAssertions ==
  phase = "solving" =>
    \A x \in Remaining : \A Cs \in {Components(x)} :
      /\ \A s \in DOMAIN stations : ComponentsAt(Cs, s) # {}
      /\ Exclusive(Cs) # {}

(* A result that the getters hand out is a tour, it is an optimal one, and *)
(* the value next to it is its length, after any number of calls.          *)
SolutionIsOptimalTour ==
  solution_found =>
    /\ solution_tour \in Tours
    /\ \A y \in Tours : ~ShorterTour(y, solution_tour)
    /\ solution_value = Cost(solution_tour)

(* When the search ends without an incumbent there is no tour. *)
InfeasibleIsRight == failure = "infeasible" => Tours = {}

(* What the comment in the callback says: with one exclusive component     *)
(* there is one tour that visits every station.  Then building the tour    *)
(* from an optimal solution never finds that the solution has sub tours.   *)
NoSubTours == Tours # {} => failure # "sub tours"

(* Every call of solve() comes to an end. *)
SolveEnds == phase = "solving" ~> phase \in {"found", "failed"}

(* The solver implements the abstract promise. *)
Status ==
  CASE phase \in {"new", "invalid", "ready"} -> "idle"
    [] phase \in {"solving", "building"} -> "busy"
    [] phase = "found" -> "answered"
    [] phase = "failed" ->
         IF failure = "infeasible" THEN "infeasible" ELSE "error"

Problem == INSTANCE TourProblem WITH
  Shorter <- ShorterTour, NoAnswer <- {},
  tours <- Tours, status <- Status, answer <- solution_tour

(* Every call gets an optimal tour or an exception, and "infeasible" only  *)
(* when there is no tour.                                                  *)
ImplementsTourProblem == Problem!TourSpec
=============================================================================
