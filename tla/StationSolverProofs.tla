------------------------ MODULE StationSolverProofs ------------------------
(***************************************************************************)
(* What holds of the station solver for every network, every map of        *)
(* stations, every order of the candidates and every numbering of the      *)
(* components.                                                             *)
(*                                                                         *)
(* The argument: the rows of the callback never cut off a tour of the      *)
(* problem, so when CPLEX has no candidate left that is shorter than the   *)
(* incumbent, no tour is shorter; and an incumbent from which a tour of    *)
(* all its arcs was built is itself a tour.                                *)
(***************************************************************************)
EXTENDS StationSolver, NetworkTheorems

ValidInput == HasUniqueStation /\ Disjoint /\ AllAssigned

StationsType == stations \in [DOMAIN stations -> SUBSET Node]

(* A map of stations gives a set of nodes for each station. *)
LEMMA MapsOfStations == stations \in StationMaps => StationsType
BY StationMapsAssumption DEF StationsType

-----------------------------------------------------------------------------
(* The rows of the model keep all tours.  There are two stations at least, *)
(* because an arc enters the unique one from outside.                      *)
LEMMA AnotherStation ==
  ASSUME StationsType, ValidInput, NEW s \in DOMAIN stations
  PROVE  \E t \in DOMAIN stations : t # s
<1>1. PICK u \in DOMAIN stations : Unique(u)
  BY DEF ValidInput, HasUniqueStation
<1>2. NonStationInEdges(stations[u]) # {}
  BY <1>1, FS_EmptySet DEF Unique
<1>3. PICK a \in Arc : Source[a] \notin stations[u]
  BY <1>2 DEF NonStationInEdges, Entering
<1>4. Source[a] \in Node
  BY NetworkAssumption
<1>5. \E t \in DOMAIN stations : Source[a] \in stations[t]
  BY <1>4 DEF ValidInput, AllAssigned
<1> QED
  BY <1>3, <1>5

(* A tour leaves every station, which createCplexModel asks for. *)
LEMMA ToursLeaveStations ==
  ASSUME StationsType, ValidInput, NEW x \in Tours
  PROVE  LeavesEveryStation(x)
<1> SUFFICES ASSUME NEW s \in DOMAIN stations
             PROVE  Leaving(x, stations[s]) # {}
  BY DEF LeavesEveryStation
<1>1. PICK t \in DOMAIN stations : t # s
  BY AnotherStation
<1>2. /\ x \in ClosedWalks
      /\ NodesOf(x) \cap stations[s] # {} /\ NodesOf(x) \cap stations[t] # {}
  BY DEF Tours
<1>3. stations[s] \cap stations[t] = {} /\ stations[s] \in SUBSET Node
  BY <1>1 DEF ValidInput, Disjoint, StationsType
<1> QED
  BY <1>2, <1>3, WalksCross

-----------------------------------------------------------------------------
(* The rows of the callback. *)

(* A node that is the only component's at its station, or unused there,    *)
(* belongs to the side of that component: getComponent's derived number.   *)
LEMMA FirstOfOne ==
  ASSUME NEW Cs, NEW num \in Numberings(Cs), NEW t, NEW D \in Cs,
         ComponentsAt(Cs, t) = {D}
  PROVE  FirstAt(Cs, num, t) = D
<1>1. num \in [Cs -> 0..(Cardinality(Cs) - 1)]
  BY DEF Numberings, Bijection, Injection
<1>2. num[D] <= num[D]
  BY <1>1
<1>3. \A C \in {D} : (\A E \in {D} : num[C] <= num[E]) => C = D
  OBVIOUS
<1> QED
  BY <1>2, <1>3 DEF FirstAt

(* Stations are disjoint and cover the graph: getStation is a function. *)
LEMMA StationOfNode ==
  ASSUME StationsType, ValidInput,
         NEW t \in DOMAIN stations, NEW n \in stations[t]
  PROVE  StationOf(n) = t
BY DEF StationOf, ValidInput, Disjoint

(* All nodes of a station that only the component D visits are on the      *)
(* side of D and on no other side.                                         *)
LEMMA SideOfExclusiveStation ==
  ASSUME StationsType, ValidInput, NEW y \in SUBSET Arc,
         NEW num \in Numberings(Components(y)),
         NEW t \in DOMAIN stations, NEW D \in Components(y),
         ComponentsAt(Components(y), t) = {D},
         NEW C \in Components(y), NEW n \in stations[t]
  PROVE  n \in Side(y, Components(y), num, C) <=> C = D
<1>1. n \in Node
  BY DEF StationsType
<1>2. n \in C => C = D
  BY DEF ComponentsAt
<1>3. CASE n \in NodesOf(y)
  <2>1. PICK E \in Components(y) : n \in E
    BY <1>3, ComponentsCover
  <2>2. E = D
    BY <2>1 DEF ComponentsAt
  <2> QED
    BY <1>2, <1>3, <2>1, <2>2 DEF Side
<1>4. CASE n \notin NodesOf(y)
  <2>1. n \notin C
    BY <1>4 DEF Components
  <2>2. FirstAt(Components(y), num, StationOf(n)) = D
    BY StationOfNode, FirstOfOne
  <2> QED
    BY <1>1, <1>4, <2>1, <2>2 DEF Side
<1> QED
  BY <1>3, <1>4

(* The side of a component is a set of nodes. *)
LEMMA SideType ==
  ASSUME NEW y \in SUBSET Arc, NEW num, NEW C \in Components(y)
  PROVE  Side(y, Components(y), num, C) \in SUBSET Node
BY NodesOfSelection DEF Side, Components

(* No tour is cut off by the rows for any candidate. *)
THEOREM RowsKeepTours ==
  ASSUME StationsType, ValidInput, NEW x \in Tours, NEW y \in SUBSET Arc,
         NEW num \in Numberings(Components(y))
  PROVE  Satisfies(x, NewRows(y, Components(y), num))
<1> DEFINE Cs == Components(y)
<1> SUFFICES ASSUME NEW C \in Exclusive(Cs), Exclusive(Cs) # {C},
                    NEW row \in Rows(Side(y, Cs, num, C))
             PROVE  row \cap x # {}
  <2>1. Exclusive(Cs) \subseteq Cs
    BY DEF Exclusive
  <2> QED
    BY <2>1 DEF Satisfies, NewRows
<1>1. PICK D \in Exclusive(Cs) : D # C
  OBVIOUS
<1>2. C \in Cs /\ D \in Cs
  BY DEF Exclusive
<1>3. PICK s \in DOMAIN stations : ComponentsAt(Cs, s) = {C}
  BY DEF Exclusive
<1>4. PICK t \in DOMAIN stations : ComponentsAt(Cs, t) = {D}
  BY DEF Exclusive
<1> DEFINE W == Side(y, Cs, num, C)
<1>5. W \in SUBSET Node
  BY <1>2, SideType
<1>6. \A n \in stations[s] : n \in W
  BY <1>2, <1>3, SideOfExclusiveStation
<1>7. \A n \in stations[t] : n \notin W
  BY <1>1, <1>2, <1>4, SideOfExclusiveStation
<1>8. /\ x \in ClosedWalks
      /\ NodesOf(x) \cap stations[s] # {} /\ NodesOf(x) \cap stations[t] # {}
  BY DEF Tours
<1> HIDE DEF W
<1>9. Leaving(x, W) # {} /\ Entering(x, W) # {}
  <2>1. NodesOf(x) \cap W # {} /\ NodesOf(x) \ W # {}
    BY <1>6, <1>7, <1>8
  <2> QED
    BY <1>5, <1>8, <2>1, WalksCross
<1>10. x \subseteq Arc
  BY <1>8 DEF ClosedWalks, Circulation
<1> QED
  BY <1>9, <1>10 DEF W, Rows, Leaving, Entering

(* The candidate itself satisfies none of its rows. *)
THEOREM RowsCutCandidate ==
  ASSUME NEW y \in SUBSET Arc, NEW num,
         NEW row \in NewRows(y, Components(y), num)
  PROVE  row \cap y = {}
<1> DEFINE Cs == Components(y)
<1>1. PICK C \in Exclusive(Cs) : row \in Rows(Side(y, Cs, num, C))
  BY DEF NewRows
<1>2. C \in Cs
  BY DEF Exclusive
<1>3. IsClosed(y, C)
  BY <1>2 DEF Components
<1>4. \A a \in y : Source[a] \in NodesOf(y) /\ Target[a] \in NodesOf(y)
  BY DEF NodesOf
<1>5. \A a \in y : Source[a] \in Side(y, Cs, num, C)
                   <=> Target[a] \in Side(y, Cs, num, C)
  BY <1>3, <1>4 DEF Side, IsClosed
<1> QED
  BY <1>1, <1>5 DEF Rows, Leaving, Entering

(* The rows of a candidate are sets of arcs. *)
LEMMA RowsType ==
  ASSUME NEW y \in SUBSET Arc, NEW num
  PROVE  NewRows(y, Components(y), num) \subseteq SUBSET Arc
BY DEF NewRows, Rows, Leaving, Entering

(* A candidate becomes the incumbent, or the incumbent stays. *)
LEMMA NextIncumbentType ==
  ASSUME NEW x, NEW rows
  PROVE  NextIncumbent(x, rows) \in {{x}, incumbent}
BY DEF NextIncumbent

-----------------------------------------------------------------------------
(* Building the tour. *)

(* A candidate all of whose arcs the Euler search returns is connected. *)
LEMMA BuiltTourIsConnected ==
  ASSUME NEW x \in SUBSET Arc, NEW a \in x,
         NoArcIsLeft(x, EulerTour(x, Source[a]))
  PROVE  EulerTour(x, Source[a]) = x /\ Connected(x)
<1> DEFINE tour == EulerTour(x, Source[a])
<1>1. tour \subseteq x /\ IsFiniteSet(x)
  BY SelectionsAreFinite DEF EulerTour
<1>2. tour = x
  <2> HIDE DEF tour
  <2>1. Cardinality(x) = Cardinality(tour)
    BY DEF NoArcIsLeft, tour
  <2> QED
    BY <1>1, <2>1, FS_Subset
<1>3. Source[a] \in NodesOf(x)
  BY DEF NodesOf
<1>4. \A b \in x : Source[b] \in ComponentOf(x, Source[a])
  BY <1>2 DEF EulerTour
<1> QED
  BY <1>2, <1>3, <1>4, OneComponentConnected

-----------------------------------------------------------------------------
(* The inductive invariant. *)

ConstructorChecked == Accepted => ValidInput

NoRowsYet == phase = "new" => cuts = {}

IncumbentIsCandidate == \A x \in incumbent : LeavesEveryStation(x)

(* While the tour is built, the search for the best candidate is over. *)
SearchIsOver ==
  phase = "building" =>
    /\ Remaining = {}
    /\ \A x \in incumbent : solution_value = Cost(x)

ResultOnlyWhenFound ==
  /\ solution_found <=> phase = "found"
  /\ ~solution_found => solution_tour = {}

FailureOnlyWhenFailed == failure = "infeasible" => phase = "failed"

IInv ==
  /\ TypeOK
  /\ ConstructorChecked
  /\ NoRowsYet
  /\ CutsKeepTours
  /\ IncumbentIsCandidate
  /\ SearchIsOver
  /\ ResultOnlyWhenFound
  /\ FailureOnlyWhenFailed
  /\ SolutionIsOptimalTour
  /\ InfeasibleIsRight

(* What the parts of the invariant are about when no action touches it. *)
LEMMA StationsFixed ==
  ASSUME UNCHANGED stations
  PROVE  /\ Tours' = Tours
         /\ ValidInput' = ValidInput
         /\ \A x : LeavesEveryStation(x)' = LeavesEveryStation(x)
BY DEF Tours, ValidInput, HasUniqueStation, Unique, NonStationInEdges, Disjoint,
       AllAssigned, LeavesEveryStation

(* The candidates left depend on the stations, the rows and the incumbent. *)
LEMMA RemainingFixed ==
  ASSUME UNCHANGED <<stations, cuts, incumbent>>
  PROVE  Remaining' = Remaining
BY DEF Remaining, LeavesEveryStation, Satisfies

(* A closed walk that leaves every station visits every station. *)
LEMMA CandidateIsTour ==
  ASSUME NEW x \in Circulation, Connected(x), LeavesEveryStation(x)
  PROVE  x \in Tours
<1>1. x \in ClosedWalks
  BY DEF ClosedWalks
<1>2. ASSUME NEW s \in DOMAIN stations PROVE NodesOf(x) \cap stations[s] # {}
  BY DEF LeavesEveryStation, Leaving, NodesOf
<1> QED
  BY <1>1, <1>2 DEF Tours

(* The invariant holds before the constructor runs. *)
LEMMA InitInvariant == Init => IInv
<1> SUFFICES ASSUME Init PROVE IInv
  OBVIOUS
<1> USE DEF Init
<1>1. TypeOK
  BY DEF TypeOK, Phases
<1>2. ConstructorChecked /\ CutsKeepTours
  BY DEF ConstructorChecked, CutsKeepTours, Accepted
<1>3. NoRowsYet /\ IncumbentIsCandidate /\ SearchIsOver
  BY DEF NoRowsYet, IncumbentIsCandidate, SearchIsOver
<1>4. ResultOnlyWhenFound /\ FailureOnlyWhenFailed
  BY DEF ResultOnlyWhenFound, FailureOnlyWhenFailed
<1>5. SolutionIsOptimalTour /\ InfeasibleIsRight
  BY DEF SolutionIsOptimalTour, InfeasibleIsRight
<1> QED
  BY <1>1, <1>2, <1>3, <1>4, <1>5 DEF IInv

(* The parts about the search that any step keeps that leaves the stations,*)
(* the rows and the incumbent alone and builds no solver from new input.   *)
LEMMA SearchDataKept ==
  ASSUME IInv, UNCHANGED <<stations, cuts, incumbent>>,
         phase # "new", phase' # "new", Accepted' => Accepted
  PROVE  /\ ConstructorChecked' /\ NoRowsYet' /\ CutsKeepTours'
         /\ IncumbentIsCandidate'
         /\ Tours' = Tours /\ Remaining' = Remaining
<1>1. /\ Tours' = Tours /\ ValidInput' = ValidInput
      /\ \A x : LeavesEveryStation(x)' = LeavesEveryStation(x)
  BY StationsFixed
<1>2. Remaining' = Remaining
  BY RemainingFixed
<1>3. ConstructorChecked'
  BY <1>1 DEF IInv, ConstructorChecked
<1>4. NoRowsYet'
  BY DEF NoRowsYet
<1>5. CutsKeepTours'
  BY <1>1 DEF IInv, CutsKeepTours, Satisfies
<1>6. IncumbentIsCandidate'
  BY <1>1 DEF IInv, IncumbentIsCandidate
<1> QED
  BY <1>1, <1>2, <1>3, <1>4, <1>5, <1>6

(* The constructor. *)
LEMMA ConstructStep == IInv /\ Construct => IInv'
<1> SUFFICES ASSUME IInv, Construct PROVE IInv'
  OBVIOUS
<1>1. UNCHANGED <<stations, cuts, incumbent, solution_found, solution_value,
                  solution_tour>>
  BY DEF Construct, InvalidInput, solution
<1>2. \/ phase' = "ready" /\ ValidInput /\ UNCHANGED failure
      \/ phase' = "invalid" /\ failure' \in InputErrors
  BY DEF Construct, InvalidInput, ValidInput, InputErrors
<1>3. /\ Tours' = Tours /\ ValidInput' = ValidInput
      /\ \A x : LeavesEveryStation(x)' = LeavesEveryStation(x)
  BY <1>1, StationsFixed
<1>4. phase = "new"
  BY DEF Construct
<1>5. TypeOK'
  BY <1>1, <1>2 DEF IInv, TypeOK, Phases, InputErrors, SolveErrors
<1>6. ConstructorChecked' /\ NoRowsYet'
  BY <1>2, <1>3 DEF ConstructorChecked, Accepted, NoRowsYet
<1>7. CutsKeepTours'
  <2>1. CASE phase' = "ready"
    <3>1. ValidInput /\ StationsType
      BY <1>2, <2>1, MapsOfStations DEF IInv, TypeOK
    <3>2. \A x \in Tours : LeavesEveryStation(x)
      BY <3>1, ToursLeaveStations
    <3>3. cuts' = {}
      BY <1>1, <1>4 DEF IInv, NoRowsYet
    <3> QED
      BY <1>3, <3>2, <3>3 DEF CutsKeepTours, Satisfies
  <2>2. CASE phase' = "invalid"
    BY <2>2 DEF CutsKeepTours, Accepted
  <2> QED
    BY <1>2, <2>1, <2>2
<1>8. IncumbentIsCandidate'
  BY <1>1, <1>3 DEF IInv, IncumbentIsCandidate
<1>9. SearchIsOver' /\ ResultOnlyWhenFound' /\ FailureOnlyWhenFailed'
  BY <1>1, <1>2, <1>4
     DEF IInv, SearchIsOver, ResultOnlyWhenFound, FailureOnlyWhenFailed, InputErrors
<1>10. SolutionIsOptimalTour' /\ InfeasibleIsRight'
  BY <1>1, <1>2, <1>3, <1>4
     DEF IInv, SolutionIsOptimalTour, InfeasibleIsRight, ResultOnlyWhenFound,
         FailureOnlyWhenFailed, InputErrors
<1> QED
  BY <1>5, <1>6, <1>7, <1>8, <1>9, <1>10 DEF IInv

(* A new call of solve() forgets the rows and the result of the last one.  *)
LEMMA SolveStep == IInv /\ Solve => IInv'
<1> SUFFICES ASSUME IInv, Solve PROVE IInv'
  OBVIOUS
<1> USE DEF Solve, ResetSolution
<1>1. /\ Tours' = Tours /\ ValidInput' = ValidInput
      /\ \A x : LeavesEveryStation(x)' = LeavesEveryStation(x)
  BY StationsFixed
<1>2. TypeOK'
  BY DEF IInv, TypeOK, Phases
<1>3. Accepted
  BY DEF Accepted
<1>4. ConstructorChecked' /\ NoRowsYet'
  BY <1>1, <1>3 DEF IInv, ConstructorChecked, NoRowsYet
<1>5. CutsKeepTours'
  BY <1>1, <1>3 DEF IInv, CutsKeepTours, Satisfies
<1>6. IncumbentIsCandidate' /\ SearchIsOver'
  BY DEF IncumbentIsCandidate, SearchIsOver
<1>7. ResultOnlyWhenFound' /\ FailureOnlyWhenFailed'
  BY DEF ResultOnlyWhenFound, FailureOnlyWhenFailed
<1>8. SolutionIsOptimalTour' /\ InfeasibleIsRight'
  BY DEF SolutionIsOptimalTour, InfeasibleIsRight
<1> QED
  BY <1>2, <1>4, <1>5, <1>6, <1>7, <1>8 DEF IInv

(* A callback adds rows that keep all tours. *)
LEMMA LazyCallbackStep == IInv /\ LazyCallback => IInv'
<1> SUFFICES ASSUME IInv, LazyCallback PROVE IInv'
  OBVIOUS
<1>0. PICK y \in Remaining : \E num \in Numberings(Components(y)) :
        /\ cuts' = cuts \cup NewRows(y, Components(y), num)
        /\ incumbent' = NextIncumbent(y, NewRows(y, Components(y), num))
  BY DEF LazyCallback
<1>1. PICK num \in Numberings(Components(y)) :
        /\ cuts' = cuts \cup NewRows(y, Components(y), num)
        /\ incumbent' = NextIncumbent(y, NewRows(y, Components(y), num))
  BY <1>0
<1>2. /\ phase = "solving"
      /\ UNCHANGED <<stations, phase, solution_found, solution_value,
                     solution_tour, failure>>
  BY DEF LazyCallback, solution
<1>3. y \in Circulation /\ y \in SUBSET Arc /\ LeavesEveryStation(y)
  BY DEF Remaining, Circulation
<1>4. incumbent' \in {{y}, incumbent}
  BY <1>1, NextIncumbentType
<1>5. /\ Tours' = Tours /\ ValidInput' = ValidInput
      /\ \A x : LeavesEveryStation(x)' = LeavesEveryStation(x)
  BY <1>2, StationsFixed
<1>6. Accepted /\ ValidInput /\ StationsType
  BY <1>2, MapsOfStations DEF IInv, TypeOK, ConstructorChecked, Accepted
<1>7. TypeOK'
  <2>1. cuts' \subseteq SUBSET Arc
    BY <1>1, <1>3, RowsType DEF IInv, TypeOK
  <2>2. incumbent' \subseteq Circulation /\ \A x, z \in incumbent' : x = z
    BY <1>3, <1>4 DEF IInv, TypeOK
  <2> QED
    BY <1>2, <2>1, <2>2 DEF IInv, TypeOK
<1>8. ConstructorChecked' /\ NoRowsYet'
  BY <1>2, <1>5, <1>6 DEF ConstructorChecked, NoRowsYet
<1>9. CutsKeepTours'
  <2>1. ASSUME NEW x \in Tours
        PROVE  LeavesEveryStation(x) /\ Satisfies(x, cuts')
    <3>1. LeavesEveryStation(x) /\ Satisfies(x, cuts)
      BY <1>6 DEF IInv, CutsKeepTours
    <3>2. Satisfies(x, NewRows(y, Components(y), num))
      BY <1>3, <1>6, RowsKeepTours
    <3> QED
      BY <1>1, <3>1, <3>2 DEF Satisfies
  <2> QED
    BY <1>5, <2>1 DEF CutsKeepTours, Satisfies
<1>10. IncumbentIsCandidate'
  BY <1>3, <1>4, <1>5 DEF IInv, IncumbentIsCandidate
<1>11. SearchIsOver' /\ ResultOnlyWhenFound' /\ FailureOnlyWhenFailed'
  BY <1>2 DEF IInv, SearchIsOver, ResultOnlyWhenFound, FailureOnlyWhenFailed
<1>12. SolutionIsOptimalTour' /\ InfeasibleIsRight'
  BY <1>2, <1>5 DEF IInv, SolutionIsOptimalTour, InfeasibleIsRight,
                    ResultOnlyWhenFound, FailureOnlyWhenFailed
<1> QED
  BY <1>7, <1>8, <1>9, <1>10, <1>11, <1>12 DEF IInv

(* A call that throws: only "infeasible" says something about the tours.   *)
LEMMA ThrowStep ==
  ASSUME IInv, NEW error \in SolveErrors, SolveThrows(error),
         phase \in {"solving", "building"},
         solution_value' \in {0} \cup {Cost(x) : x \in Circulation},
         error = "infeasible" => Tours = {}
  PROVE  IInv'
<1>1. /\ phase' = "failed" /\ failure' = error
      /\ UNCHANGED <<stations, cuts, incumbent, solution_found, solution_tour>>
  BY DEF SolveThrows
<1>2. TypeOK'
  BY <1>1 DEF IInv, TypeOK, Phases
<1>3. Accepted
  BY DEF Accepted
<1>4. /\ ConstructorChecked' /\ NoRowsYet' /\ CutsKeepTours'
      /\ IncumbentIsCandidate' /\ Tours' = Tours
  BY <1>1, <1>3, SearchDataKept
<1>5. SearchIsOver' /\ ResultOnlyWhenFound' /\ FailureOnlyWhenFailed'
  BY <1>1 DEF IInv, SearchIsOver, ResultOnlyWhenFound, FailureOnlyWhenFailed
<1>6. SolutionIsOptimalTour' /\ InfeasibleIsRight'
  BY <1>1, <1>4 DEF IInv, SolutionIsOptimalTour, InfeasibleIsRight,
                    ResultOnlyWhenFound
<1> QED
  BY <1>2, <1>4, <1>5, <1>6 DEF IInv

(* With no candidate left and none accepted there is no tour. *)
LEMMA InfeasibleStep == IInv /\ CplexInfeasible => IInv'
<1> SUFFICES ASSUME IInv, CplexInfeasible PROVE IInv'
  OBVIOUS
<1>1. /\ phase = "solving" /\ Remaining = {} /\ incumbent = {}
      /\ SolveThrows("infeasible") /\ UNCHANGED solution_value
  BY DEF CplexInfeasible
<1>2. ASSUME NEW x \in Tours PROVE FALSE
  <2>1. LeavesEveryStation(x) /\ Satisfies(x, cuts)
    BY <1>1 DEF IInv, CutsKeepTours, Accepted
  <2>2. x \in Circulation
    BY DEF Tours, ClosedWalks
  <2> QED
    BY <1>1, <2>1, <2>2 DEF Remaining
<1>3. solution_value' \in {0} \cup {Cost(x) : x \in Circulation}
  BY <1>1 DEF IInv, TypeOK
<1>4. "infeasible" \in SolveErrors
  BY DEF SolveErrors
<1> QED
  BY <1>1, <1>2, <1>3, <1>4, ThrowStep

(* An early end of CPLEX keeps the invariant. *)
LEMMA FailsStep == IInv /\ CplexFails => IInv'
<1> SUFFICES ASSUME IInv, CplexFails PROVE IInv'
  OBVIOUS
<1>1. PICK error \in {"not optimal", "CPLEX exception", "not binary"} :
        phase = "solving" /\ SolveThrows(error) /\ UNCHANGED solution_value
  BY DEF CplexFails
<1>2. error \in SolveErrors /\ error # "infeasible"
  BY DEF SolveErrors
<1>3. solution_value' \in {0} \cup {Cost(x) : x \in Circulation}
  BY <1>1 DEF IInv, TypeOK
<1> QED
  BY <1>1, <1>2, <1>3, ThrowStep

(* The end of the search. *)
LEMMA OptimalStep == IInv /\ CplexOptimal => IInv'
<1> SUFFICES ASSUME IInv, CplexOptimal PROVE IInv'
  OBVIOUS
<1>1. /\ phase = "solving" /\ phase' = "building" /\ Remaining = {}
      /\ UNCHANGED <<stations, cuts, incumbent, solution_found, solution_tour,
                     failure>>
  BY DEF CplexOptimal
<1>2. PICK x \in incumbent : solution_value' = Cost(x)
  BY DEF CplexOptimal
<1>3. x \in Circulation /\ \A y \in incumbent : y = x
  BY <1>2 DEF IInv, TypeOK
<1>4. TypeOK'
  BY <1>1, <1>2, <1>3 DEF IInv, TypeOK, Phases
<1>5. Accepted
  BY <1>1 DEF Accepted
<1>6. /\ ConstructorChecked' /\ NoRowsYet' /\ CutsKeepTours'
      /\ IncumbentIsCandidate' /\ Tours' = Tours /\ Remaining' = Remaining
  BY <1>1, <1>5, SearchDataKept
<1>7. SearchIsOver'
  BY <1>1, <1>2, <1>3, <1>6 DEF SearchIsOver
<1>8. ResultOnlyWhenFound' /\ FailureOnlyWhenFailed'
  BY <1>1 DEF IInv, ResultOnlyWhenFound, FailureOnlyWhenFailed
<1>9. SolutionIsOptimalTour' /\ InfeasibleIsRight'
  BY <1>1, <1>6 DEF IInv, SolutionIsOptimalTour, InfeasibleIsRight,
                    ResultOnlyWhenFound
<1> QED
  BY <1>4, <1>6, <1>7, <1>8, <1>9 DEF IInv

(* No tour is shorter than an incumbent when no candidate is left. *)
LEMMA NothingShorter ==
  ASSUME IInv, Accepted, Remaining = {}, NEW x \in incumbent, NEW y \in Tours
  PROVE  ~ShorterTour(y, x)
<1>1. LeavesEveryStation(y) /\ Satisfies(y, cuts)
  BY DEF IInv, CutsKeepTours
<1>2. y \in Circulation
  BY DEF Tours, ClosedWalks
<1>3. \A z \in incumbent : z = x
  BY DEF IInv, TypeOK
<1>4. SUFFICES ASSUME Cost(y) < Cost(x) PROVE FALSE
  BY DEF ShorterTour
<1>5. y \in Remaining
  BY <1>1, <1>2, <1>3, <1>4 DEF Remaining
<1> QED
  BY <1>5

(* Building the tour keeps the invariant: the incumbent becomes the result. *)
LEMMA BuildStep == IInv /\ BuildSolutionTour => IInv'
<1> SUFFICES ASSUME IInv, BuildSolutionTour PROVE IInv'
  OBVIOUS
<1> DEFINE tour(x, a) == EulerTour(x, Source[a])
<1>0. PICK x \in incumbent : \E first \in x :
        IF NoArcIsLeft(x, tour(x, first))
        THEN /\ phase' = "found"
             /\ solution_found' = TRUE
             /\ solution_tour' = tour(x, first)
             /\ UNCHANGED <<stations, cuts, incumbent, solution_value, failure>>
        ELSE SolveThrows("sub tours") /\ UNCHANGED solution_value
  BY DEF BuildSolutionTour
<1>1. PICK a \in x :
        IF NoArcIsLeft(x, tour(x, a))
        THEN /\ phase' = "found"
             /\ solution_found' = TRUE
             /\ solution_tour' = tour(x, a)
             /\ UNCHANGED <<stations, cuts, incumbent, solution_value, failure>>
        ELSE SolveThrows("sub tours") /\ UNCHANGED solution_value
  BY <1>0
<1>2. phase = "building" /\ Accepted /\ Remaining = {}
  BY DEF BuildSolutionTour, Accepted, IInv, SearchIsOver
<1>3. x \in Circulation /\ x \in SUBSET Arc /\ LeavesEveryStation(x)
  BY DEF IInv, TypeOK, IncumbentIsCandidate, Circulation
<1>4. CASE NoArcIsLeft(x, tour(x, a))
  <2>1. tour(x, a) = x /\ Connected(x)
    BY <1>1, <1>3, <1>4, BuiltTourIsConnected
  <2>2. /\ phase' = "found" /\ solution_found' = TRUE /\ solution_tour' = x
        /\ UNCHANGED <<stations, cuts, incumbent, solution_value, failure>>
    BY <1>1, <1>4, <2>1
  <2>3. /\ ConstructorChecked' /\ NoRowsYet' /\ CutsKeepTours'
        /\ IncumbentIsCandidate' /\ Tours' = Tours
    BY <1>2, <2>2, SearchDataKept
  <2>4. TypeOK'
    BY <1>3, <2>2 DEF IInv, TypeOK, Phases
  <2>5. SearchIsOver' /\ ResultOnlyWhenFound' /\ FailureOnlyWhenFailed'
    BY <1>2, <2>2
       DEF IInv, SearchIsOver, ResultOnlyWhenFound, FailureOnlyWhenFailed
  <2>6. x \in Tours /\ \A y \in Tours : ~ShorterTour(y, x)
    BY <1>2, <1>3, <2>1, CandidateIsTour, NothingShorter
  <2>7. solution_value = Cost(x)
    BY <1>2 DEF IInv, SearchIsOver
  <2>8. SolutionIsOptimalTour'
    BY <2>2, <2>3, <2>6, <2>7 DEF SolutionIsOptimalTour, ShorterTour
  <2>9. InfeasibleIsRight'
    BY <1>2, <2>2, <2>3 DEF IInv, InfeasibleIsRight
  <2> QED
    BY <2>3, <2>4, <2>5, <2>8, <2>9 DEF IInv
<1>5. CASE ~NoArcIsLeft(x, tour(x, a))
  <2>1. SolveThrows("sub tours") /\ UNCHANGED solution_value
    BY <1>1, <1>5
  <2>2. solution_value' \in {0} \cup {Cost(z) : z \in Circulation}
    BY <2>1 DEF IInv, TypeOK
  <2>3. "sub tours" \in SolveErrors
    BY DEF SolveErrors
  <2> QED
    BY <1>2, <2>1, <2>2, <2>3, ThrowStep
<1> QED
  BY <1>4, <1>5

(* A step that changes nothing keeps the invariant. *)
LEMMA StutterStep == IInv /\ UNCHANGED vars => IInv'
<1> SUFFICES ASSUME IInv, UNCHANGED vars PROVE IInv'
  OBVIOUS
<1>1. UNCHANGED <<stations, phase, cuts, incumbent, solution_found,
                  solution_value, solution_tour, failure>>
  BY DEF vars, solution
<1>2. /\ Tours' = Tours /\ ValidInput' = ValidInput
      /\ \A x : LeavesEveryStation(x)' = LeavesEveryStation(x)
  BY <1>1, StationsFixed
<1>3. Remaining' = Remaining
  BY <1>1, RemainingFixed
<1>4. TypeOK' /\ ConstructorChecked' /\ NoRowsYet'
  BY <1>1, <1>2 DEF IInv, TypeOK, ConstructorChecked, Accepted, NoRowsYet
<1>5. CutsKeepTours' /\ IncumbentIsCandidate'
  BY <1>1, <1>2 DEF IInv, CutsKeepTours, Satisfies, Accepted, IncumbentIsCandidate
<1>6. SearchIsOver' /\ ResultOnlyWhenFound' /\ FailureOnlyWhenFailed'
  BY <1>1, <1>3 DEF IInv, SearchIsOver, ResultOnlyWhenFound, FailureOnlyWhenFailed
<1>7. SolutionIsOptimalTour' /\ InfeasibleIsRight'
  BY <1>1, <1>2 DEF IInv, SolutionIsOptimalTour, InfeasibleIsRight, ShorterTour
<1> QED
  BY <1>4, <1>5, <1>6, <1>7 DEF IInv

(* The invariant is inductive. *)
THEOREM Inductive == Spec => []IInv
<1>1. Init => IInv
  BY InitInvariant
<1>2. IInv /\ [Next]_vars => IInv'
  BY ConstructStep, SolveStep, LazyCallbackStep, InfeasibleStep, FailsStep,
     OptimalStep, BuildStep, StutterStep DEF Next, SolverStep
<1> QED
  BY <1>1, <1>2, PTL DEF Spec

-----------------------------------------------------------------------------
(* Type correctness of the solver. *)
THEOREM TypeCorrect == Spec => []TypeOK
<1>1. IInv => TypeOK
  BY DEF IInv
<1> QED
  BY <1>1, Inductive, PTL

(* No row that was ever added cuts off a tour. *)
THEOREM CutsAreValid == Spec => []CutsKeepTours
<1>1. IInv => CutsKeepTours
  BY DEF IInv
<1> QED
  BY <1>1, Inductive, PTL

(* A result is a shortest tour through all stations. *)
THEOREM SolutionsAreOptimal == Spec => []SolutionIsOptimalTour
<1>1. IInv => SolutionIsOptimalTour
  BY DEF IInv
<1> QED
  BY <1>1, Inductive, PTL

(* The report that there is no solution is right when the search is done.  *)
THEOREM InfeasibleMeansNoTour == Spec => []InfeasibleIsRight
<1>1. IInv => InfeasibleIsRight
  BY DEF IInv
<1> QED
  BY <1>1, Inductive, PTL

(* A candidate violates each of its own rows, so it never comes back. *)
THEOREM CandidatesAreCutOff == Spec => []RowsCutOffCandidate
<1>1. RowsCutOffCandidate
  <2>1. Remaining \subseteq SUBSET Arc
    BY DEF Remaining, Circulation
  <2> QED
    BY <2>1, RowsCutCandidate DEF RowsCutOffCandidate
<1> QED
  BY <1>1, PTL

-----------------------------------------------------------------------------
(* The assertions of the callback. *)

(* The arcs of a component. *)
ArcsIn(x, C) == {a \in x : Source[a] \in C}

LEMMA ArcsOfComponent ==
  ASSUME NEW x \in Circulation, NEW C \in Components(x)
  PROVE  /\ ArcsIn(x, C) \in Circulation /\ ArcsIn(x, C) # {}
         /\ \A a \in ArcsIn(x, C) : a \in x /\ Source[a] \in C /\ Target[a] \in C
<1> DEFINE y == ArcsIn(x, C)
<1>1. x \in SUBSET Arc /\ Balanced(x)
  BY DEF Circulation
<1>2. C \subseteq NodesOf(x) /\ C # {} /\ IsClosed(x, C)
  BY DEF Components
<1>3. \A a \in y : a \in x /\ Source[a] \in C /\ Target[a] \in C
  BY <1>2 DEF ArcsIn, IsClosed
<1>4. y # {}
  <2>1. PICK n \in C : TRUE
    BY <1>2
  <2>2. PICK a \in x : Source[a] = n \/ Target[a] = n
    BY <1>2, <2>1 DEF NodesOf
  <2>3. a \in y
    BY <1>2, <2>1, <2>2 DEF ArcsIn, IsClosed
  <2> QED
    BY <2>3
<1>5. Balanced(y)
  <2> SUFFICES ASSUME NEW n \in Node
               PROVE  Cardinality(InArcs(y, n)) = Cardinality(OutArcs(y, n))
    BY DEF Balanced
  <2>1. \A a \in Arc : a \in ArcsTo[n] <=> Target[a] = n
    BY DEF ArcsTo
  <2>2. \A a \in Arc : a \in ArcsFrom[n] <=> Source[a] = n
    BY DEF ArcsFrom
  <2>3. CASE n \in C
    <3>1. \A a \in x : (Source[a] = n \/ Target[a] = n) => a \in y
      BY <1>2, <2>3 DEF ArcsIn, IsClosed
    <3>2. InArcs(y, n) = InArcs(x, n)
      BY <1>1, <1>3, <2>1, <3>1 DEF InArcs
    <3>3. OutArcs(y, n) = OutArcs(x, n)
      BY <1>1, <1>3, <2>2, <3>1 DEF OutArcs
    <3> QED
      BY <1>1, <3>2, <3>3 DEF Balanced
  <2>4. CASE n \notin C
    <3>1. InArcs(y, n) = {}
      BY <1>1, <1>3, <2>1, <2>4 DEF InArcs
    <3>2. OutArcs(y, n) = {}
      BY <1>1, <1>3, <2>2, <2>4 DEF OutArcs
    <3> QED
      BY <3>1, <3>2
  <2> QED
    BY <2>3, <2>4
<1> QED
  BY <1>1, <1>3, <1>4, <1>5 DEF Circulation

(* Two components with a common node are the same. *)
LEMMA ComponentsDisjoint ==
  ASSUME NEW x, NEW C \in Components(x), NEW D \in Components(x), NEW n \in C \cap D
  PROVE  C = D
<1>1. /\ C \subseteq NodesOf(x) /\ IsClosed(x, C) /\ IsClosed(x, D)
      /\ \A W \in SUBSET C : W # {} /\ IsClosed(x, W) => W = C
      /\ \A W \in SUBSET D : W # {} /\ IsClosed(x, W) => W = D
  BY DEF Components
<1>2. C \cap D # {} /\ IsClosed(x, C \cap D)
  BY <1>1, ClosedParts
<1> QED
  BY <1>1, <1>2

(* A component at a station that only the arc e enters takes that arc, or  *)
(* passes its target within the station.                                   *)
LEMMA ComponentTakesEntry ==
  ASSUME StationsType, stations \in StationMaps, NEW s \in DOMAIN stations, NEW e \in Arc,
         Entering(Arc, stations[s]) = {e},
         NEW x \in Circulation, NEW C \in Components(x), C \cap stations[s] # {}
  PROVE  Target[e] \in C
<1> DEFINE S == stations[s]
           y == ArcsIn(x, C)
<1>1. /\ y \in Circulation /\ y # {}
      /\ \A a \in y : a \in x /\ Source[a] \in C /\ Target[a] \in C
  BY ArcsOfComponent
<1>2. y \in SUBSET Arc /\ Balanced(y) /\ S \in SUBSET Node
  BY <1>1 DEF Circulation, StationsType
<1> HIDE DEF y
<1>3. CASE Entering(y, S) # {}
  <2>1. Entering(y, S) \subseteq {e}
    BY <1>2 DEF Entering
  <2>2. e \in y
    BY <1>3, <2>1 DEF Entering
  <2> QED
    BY <1>1, <2>2
<1>4. CASE Entering(y, S) = {}
  <2>1. Leaving(y, S) = {}
    BY <1>2, <1>4, LeavesIffEnters
  <2>2. \A a \in y : Source[a] \in S <=> Target[a] \in S
    BY <1>4, <2>1 DEF Leaving, Entering
  <2>3. IsClosed(x, C \cap S)
    <3> SUFFICES ASSUME NEW a \in x PROVE Source[a] \in C \cap S <=> Target[a] \in C \cap S
      BY DEF IsClosed
    <3>1. Source[a] \in C <=> Target[a] \in C
      BY DEF Components, IsClosed
    <3>2. Source[a] \in C => a \in y
      BY DEF y, ArcsIn
    <3> QED
      BY <2>2, <3>1, <3>2
  <2>4. C \cap S = C
    BY <2>3 DEF Components
  <2>5. PICK a \in y : Source[a] \notin S \/ Target[a] \notin S
                       \/ Target[e] \in {Source[a], Target[a]}
    BY <1>1, TerminalsAssumption
  <2> QED
    BY <1>1, <2>4, <2>5
<1> QED
  BY <1>3, <1>4

(* Every candidate has a component at each station, and at the unique      *)
(* station it has one only: both assertions of the callback hold.          *)
THEOREM AssertionsOfCallback == Spec => []CallbackAssertions
<1>1. IInv => CallbackAssertions
  <2> SUFFICES ASSUME IInv, phase = "solving", NEW x \in Remaining
               PROVE  /\ \A s \in DOMAIN stations : ComponentsAt(Components(x), s) # {}
                      /\ Exclusive(Components(x)) # {}
    BY DEF CallbackAssertions
  <2>1. /\ StationsType /\ stations \in StationMaps /\ HasUniqueStation
    BY MapsOfStations DEF IInv, TypeOK, ConstructorChecked, Accepted, ValidInput
  <2>2. x \in Circulation /\ x \in SUBSET Arc /\ LeavesEveryStation(x)
    BY DEF Remaining, Circulation
  <2>3. ASSUME NEW s \in DOMAIN stations PROVE ComponentsAt(Components(x), s) # {}
    <3>1. PICK a \in x : Source[a] \in stations[s]
      BY <2>2 DEF LeavesEveryStation, Leaving
    <3>2. Source[a] \in NodesOf(x)
      BY DEF NodesOf
    <3>3. PICK C \in Components(x) : Source[a] \in C
      BY <2>2, <3>2, ComponentsCover
    <3> QED
      BY <3>1, <3>3 DEF ComponentsAt
  <2>4. PICK u \in DOMAIN stations : Unique(u)
    BY <2>1 DEF HasUniqueStation
  <2>5. PICK e : Entering(Arc, stations[u]) = {e}
    <3>1. Entering(Arc, stations[u]) \in SUBSET Arc
      BY DEF Entering
    <3>2. IsFiniteSet(Entering(Arc, stations[u]))
      BY <3>1, SelectionsAreFinite
    <3>3. Cardinality(Entering(Arc, stations[u])) = 1
      BY <2>4 DEF Unique, NonStationInEdges
    <3> QED
      BY <3>2, <3>3, FS_Singleton
  <2>6. e \in Arc
    BY <2>5 DEF Entering
  <2>7. PICK C : C \in ComponentsAt(Components(x), u)
    BY <2>3
  <2>8. ComponentsAt(Components(x), u) = {C}
    <3> SUFFICES ASSUME NEW D \in ComponentsAt(Components(x), u) PROVE D = C
      BY <2>7
    <3>1. /\ C \in Components(x) /\ D \in Components(x)
          /\ C \cap stations[u] # {} /\ D \cap stations[u] # {}
      BY <2>7 DEF ComponentsAt
    <3>2. Target[e] \in C /\ Target[e] \in D
      BY <2>1, <2>2, <2>5, <2>6, <3>1, ComponentTakesEntry
    <3> QED
      BY <3>1, <3>2, ComponentsDisjoint
  <2>9. C \in Exclusive(Components(x))
    BY <2>7, <2>8 DEF Exclusive, ComponentsAt
  <2> QED
    BY <2>3, <2>9
<1> QED
  BY <1>1, Inductive, PTL

-----------------------------------------------------------------------------
(* Refinement of the abstract promise, one lemma for every kind of step. *)

(* A call of solve() is a request. *)
LEMMA SolveAsks == Solve => Problem!Ask
<1> SUFFICES ASSUME Solve PROVE Problem!Ask
  OBVIOUS
<1>1. Tours' = Tours
  BY StationsFixed DEF Solve
<1>2. Status # "busy" /\ Status' = "busy" /\ solution_tour' = {}
  BY DEF Solve, ResetSolution, Status
<1> QED
  BY <1>1, <1>2 DEF Problem!Ask

(* An early end of CPLEX is reported as an error. *)
LEMMA FailsReports == CplexFails => Problem!ReportError
<1> SUFFICES ASSUME CplexFails PROVE Problem!ReportError
  OBVIOUS
<1>1. Tours' = Tours
  BY StationsFixed DEF CplexFails, SolveThrows
<1>2. /\ phase = "solving" /\ phase' = "failed" /\ failure' # "infeasible"
      /\ solution_tour' = solution_tour
  BY DEF CplexFails, SolveThrows
<1> QED
  BY <1>1, <1>2 DEF Problem!ReportError, Status

(* "infeasible" is reported only when there is no tour. *)
LEMMA InfeasibleReports == IInv' /\ CplexInfeasible => Problem!ReportInfeasible
<1> SUFFICES ASSUME IInv', CplexInfeasible PROVE Problem!ReportInfeasible
  OBVIOUS
<1>1. Tours' = Tours
  BY StationsFixed DEF CplexInfeasible, SolveThrows
<1>2. /\ phase = "solving" /\ phase' = "failed" /\ failure' = "infeasible"
      /\ solution_tour' = solution_tour
  BY DEF CplexInfeasible, SolveThrows
<1>3. Tours = {}
  BY <1>1, <1>2 DEF IInv, InfeasibleIsRight
<1> QED
  BY <1>1, <1>2, <1>3 DEF Problem!ReportInfeasible, Status

(* The end of solve() is an optimal tour or an error. *)
LEMMA BuildAnswers ==
  IInv' /\ BuildSolutionTour => Problem!AnswerTour \/ Problem!ReportError
<1> SUFFICES ASSUME IInv', BuildSolutionTour
             PROVE  Problem!AnswerTour \/ Problem!ReportError
  OBVIOUS
<1>1. phase = "building" /\ stations' = stations
  BY DEF BuildSolutionTour, SolveThrows
<1>2. Tours' = Tours
  BY <1>1, StationsFixed
<1>3. CASE phase' = "found" /\ solution_found' = TRUE
  <2>1. /\ solution_tour' \in Tours
        /\ \A y \in Tours : ~ShorterTour(y, solution_tour')
    BY <1>2, <1>3 DEF IInv, SolutionIsOptimalTour, ShorterTour
  <2>2. Status = "busy" /\ Status' = "answered"
    BY <1>1, <1>3 DEF Status
  <2> QED
    BY <1>2, <2>1, <2>2 DEF Problem!AnswerTour, Problem!Optimal
<1>4. CASE SolveThrows("sub tours")
  <2>1. Status = "busy" /\ Status' = "error"
    BY <1>1, <1>4 DEF Status, SolveThrows
  <2> QED
    BY <1>2, <1>4, <2>1 DEF Problem!ReportError, SolveThrows
<1> QED
  BY <1>3, <1>4 DEF BuildSolutionTour

(* The steps the caller cannot see. *)
LEMMA HiddenSteps ==
  Construct \/ LazyCallback \/ CplexOptimal \/ UNCHANGED vars
    => UNCHANGED Problem!tourVars
<1> SUFFICES ASSUME Construct \/ LazyCallback \/ CplexOptimal \/ UNCHANGED vars
             PROVE  UNCHANGED Problem!tourVars
  OBVIOUS
<1>1. stations' = stations /\ solution_tour' = solution_tour
  BY DEF Construct, InvalidInput, LazyCallback, CplexOptimal, vars, solution
<1>2. Tours' = Tours
  BY <1>1, StationsFixed
<1>3. ASSUME Construct PROVE Status' = Status
  BY <1>3 DEF Construct, InvalidInput, Status
<1>4. ASSUME LazyCallback PROVE Status' = Status
  BY <1>4 DEF LazyCallback, Status
<1>5. ASSUME CplexOptimal PROVE Status' = Status
  BY <1>5 DEF CplexOptimal, Status
<1>6. ASSUME UNCHANGED vars PROVE Status' = Status
  BY <1>6 DEF vars, Status
<1> QED
  BY <1>1, <1>2, <1>3, <1>4, <1>5, <1>6 DEF Problem!tourVars

(* The solver implements the abstract promise, its safety part: a call is  *)
(* answered by a shortest tour or an exception, and by "infeasible" only   *)
(* when there is no tour.                                                  *)
THEOREM ImplementsTourProblemSafely ==
  Spec => Problem!TourInit /\ [][Problem!TourNext]_(Problem!tourVars)
<1>1. Init => Problem!TourInit
  BY DEF Init, Problem!TourInit, Status
<1>2. IInv' /\ [Next]_vars => [Problem!TourNext]_(Problem!tourVars)
  BY SolveAsks, FailsReports, InfeasibleReports, BuildAnswers, HiddenSteps
     DEF Next, SolverStep, Problem!TourNext, Problem!Finish
<1> QED
  BY <1>1, <1>2, Inductive, PTL DEF Spec
=============================================================================
