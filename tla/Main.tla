-------------------------------- MODULE Main --------------------------------
(***************************************************************************)
(* The program: main reads a transport file, builds the graph, has a tour  *)
(* computed and prints it.                                                 *)
(*                                                                         *)
(* The parts are taken as their abstract specifications state them:        *)
(* TransportFile for the reader, TransportGraph for the graph builder,     *)
(* TourProblem for the solver and TourTable for the output.  An exception  *)
(* that nobody catches terminates the program.                             *)
(***************************************************************************)
EXTENDS ShortestTours

CONSTANTS
  Files, BadTime, MaxReads,    \* of TransportFile; main reads one file
  CHANGING_TIME, SWITCHING_TIME,
  StartStation,                \* "Zoologischer Garten"
  NoStart                      \* printTour without a start station

(* A file has sections with items, and a line passes every station once.   *)
ASSUME FilesAssumption ==
  \A f \in Files : \A sections \in {f.sections} :
    /\ sections \in Seq(ToSet(sections))
    /\ \A c \in ToSet(sections) : \A items \in {c.items} :
         /\ items \in Seq(ToSet(items))
         /\ c.tag = "lines" =>
              \A d \in ToSet(items) :
                /\ d.stops \in Seq(ToSet(d.stops))
                /\ \A i, j \in DOMAIN d.stops :
                     d.stops[i].station = d.stops[j].station => i = j

VARIABLES
  pc,                                   \* where main stands, or how it ended
  files, file_status, network,          \* XMLReader
  type, preprocess,                     \* TYPE and PREPROCESSING
  graph_status, graph,                  \* GraphBuilder
  tours, solver_status, answer,         \* StationSolver
  tour, start, compact,                 \* the arguments of printTour
  output_status, table, changes

reader == <<files, file_status, network>>
builder == <<lines, type, preprocess, graph_status, graph>>
solver == <<tours, solver_status, answer>>
output == <<tour, start, compact, output_status, table, changes>>
vars == <<pc, reader, builder, solver, output>>

Reader == INSTANCE TransportFile WITH status <- file_status

Builder == INSTANCE TransportGraph WITH
  status <- graph_status, change_cost <- CHANGING_TIME, switch_cost <- SWITCHING_TIME

(* A solution has a value and a tour. *)
Solution(t) == [value |-> FoldLeft(LAMBDA sum, a : sum + a.dist, 0, t), tour |-> t]

Shorter(x, y) == x.value < y.value

Solver == INSTANCE TourProblem WITH NoAnswer <- <<>>, status <- solver_status

Output == INSTANCE TourTable WITH status <- output_status

-----------------------------------------------------------------------------
Init ==
  /\ pc = "start"
  /\ Reader!FileInit
  /\ lines = <<>> /\ type = "STATION" /\ preprocess = TRUE
  /\ Builder!GraphInit
  /\ tours = {} /\ Solver!TourInit
  /\ tour = <<>> /\ start = NoStart /\ compact = TRUE /\ Output!TableInit

OpenFile ==
  /\ pc = "start" /\ pc' = "reading"
  /\ Reader!Ask
  /\ UNCHANGED <<builder, solver, output>>

OldLines == lines   \* a slip: the graph builder has another map of lines

(* The reader's maps are what the graph builder gets. *)
LinesRead == network'.lines

ReadFile ==
  /\ pc = "reading" /\ pc' = "building"
  /\ Reader!Deliver
  /\ lines' = LinesRead
  /\ UNCHANGED <<type, preprocess, graph_status, graph, solver, output>>

ReadingFails ==
  /\ pc = "reading" /\ pc' = "exit 1"
  /\ Reader!Refuse
  /\ UNCHANGED <<builder, solver, output>>

BuildGraph ==
  /\ pc = "building" /\ pc' = "preparing"
  /\ Builder!Deliver
  /\ UNCHANGED <<reader, solver, output>>

BuildingFails ==
  /\ pc = "building" /\ pc' = "terminated"
  /\ Builder!Refuse
  /\ UNCHANGED <<reader, solver, output>>

-----------------------------------------------------------------------------
Nodes == graph[1]
Arcs == graph[2]
Stations == graph[3]

(* What the constructor of the solver checks. *)
Unique(s) ==
  Cardinality({a \in Arcs : a.to \in Stations[s] /\ a.from \notin Stations[s]}) = 1

HasUniqueStation == \E s \in DOMAIN Stations : Unique(s)

Disjoint ==
  \A s, t \in DOMAIN Stations : s # t => Stations[s] \cap Stations[t] = {}

AllAssigned == Nodes = UNION {Stations[s] : s \in DOMAIN Stations}

UniqueStation == CHOOSE s \in DOMAIN Stations : Unique(s)

(* A variable of the solver is zero or one, so that its tours take no arc  *)
(* twice.  Those that are longer than the shortest ones need not be listed.*)
CreateSolver ==
  /\ pc = "preparing" /\ pc' = "solving"
  /\ HasUniqueStation /\ Disjoint /\ AllAssigned
  /\ tours' = {Solution(t) : t \in ShortestTours(Arcs, DOMAIN Stations, UniqueStation)}
  /\ UNCHANGED <<reader, builder, solver_status, answer, output>>

CreatingSolverFails ==
  /\ pc = "preparing" /\ pc' = "terminated"
  /\ ~(HasUniqueStation /\ Disjoint /\ AllAssigned)
  /\ UNCHANGED <<reader, builder, solver, output>>

CallSolve ==
  /\ pc = "solving" /\ solver_status = "idle"
  /\ Solver!Ask
  /\ UNCHANGED <<pc, reader, builder, output>>

Solve ==
  /\ pc = "solving" /\ pc' = "printing"
  /\ Solver!AnswerTour
  /\ tour' = answer'.tour /\ start' = StartStation
  /\ UNCHANGED <<reader, builder, compact, output_status, table, changes>>

SolvingFails ==
  /\ pc = "solving" /\ pc' = "terminated"
  /\ Solver!ReportInfeasible \/ Solver!ReportError
  /\ UNCHANGED <<reader, builder, output>>

-----------------------------------------------------------------------------
PrintTour ==
  /\ pc = "printing" /\ pc' = "exit 0"
  /\ Output!Tell
  /\ UNCHANGED <<reader, type, preprocess, graph_status, graph, solver>>

NotCaught == FALSE   \* a slip: the exception is not expected

IsCaught == TRUE

(* The exception is caught, and the tour is printed as it is. *)
PrintAgain ==
  /\ pc = "printing" /\ output_status = "thrown" /\ IsCaught
  /\ start' = NoStart /\ output_status' = "telling"
  /\ UNCHANGED <<pc, reader, builder, solver, tour, compact, table, changes>>

StartIsMissing ==
  /\ pc = "printing"
  /\ Output!Refuse
  /\ UNCHANGED <<pc, reader, type, preprocess, graph_status, graph, solver>>

Next ==
  \/ OpenFile \/ ReadFile \/ ReadingFails
  \/ BuildGraph \/ BuildingFails
  \/ CreateSolver \/ CreatingSolverFails \/ CallSolve \/ Solve \/ SolvingFails
  \/ PrintTour \/ StartIsMissing \/ PrintAgain

(* The program is one thread, and every part of it ends. *)
Spec == Init /\ [][Next]_vars /\ WF_vars(Next)

-----------------------------------------------------------------------------
(* The properties. *)

Ends == {"exit 0", "exit 1", "terminated"}

(* Each part has what the part before it delivered: the lines that were    *)
(* read, a graph, a tour of that graph, and the table of that tour.        *)
TypeOK ==
  /\ pc \in Ends \cup {"start", "reading", "building", "preparing", "solving", "printing"}
  /\ network # <<>> => lines = network.lines
  /\ pc \in {"preparing", "solving", "printing", "exit 0"} <=> graph # <<>> /\ pc # "terminated"
  /\ ToSet(tour) \subseteq (IF graph = <<>> THEN {} ELSE Arcs)
  /\ (pc = "exit 0") = (table # <<>>)

(* The stations that are passed on the way that a row of the table tells. *)
Passed(row) ==
  IF row[2] = CHANGE_NAME THEN {row[1], row[3]}
  ELSE {StationAt(row[2], i) : i \in {k \in Stops(row[2]) :
          \E j, m \in Stops(row[2]) :
            /\ {StationAt(row[2], j), StationAt(row[2], m)} = {row[1], row[3]}
            /\ j <= k /\ k <= m}}

(* Who follows the printed table comes through every station of the file,  *)
(* although the solver never hears of the stations that were removed with  *)
(* their chains, and the table has no rows for changes.                    *)
PrintedTourVisitsAll ==
  pc = "exit 0" => UNION {Passed(table[k]) : k \in DOMAIN table} = StationNames

AllStops == INSTANCE TransportGraph WITH
  preprocess <- FALSE, status <- graph_status,
  change_cost <- CHANGING_TIME, switch_cost <- SWITCHING_TIME

(* A turn that preprocessing does not make. *)
IsLeftOutTurn(a) ==
  /\ a.connection /\ a.from[1] = a.to[1]
  /\ a \notin Builder!Turns(a.from[1])

(* Removing chains and their stations makes no tour shorter or longer: the *)
(* time in the last row is that of a shortest tour through all stations of *)
(* the file, in the graph that has all stops and the same turns.           *)
ChainsCostNothing ==
  /\ pc = "solving" /\ solver_status = "idle" =>
       \E arcs \in {{a \in AllStops!GraphArcs : ~IsLeftOutTurn(a)}} :
         {t.value : t \in tours} = {TourLength(arcs, StationNames, UniqueStation)}
  /\ pc = "exit 0" => \E t \in tours : table[Len(table)][4] = t.value

TurnsAtChange(a) ==
  a.connection /\ a.from[1] = a.to[1] /\ IsConnecting(StationOfNode(a.from))

(* What the README says, an optimal solution: the time in the last row is  *)
(* that of a shortest closed walk through all stations, in the graph in    *)
(* which one may turn at every station but where lines meet.  It does not  *)
(* hold where a ride between two stations that are left out is long.       *)
ShortestTimeIsPrinted ==
  pc = "exit 0" =>
    \E arcs \in {{a \in AllStops!GraphArcs : ~TurnsAtChange(a)}} :
      table[Len(table)][4] =
        ShortestLength(arcs, StationNames, CHOOSE s \in StationNames : TRUE)

(* The same for the solver: no closed walk through the stations of its     *)
(* graph is shorter than its tours.  It does not hold where all shortest   *)
(* walks take an arc twice.                                                *)
NoArcIsNeededTwice ==
  pc = "solving" =>
    \A t \in tours : t.value = ShortestLength(Arcs, DOMAIN Stations, UniqueStation)

(* The graph builder's map of stations fits its graph, also after nodes    *)
(* have been removed from both: the constructor of the solver refuses it   *)
(* for want of a unique station only.                                      *)
StationMapFits == pc \in {"preparing", "solving"} => Disjoint /\ AllAssigned

(* The program ends, and once there is a tour it is printed, whether the   *)
(* start station is in the network, was removed from the graph, or is not  *)
(* in the file at all.                                                     *)
ProgramEnds == <>(pc \in Ends) /\ (pc = "printing" ~> pc = "exit 0")
=============================================================================
