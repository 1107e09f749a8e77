# TLA+ models of ubahn

ubahn reads a rapid transit network, builds a directed graph from it, and finds
a shortest closed walk that visits every station (the Rapid Transit Challenge,
class B), with CPLEX as the integer programming solver.  This directory holds
TLA+ modules translated from the code under `src/src/`, the TLC configurations
that check them on small instances, and proofs for TLAPS.

The program is one thread, persists nothing and exchanges no messages.  What is
hard to test in it: a search in which CPLEX, not the program, decides which
candidate comes next; rows derived from one candidate that stay in force for all
later ones; a numbering of components that LEDA chooses; a recursion that edits
a list while positions in it are held; objects that are called again after an
exception; a reader that fills three containers one after the other and may
throw between them; and a graph reduction that must not change the answer.

## Inventory

| part | code | state | operations | what makes it correct |
|---|---|---|---|---|
| Main program | `ubahn.cpp` | the tour to be printed | read, build, solve, print; catches only the reader's exceptions and the missing start station of the first print | every run prints a tour of the file's network or ends with an error |
| XML reader | `io/xml_reader.*` | stations, lines, names of tags | `extractStations`, `extractLines`, `setLineStations`, `readTransportFile`, `printStatistic` | station and line maps agree at every moment, also after an exception; every station has a line; the rides are those of the file |
| Transport definitions | `transport_defs.h` | records of stations and lines | constructors | `<->` names no station and no line |
| Graph builder | `graph_builder.*` | graph, lengths, names, connection flags, nodes of every station | nodes and travel arcs of both directions, switching arcs, connection arcs, removal of chains, connectivity check | tours of the reduced graph stand for tours of the full one, of the same length; every station stays visited |
| Station solver | `solver/station_solver.*` | station of every node, the model | input checks, model, lazy constraint callback, `solve` | rows lose no tour; a result is an optimal tour |
| CPLEX base | `solver/cplex_solver.*` | found flag, value, tour | `solve`, `buildSolutionTour`, getters | the getters hand out the last successful result, or throw |
| Euler search | `solver/euler.*` | visited arcs | `getEulerTour`, `eulerRec` | one closed walk of all arcs that can be reached, or an exception on an unbalanced graph |
| Tour output | `graph_builder.cpp` 526-806 | four columns under construction | rotation to the start station, rows, compaction, number of changes | the table is the walk, told from the chosen station: closed, aligned, of the right length |
| Timer | `base/timer.h` | running, start time, offset | `Reset`, `Start`, `Stop`, `Elapsed` | elapsed time is the sum of the running intervals |
| External | CPLEX, LEDA, Xerces, Boost | | | used through their documented results |

The reader hands its maps to the builder by reference, the builder copies them
and hands graph, lengths, station sets and connection flags to the solver.  The
solver calls CPLEX, which calls back into the solver with each integral
candidate; when CPLEX is done, the base class builds the tour with an `Euler`
object, and the main program passes the tour to the builder's output functions.

`PROJECT.json` lists the parts with their status, and every hazard at the line
where it bites with the properties that cover it.  The few that no property
covers carry a note that says why.

## Modules

| module | models |
|---|---|
| `Network` | the directed multigraph with lengths; arcs across a border, balanced selections, components, closed walks |
| `TourProblem` | what the solver promises its caller: a shortest tour, or an exception |
| `StationSolver` | `StationSolver` with `CplexSolver`, and CPLEX as their environment |
| `MCStationSolver` | two networks with their station maps |
| `Walks` | walks as sequences of arcs |
| `EulerTour` | what a call of `getEulerTour` promises |
| `Euler` | `Euler` with an explicit call stack |
| `MCEuler` | nine arcs on four nodes |
| `Lines` | lines with stations and times, connecting stations, nodes and arcs of the builder's graph; unsigned times and their differences |
| `TransportFile` | what the reader promises of the files it was given, each taken as a whole |
| `XMLReader` | `XMLReader::readTransportFile` and its helpers, stop by stop |
| `MCXMLReader` | 448 small transport files, sound and unsound |
| `GraphBuilder` | the constructor of `GraphBuilder`, one action for each of its parts |
| `TransportGraph` | the graph a network stands for, stated as a whole |
| `MCGraphBuilder` | networks of one to three lines |
| `TourTable` | what the printed table says of a tour |
| `TourOutput` | `printTour` and `saveTexTour` with `getTourOutput`, row by row |
| `MCTourOutput` | closed walks in the graphs of three networks |
| `Main` | `main`, composed of `TransportFile`, `TransportGraph`, `TourProblem` and `TourTable` |
| `ShortestTours` | shortest closed walks through given stations, and the shortest of those that take no arc twice, which are the tours of `TourProblem` in `Main` |
| `MCMain` | 95 transport files for the whole program |
| `NetworkTheorems` | facts about borders, balance and components, proved |
| `StationSolverProofs` | theorems about `StationSolver` |
| `SequenceLemmas` | facts about sequences, flattening and finite sets that the proofs share |
| `EulerProofs` | theorems about `Euler` |
| `TourOutputProofs` | theorems about `TourOutput` |
| `XMLReaderProofs` | theorems about `XMLReader`, and that it implements `TransportFile` |
| `GraphBuilderProofs` | theorems about `GraphBuilder` |
| `MainProofs` | theorems about `Main` |

How they hang together: the abstract specifications `TransportFile`,
`TransportGraph`, `TourProblem` and `TourTable` are each implemented by the
detailed module of their component (`XMLReader`, `GraphBuilder`,
`StationSolver`, `TourOutput`, checked with refinement mappings), and `Main`
puts the abstract ones together.  `Lines` is shared by everything that knows of
lines, `Network` by everything that knows of arcs only.

### StationSolver

A selection of arcs is a set of arcs.  `phase` follows the calls: `new`, then
`invalid` or `ready` after the constructor, `solving` while CPLEX searches,
`building` between the search and the end of `buildSolutionTour`, then `found`
or `failed`.  `solve()` is enabled again in `ready`, `found` and `failed`, as the
class allows.  `cuts` are the lazy rows of the current call, each the set of arcs
of which one has to be selected; `incumbent` is the accepted candidate CPLEX
holds; the three `solution_` variables are the members of the base class.

- `Construct` is the constructor with its three checks in their order.
- `Solve` is the reset and the call into CPLEX.
- `LazyCallback` is one whole run of the callback, for any candidate in
  `Remaining` (a balanced selection that leaves every station, satisfies all rows
  and is shorter than the incumbent) and any numbering of its components.
- `CplexInfeasible`, `CplexFails`, `CplexOptimal` are the ends of the search.
  The search can end regularly only when no candidate remains, and irregularly
  at any time.  `not binary` is the exception of `getSelectedEdges` inside the
  callback.
- `BuildSolutionTour` starts at the source of any selected arc.  The Euler search
  inside it is the operator `EulerTour`, the arcs of the component of the start;
  that `Euler` returns exactly these arcs for a balanced graph is
  `BalancedGivesComponent` of module `Euler`.

Assumptions on CPLEX: it proposes only candidates that satisfy the model and the
rows added so far; it takes an integral candidate as incumbent when no row added
in the callback is violated by it; it reports an optimum only when nothing
shorter is left.  Fractional points never reach the program.  Lengths are whole
numbers, as they are in the graphs of the program (minutes, and 5 for a change).
Rounding inside CPLEX and the conversion of its values to integers are left out.

### Euler

A frame of `stack` is one activation of `eulerRec`, with `listPos` as the arc it
points at; `lists` holds `cycle` and each `newCycle` under construction, since
the activations above an open list all fill it.  The loop over the outgoing arcs
is a choice of any unvisited one: at each node an arc once passed by the loop has
been visited, so every order of the adjacency list gives one of the behaviours.

### XMLReader

A file is what Xerces makes of it: a fault, or the sections below the root in
document order, each with its items.  Nothing is assumed of a schema, because
the code installs an error handler that ignores its errors; so sections may be
missing, repeated or out of order, and names and times are arbitrary.
`stations` maps a name to `Station::lines`, `lines` a name to stations and
times, as `_stations` and `_lines` do.  `section`, `item` and `stop` are the
loop variables; `stop` is 0 outside `setLineStations`.

- `ReadTransportFile` is a call, `OpenFile` its checks and the parser.
- `ExtractStation` is one turn of the loop of `extractStations`, `ExtractLine`
  the head of one of `extractLines`, up to the call of `setLineStations`.
- `SetLineStation` is one turn of the loop of `setLineStations`, in the order of
  the code: station appended, station looked up, line entered at the station,
  time read and appended, with an exception after the first and the third of
  these.  `LineIsRead` is the end of that loop.
- `NextSection` goes on to the next child of the root, `CheckStations` is the
  loop at the end.  The map is ordered by names; the model lets any station
  without a line be the first one found.

`ToUnsigned` is `lexical_cast<unsigned int>`: a sign is accepted, and a negative
number is taken modulo the range.  `Lines` has the other half of it: `RideTime`
is the difference of two unsigned numbers, put into an `int`.

After an exception nothing is read any more, as in `main`, which ends the
program.  The exception of the name `<->` leaves the maps as they are.

### GraphBuilder

A node of the graph is a stop of a line in one of its two directions, and an arc
carries its entries of `_arc_names`, `_dist` and `_connection_arcs`; the builder
never makes two arcs between the same nodes, so arcs form a set.  `phase` is the
part of the constructor that comes next: `nodes`, `switching`, `connections`,
then with preprocessing `chains` and `removing`, then `check`, and `built` or
`thrown` at the end.

- `CreateNodesAndTravelArcs`, the three actions for switching arcs and
  `AddAllConnectionArcs` are the methods of these names.  The last one adds a
  change only between a node some ride arrives at and one some ride departs from.
- `ComputeDegree2Chains` hides the nodes and both ends of the arcs to keep, and
  takes the components of the rest.
- `RemoveChain` is one turn of the loop in `preprocessGraph`, for any of the
  chains left: LEDA's numbering of the components decides the order.  A chain
  goes as a whole; its first and last arc are those that enter and leave it,
  which TOPSORT makes the ends of the list.
- `RemoveFromStations` is the second loop, `CheckConnectivity` the check.

`TransportGraph` says what the result is without saying how it is made: which
stops keep their nodes, which of them are joined by a ride of which length, where
one turns and changes, which stations are left, and that the network is refused
when the directions of the lines do not hang together.  It looks only at lines
and stations and knows no degrees, chains or removals.

### TourOutput

The arguments are constant during a call; `phase` follows it: `rotating`
(`printTour` with a start station), `rows` and `erasing` (the two loops of
`getTourOutput`), `printing`, then `printed` or `thrown`.  `column` are the four
vectors with their heads.  `TakeArc` is one turn of the first loop: a row is
added, or the last one is extended when the table is compact and line and
station fit.  `EraseRow` and `KeepRow` are the turns of the second loop, with
the iterator `it` on the second column and the index `i` for the others kept
apart as in the code: they have to agree for the columns to stay aligned.
`_nodes_removed` is never set, so `compact` stays as it was given.

`TourTable` says what comes out without rows being added or erased: the runs of
arcs with one name, with the station at which each begins and ends and the time
that has passed, without the changes but for a change at the very end.

### Main

Each part is taken as its abstract specification states it, by INSTANCE, so
that one action of `Main` is a call of a part and its return, and `pc` is the
place in `main` where the thread stands.  `exit 0` and `exit 1` are the
two returns, `terminated` an exception that nobody catches.  `ReadingFails`
is the catch of line 49, `StartIsMissing` with `PrintAgain` the one of line 96.
`CreateSolver` checks what the constructor of the solver checks, and gives
`TourProblem` its tours (`ShortestTours`): the shortest closed walks through all
stations of the graph that take no arc twice, since the variables of the solver
are zero or one.  Longer tours need not be listed: `TourProblem` never answers one
while a shorter one is there.  They are computed by length, one arc after the
other, from the definition of a tour and of its length; nothing is known there of
circulations and rows.  `ShortestLength`, the length of a shortest closed walk
that may take arcs as often as it likes, is searched for apart from them, and
serves the two properties that do not hold.

### What the models assume of lines

A line passes a station once (`LineMapsAssumption`, and `FilesAssumption` of
`Main`).  A second stop at the same station would overwrite the first one in the
node maps of the builder.  The rest of `LineMapsAssumption` is what the reader
gives: there are finitely many lines, none is called `<->`, and there is a time for
every stop; and that each line has a stop, which the reader does not insist on (a
line without one leaves the builder's graph as it is).  `NumbersAssumption` says
that the costs of turns and changes are integers.

## Runs

| run | instance | shows |
|---|---|---|
| `stations` | two parallel lines and a third one, 14 arcs, 10 nodes, a ride of length 100; ten station maps, three of which lie across the lines | rows keep all tours, candidates violate their rows, the callback's assertions hold, results are optimal tours, `infeasible` is right, every call ends, and the solver implements `TourProblem` although optima with sub tours occur and end in an exception |
| `stations_sub_tours` | network of three lines as the builder makes it, 18 arcs | the comment of the callback is wrong, see below |
| `euler` | every multigraph with nodes among four and arcs among nine (parallel arcs, a loop, two-way arcs), every start node or none | lists are walks at any depth of the recursion, a balanced graph gives its component, the algorithm implements the call |
| `builder` | 252 networks of one to three lines, both problem types, with and without preprocessing | the assertions of the chain removal, the same graph from both ends of the lines, ways from everywhere to everywhere, stations that are dropped are visited all the same, and the constructor implements `TransportGraph` |
| `builder_single_station` | a second line with one station, in the graph that `main` asks for (`StationSpec`) | an assertion fails, see below |
| `builder_refuses` | the networks of `builder` | a network whose lines share their stations is refused, see below |
| `reader` | one or two of 448 files: every fault, sections in any order and number, lines and stations repeated, unlisted, unvisited or named `<->`, times that fall or are below zero or no numbers | the maps agree at every moment but for one stop after an exception, what has been read stays, rides survive the conversions, files are taken as `TransportFile` states |
| `reader_message` | the same files | a message does not name its station, see below |
| `output` | closed walks without repeated arcs in three graphs, with and without preprocessing, told from every station, a missing one or none, long and compact | the columns stay aligned, each row is a ride of the tour, the table is a closed journey of the right length, and the one `TourTable` states |
| `main` | 95 files of one to three lines, with the start station inside a chain, at an end, at a change or missing | the printed table visits every station of the file, the removal of chains costs no time, the parts fit together, the program ends |
| `main_long_ride` | two lines, one with a long ride between two stations of its own | the printed tour is longer than it need be, see below |
| `main_same_way` | three lines around a stretch that is best taken twice | the solver's shortest tour is longer than a shortest walk, see below |

The bounds.  The two station instances are small enough to list every balanced
selection, and large enough for what matters: candidates with one, two and three
components, exclusive and shared stations, unused nodes at shared stations,
accepted candidates with sub tours, several rounds of rows, and all maps the
constructor refuses.  One station map has no tour.  The calls
of `solve()` are not bounded: a second call starts from the same state as the
first except for the old result.  Nine arcs give the Euler search nested cycles
inside nested cycles and graphs on which it throws at each depth; the graphs need
no bound on runs because every step visits an arc, opens or closes a frame.
The first line of a network has up to seven stations: seven is the length at
which a chain of several nodes is left between two stops at which one turns, so
that lengths add up over more than two arcs; the other lines share terminals,
inner stations, several of them or none, in both directions of travel, so that
there are stations with four to six nodes, terminals at which one may and may
not turn, and networks that are refused.  Times grow differently at each stop, so
that no two stretches are mistaken for each other.

`UintRange` stands for 2^32.  In `reader` it is 8 and there are times from -3 to 7
in the files, so that conversions and differences wrap in both ways; in the other runs
it is larger than twice any time.  Two files one after the other are enough
for what a second call meets: maps that an earlier call has left, with lines
and stations of the same and of other names; `main` reads one file.  The walks
of `output` have up to 6 arcs, and up to 12 in the reduced graph of two crossing
lines, where a table has several runs on each line, changes one after the other,
and runs that are joined by the rotation.  `MaxLength` bounds the search for
tours in `main`; all shortest tours of its files are shorter, and one that were not
would leave the solver without tours, which `ChainsCostNothing` would show.

What `ChainsCostNothing` compares with.  The tours of the solver are those of the
reduced graph and of the stations left in its map.  The reference is the graph
with all stops and all stations of the file, and with the same turns: the two have
the same shortest tours, and the time in the last row of the table is theirs.  That
the turns themselves are not always enough is another matter, and shown by
`main_long_ride`.  Its reference, in `ShortestTimeIsPrinted`, is the graph without
preprocessing, but without turns at stations where lines meet: with those the
claim would fail for a reason of its own, already on the lines A from 1 to 2 in 3
minutes and B from 2 to 1 in 1 minute, where it is quicker to ride B there and back.

Fairness.  `StationSolver` has weak fairness on the steps of a call that is under
way, as the thread runs it to its end; no fairness on `Construct` and `Solve`,
because nothing forces a caller.  Every candidate is accepted as a better
incumbent or cut off, so the search ends on its own; `CplexFails` can end it
earlier but need not.  `Euler` and
`GraphBuilder`, `TourOutput` and `Main` have weak fairness on their one thread, and
`XMLReader` on the steps of a call, since nobody has to call it.  The abstract
specifications say that each call ends, as `<>` or `[]<>` of their status.

All configurations switch off deadlock checking: a refused solver object, a
finished Euler search, a finished constructor and a program that has ended have
no further step.

What the removal of chains rests on.  `RemovedStationsAreVisited` holds because
of where `addStationProblemSwitchingArcs` lets a tour turn: only before a change
that lies ahead, so that whoever visits the turning stop after a chain has come
through the chain.  With the two directions swapped (the mutant of this property)
the condition at line 466 is fulfilled just the same and stations get lost.  The
condition itself never keeps a chain, in no network (`ChainsAreForced`); it is a
second guard.

A file without lines is in the run as well: LEDA numbers no components in a graph
without nodes, the test for more than one fails, and the constructor delivers an
empty graph, which the solver refuses later.

## Findings

`station_solver.cpp:84` accepts a candidate when exactly one component has a
station of its own; the comment reads "there is one tour visiting each station".
That does not follow: other components may share all their stations with each
other.  In `stations_sub_tours` lines 1 and 2 both run between `s` and `t`, and
line 3 is joined to them only by a long ride.  The candidate consists of a walk
on line 3 (exclusive) and the two walks between `s` and `t`, on lines 1 and 2 in
opposite directions.  Each of these two shares `s` and `t` with the other, no row
is added, and with the ride of length 100 this selection is shorter than every
tour.  CPLEX reports it as optimal and `solve()` throws "Solution contains sub
tours", although tours exist.  A wrong result is never handed out
(`SolutionIsOptimalTour` holds there too): the test in `buildSolutionTour` is what
saves the solver.

`graph_builder.cpp:104` asserts that every node has two arcs.  The schema allows
a line with a single station (`transport.xsd:27`).  At a station that another
line passes too the nodes of such a line have no arcs in the station problem: there is no ride, no turn at a connecting
station, and no change where nothing arrives or departs
(`builder_single_station`, with the type and the preprocessing of `main`).  The
default build is Release, where the assertion is compiled out; then each of these
nodes is a chain of its own, and line 463 takes the front of an empty list.

`graph_builder.cpp:194` reports "No connection between stations".  In the station
problem with preprocessing no switching arcs are made at a connecting station,
terminals included.  Two lines between the same two terminals then give two
parts, line A out and line B back, and the reverse (`builder_refuses`).  The
constructor throws although the lines share both of their stations and each part
is a tour; rings of lines that meet at their terminals behave alike.
`TransportGraph` states the condition exactly (`CoursesConnected`).

`xml_reader.cpp:170` is meant to name the station whose time is no number
("Station ... has no valid travel time").  The name is released at line 160, and
`XMLString::release` sets the pointer to null, so the message ends after
"Station " (`reader_message`; the stream given a null pointer goes bad and takes
no more text).

`graph_builder.cpp:389` says of the choice of turns "This is not allwyas correct!",
and that very long rides would be needed; the README of the program promises an
optimal solution.  In `main_long_ride` line A goes c-x-y-d with rides of 1, 40 and 1
minutes, line B c-m-d-n with a minute each.  At x there is only the turn before the
change at c, at y only the one before that at d, so that the tour has to ride from x
to y and takes 61 minutes.  One may as well come to x from c and to y from d and turn
there, which takes 45.

`station_solver.cpp:316` gives every arc a binary variable.  A shortest walk may
have to take an arc twice.  In `main_same_way` the lines are e-g-d, d-b-a-g-f and
f-b: every shortest closed walk in the graph of the solver goes from b by a to g
twice, once coming from d and once from f, or all of it backwards, and takes 36
minutes; the shortest tour of the solver takes 37, so that what is printed is not
optimal.  `printTour` has a message for segments that are used several times
(`graph_builder.cpp:780`), which no tour of the solver can bring about.

One more divergence has no run, as `main` cannot show it: the comment at
`graph_builder.cpp:764` says that tours are always printed in the compact way if
nodes were removed, but `_nodes_removed` is set nowhere.

## Proofs

### StationSolver

Proved for every finite network, every set of station maps, every order of the
candidates and every numbering of their components, from the named assumptions
`NetworkAssumption` (finite sets, ends of arcs are nodes, lengths are natural
numbers) and `StationMapsAssumption` (a map gives sets of nodes):

- `TypeCorrect`, `CutsAreValid`, `SolutionsAreOptimal`, `InfeasibleMeansNoTour`,
  `CandidatesAreCutOff`: the invariants of the runs;
- `ImplementsTourProblemSafely`: initial states and steps are those of
  `TourProblem`, or stutter.

The argument.  `FlowBalance` (by a smallest counterexample among the sets of
nodes) says that a balanced selection crosses every border equally often in both
directions; `WalksCross`, that a connected one with nodes on both sides crosses
it.  The side of an exclusive component contains the whole of its own station
and, by the choice of the first component, nothing of the station that
another exclusive component has for itself; a tour visits both, so it crosses
the border, and no row loses a tour.  Hence when no candidate shorter
than the incumbent is left, no tour is shorter.  And a selection all of whose
arcs lie in the component the Euler search starts in is connected
(`OneComponentConnected`), so an incumbent that passes the size test is a tour.  A tour is
here a closed walk that takes no arc twice (`ClosedWalks`): that a walk that takes
one twice may be shorter is the finding of run `main_same_way`.

`SolutionIsOptimalTour` is not inductive.  `IInv` adds what the earlier phases
must hand on: the constructor has checked the map, rows keep all tours, the
incumbent leaves every station, and during `building` no candidate remains and
the stored value is the incumbent's length.  The proof has one lemma per action.

The callback's assertions (`AssertionsOfCallback`) rest on one more assumption,
`TerminalsAssumption`: where a single arc enters a station, no circulation lives
inside the station without touching the arc's end.  In the graphs of the builder
a station with a single entering arc is the terminal of one line.  It has two
nodes, joined by the turn, and no cycle that stays inside.  Without the assumption
the second assertion would be false: a cycle inside the station would be a second
component there.

### Euler

Proved for every graph, every start node and any depth of the recursion, from
`NoArcAssumption` (the value for a missing `listPos` is no arc): `EulerTypes`,
`WalksStayWhole`, `BalancedTour` (the three invariants of run `euler`) and
`SearchKeepsThePromise` (initial states and steps are those of `EulerTour` or
stutter).

The argument.  `ListsAreWalks` speaks of the latest activation only; when it
returns, the one below becomes the latest.  `IInv` follows the whole stack:
frames are joined as the recursion joins them (`FramesAreJoined`), each that has
called another holds an arc of its own list (`PositionsAreInLists`), and each list
but the one under construction is a closed walk (`ListsLeadOn`).  That the result
has all arcs of the component needs `NothingIsForgotten`: where an unvisited arc
leaves a visited node, some frame still stands there.  For balanced graphs
`FlowBalance` shows that the latest activation cannot be stuck anywhere but at
its start, so that nothing is thrown.  `InsertWalk` is the splice: a closed walk
put before an arc, at that arc's source, leaves a walk a walk.

### TourOutput

Proved for every tour, every start station and both layouts, from
`ToursAssumption` (a tour is a closed walk that is not empty, a change stays
at its station, and changes are the arcs with `CHANGE_NAME`, which the reader
takes for no line): `TableTypes`, `RowsContinue`, `PrintedRowsAreRides` and
`TableStaysClosed`, the four invariants of run `output`; and `OutputImplements`,
that initial states and steps are those of `TourTable` or stutter.

The argument.  Each row tells an interval of the rotated tour (`RowsAreTold`),
each begins where the one before it ends (`RowsAreJoined`), and a row of changes
begins and ends at one station (`ChangesStay`), which is why erasing it tears
nothing.  The time of a row is a partial sum (`Elapsed`); that the rotation keeps
the total is an induction over the place where the tour is cut.  As every
induction in these modules it is done by a least counterexample, with the
existence of the recursive function shown the same way.

For the refinement `RunsAreTold` goes with it: it names the arc that each row ends
with.  Later rows end with later arcs, every row but the last ends where the
name breaks, and each arc at which a name breaks ends a row unless it is a change
(`RowsEnd`, `Covers`).  When a row is extended the name does not break, when one
is added it does, since the stations agree by the assertion of the code
(`EndsAdded`, `EndsExtended`).  Erasing takes out the row and its arc
(`EndsErased`), and when the loop is over no change is left but in the last row.
So the rows are as many as the arcs in `LastArcs`, and in their order
(`NthInOrder`).  The times of `TourTable` are folds over a sequence, which
`FoldedTime` shows to be the partial sums.

### XMLReader

Proved for every set of files, in whatever order they are read, from
`FilesAssumption` (sections, elements and stops are sequences; a time is a number
that `lexical_cast` takes, or is not one): `TypeCorrect`,
`MapsAgreeButForOneStop`, `ConsistentNetworks`, `RidesSurvive` and `LinesStay`,
the invariants `TypeOK`, `OneStopAtMostIsHalfRead`, `NetworkIsConsistent` and
`RideTimesSurvive` and the action property `FinishedLinesStay` of run `reader`;
and `ReaderImplements`, that initial states and steps are those of
`TransportFile` or stutter.

The argument.  A stop goes into the stations of the line, the lines of the
station and the times of the line, and an exception may come in between.
`OneStopAtMostIsHalfRead` alone is not inductive: a second half-read stop could
follow the first.  `IInv` says that while elements are read everything is read as
a whole (`AllRead`), that station map and lines agree (`MapsAgree`), and that
inside a line the line is defined and is that of the current item
(`LineIsDefined`), so that one stop can be half read only in the step that ends
the reading.  `StopAdded` and `LineAdded` say how lines at stations and the set
of names change with a stop and with a line.  `TypeOK` follows from `IInv` and
`TInv`, which adds that the files read are known ones, so that the assumption
holds of their times.

The last two need to know what the maps have to do with the files.  `RInv` says
it by places: the sections of all files stand one after the other (`AllOf`), an
element is a pair of section and position, and until there is an exception the
maps are what the elements before the current place say (`Agrees`).  There is a
lemma for each way of going on (`StationTaken`, `LineOpened`, `StopOfLineTaken`,
`LineClosed`, `SectionPassed`, `FileAdded`).  `TransportFile` flattens the
elements into sequences instead and counts names; `EntriesOf` finds each
element's place in them, and `AcceptableMeans` and `NetworkMeans` say its promise
by places.  Then every `Throw` shows one place that is not acceptable, and at the
end of the last section all places are before the current one.

### GraphBuilder

Proved for every set of networks, both problem types, with and without
preprocessing, and for every order in which chains are removed, from
`LineMapsAssumption` and `NumbersAssumption`: all six invariants of run `builder`
(`GraphTypes`, `DegreesSuffice`, `ChainsAreRides`, `GraphIsItsTwin`,
`GraphIsStronglyConnected`, `StationsLeftStandForAll`), and `GraphImplements`,
that initial states and steps are those of `TransportGraph` or stutter.

They have one hypothesis, `LinesHaveTwoStops`; without it the assertion on degrees
fails, as run `builder_single_station` shows, and a chain may be a node without
arcs.  `GraphImplements` has a second one, `RidesFit`: between two stops of one line
the times differ by no more than an `int` can say.  `_dist` is a map of
`double`, in which the sums along a chain are exact; only the single differences
go through an `int`.  `TransportGraph` converts the difference between the ends of a
ride as a whole, hence the hypothesis.

Degrees and chains.  `Shape` says what the arcs are once they are all there: rides
join a stop to the next one, turns join the two directions of a stop, changes join
an arriving to a departing node of another line.  Then every node has an arc in and
an arc out (`BothWays`), so that low degree means one of each.  `TurnEnds` and
`ChangeEnds` say when an arc that is no ride has ends of low degree: hiding both
ends of such an arc leaves only nodes between two rides (`InsideFacts`).  A
chain is a component of these, so no arc joins two chains (`ComponentsOfChains`),
and since positions grow along a ride a chain has an arc that enters it and one
that leaves it (`ChainEnds`).  Removing one chain then touches no arc of another
(`OthersUntouched`).  `GInv` has the shape of the graph in each phase (`Stage`), the
chains that are left (`GoodChains`) and that the graph is finite.  `ReachFacts`
says of the iteration in `Reach` that it ends at the smallest closed set, by
counting.

Ways back.  A graph that hangs together when directions are ignored has a way
between any two nodes when no set of nodes can be entered and not left
(`Returning`, `ReturningReaches`).  This holds when all arcs are there (`Returns`):
who rides on a line gets to its end, or to a stop where one can turn, and where one
can turn there is a turn the other way behind (`PairedTurns`).  A removal keeps it,
since a chain has one way in and one way out.

Twins.  All arcs have twins when they are there (`Paired`), but a chain is removed
without the one of the other direction, so in between the graph is no twin of
itself.  What holds at every moment is that a node or an arc without a twin belongs
to a chain that is still to be removed and whose own twin has gone (`HalfLeft`).
At the end no chain is left, if each has gone.  In the station
problem that depends on the condition at line 466, which reads degrees that
earlier removals have changed.  `ChainsAreForced` shows from the places at which
turns were made (`TurnPlan`) that it holds of every chain at first, and
`StaysForced` that removals do not disturb it.

Removed stations.  Exactly the stops go at which nothing can be decided
(`Undecided`, `Remaining`).  Behind a removed stop, on its line, there is one that
is left and that can be entered only by a ride past the removed one
(`StopBehind`, `ComesPast`); rides lead forward on their line and never skip a stop
that is left (`Forward`).

The refinement.  The last step has to deliver what `TransportGraph` states without
removals, so each part of it is an invariant.  The nodes are those of `Remaining`.
Turns and changes are never removed, and are exactly where a tour may turn or
change (`Connections`, `MayTurn`).  A ride leads to the next stop that is left and
takes the time between the two (`Spanning`); for a new arc this is the sum along
its chain, which telescopes when each difference of unsigned times is the true one
(`ChainTime`, `RideTimeIsDifference`).  The map of stations lists all nodes of a
station or none of them (`Listing`, `StationStaysWhole`).  That the graph is
connected just when the courses of the lines are (`PromisedConnection`) needs that
the nodes of one direction of a line hang together by rides (`CourseHolds`).

The proof found one mistake in the model, which no run had shown: `IsConnected`
was false for a network without lines, while the code throws only for more than
one component.  The definition is right now, and such a network is in the run.

### Main

Proved for every set of files that fits `FilesAssumption` (a line passes a
station once) and every bound on the length of tours: `MapOfStationsFits`,
`PartsAreConnected` and `PrintedToursAreWhole`, the invariants `StationMapFits`,
`TypeOK` and `PrintedTourVisitsAll` of run `main`.

The first goes through the promises of two parts: the lines read are those of the
files (`NetworkLines`), and in the reduced graph the nodes of a station are all
those of its stops that are left (`MapOfStations`).  Stations are disjoint because
no line passes one twice.  The second follows what is passed on (`PassedOn`).  It
needs that a tour is a sequence of arcs of the graph and not empty (`ToursVisit`),
and that such a tour has a table with rows (`SomethingIsTold`).

`PrintedToursAreWhole` is the promise of the whole program, `PrintedTourVisitsAll`:
who follows the printed table passes every station of the file, those included
that the solver never knew of.  Its invariant is `MInv /\ PassedOn /\ TourIsWhole`:
the graph is the one of the lines read, and every tour on its way from the solver
to the table is a closed walk in it through all of its stations.  What is printed
says nothing of the graph, so the property is not inductive without these.  The
argument has three parts.

- A tour is whole.  `ShortestTours` keeps of the sequences it has made just those
  that are closed walks through all stations, and turns them (`ToursVisit`).
  `printTour` begins a tour elsewhere, at the start station, which changes neither
  (`TurnedWalk`).
- A whole tour passes what was left out.  A stop is left out between two others,
  and beside it stands one that was kept, belongs to one line and has no turn
  towards it (`ForcedStops`).  The tour has to come to that station, and can only
  go on, or have come, on a ride past the stop (`MustRide`, `LeftOutIsPassed`).
- The table tells the stations of the rides.  The rides of a run are one behind
  the other in one direction (`RidesOnward`), so that the one row printed for
  them spans all of their stops (`RowPasses`), and a station that was come to by
  changes alone is an end of a row (`RowsTellStations`).

The theorem says nothing of how short a tour is.  In a file in which an arc takes no
time, or less, the tours of `ShortestTours` need not be those of the solver, as
they are made by length: there the theorem is about other closed walks through
all stations.  Where the times of a line grow it is about the solver's.

### Model-checked only

- Liveness (`SolveEnds`, `ProgramEnds`, the fairness part of the refinements),
  which is out of the prover's reach.
- `ChainsCostNothing` of `Main`, which relates the shortest tours of two graphs.

## Plan

What is left to prove is `ChainsCostNothing`: a proof would have to turn the tours
of the graph with all stops into tours of the reduced one, ride by ride, and back.

## Not modelled

- Lines that pass a station twice.  The maps of nodes are keyed by line and
  station, so a second stop overwrites the first; no instance has such a line.
- Lines without stops, which the reader takes: the loops of the builder pass them by.
- Times that do not grow along a line.  The reader takes them (run `reader` has
  them), and the builder, whose assertion is compiled out, gives the ride a
  negative length; the networks of the other runs have growing times.
- The numerical side of CPLEX: tolerances, the rounding of values, fractional
  points, parameters, the export of the model in debug builds.
- `Timer`: one object is made and read once for a line of output.  Its
  `Elapsed` goes on after `Stop` and counts the last interval twice, but nobody
  calls `Stop`.
- Text layout, TeX, locations, statistics, the line about segments that are used
  several times, the build files, and functions without a caller
  (`createAggregatedCut`, `printSwitchingStatistics`, `printStaticMapURL`).
- Reading on after an exception: no caller does.
