----------------------------- MODULE XMLReader -----------------------------
(***************************************************************************)
(* XMLReader::readTransportFile: from the elements of a transport file to  *)
(* the stations and lines of the network, one element at a time.           *)
(*                                                                         *)
(* A file is what Xerces makes of it: either a fault, or the sections      *)
(* below its root in document order.  The schema is not consulted, so      *)
(* sections may be missing, repeated or of another kind.  The maps are     *)
(* members: reading a second file adds to them.  After an exception the    *)
(* program ends, and nothing is read any more.                             *)
(***************************************************************************)
EXTENDS Lines

CONSTANTS Files,      \* the files there are
          BadTime,    \* a time that lexical_cast does not take
          MaxReads    \* bound: the files that are read one after the other

(* What Xerces makes of a file are sequences, and lexical_cast takes a     *)
(* sign, and numbers that have an unsigned int.                            *)
ASSUME FilesAssumption ==
  /\ UintRange \in Nat \ {0} /\ MaxReads \in Nat
  /\ \A f \in Files :
       /\ f.sections \in Seq(ToSet(f.sections))
       /\ \A k \in DOMAIN f.sections : \E c \in {f.sections[k]} :
            /\ c.items \in Seq(ToSet(c.items))
            /\ c.tag = "lines" =>
                 \A i \in DOMAIN c.items : \E stops \in {c.items[i].stops} :
                   /\ stops \in Seq(ToSet(stops))
                   /\ \A j \in DOMAIN stops :
                        stops[j].time \in (1 - UintRange)..(UintRange - 1) \cup {BadTime}

VARIABLES
  stations,                \* _stations: from name to Station::lines
  files,                   \* the files readTransportFile was called with
  phase,
  section, item, stop,     \* the loop variables; stop = 0 outside a line
  failure                  \* the message of the exception

vars == <<lines, stations, files, phase, section, item, stop, failure>>

None == "none"
Failure(what, about) == [what |-> what, about |-> about]
NoFailure == Failure(None, None)

Put(f, key, value) ==
  [k \in DOMAIN f \cup {key} |-> IF k = key THEN value ELSE f[k]]

Throw(what, about) ==
  /\ phase' = "thrown"
  /\ failure' = Failure(what, about)
  /\ UNCHANGED <<files, section, item, stop>>

-----------------------------------------------------------------------------
Init ==
  /\ lines = <<>> /\ stations = <<>>
  /\ files = <<>> /\ phase = "new"
  /\ section = 0 /\ item = 0 /\ stop = 0
  /\ failure = NoFailure

ReadTransportFile(f) ==
  /\ phase \in {"new", "returned"} /\ Len(files) < MaxReads
  /\ files' = Append(files, f)
  /\ phase' = "opening"
  /\ section' = 1 /\ item' = 1 /\ stop' = 0
  /\ UNCHANGED <<lines, stations, failure>>

(* The checks of the file, and the parser. *)
OpenFile ==
  /\ phase = "opening"
  /\ \E fault \in {files[Len(files)].fault} :
       \/ /\ fault = None
          /\ phase' = "reading"
          /\ UNCHANGED <<files, section, item, stop, failure>>
       \/ fault # None /\ Throw(fault, None)
  /\ UNCHANGED <<lines, stations>>

Sections == files[Len(files)].sections

IsIn(tag) ==
  phase = "reading" /\ section \in DOMAIN Sections /\ Sections[section].tag = tag

Items == Sections[section].items

NeverInvalid(name) == FALSE   \* a slip: the name of a change is accepted

IsInvalidName(name) == name = CHANGE_NAME

-----------------------------------------------------------------------------
ReplaceStation(s) == stations' = Put(stations, s, {})   \* a slip: it starts anew

AddStation(s) ==
  stations' = IF s \in DOMAIN stations THEN stations ELSE Put(stations, s, {})

ExtractStation ==
  /\ IsIn("stations") /\ item \in DOMAIN Items
  /\ IF IsInvalidName(Items[item])
     THEN Throw("Invalid station name", Items[item]) /\ UNCHANGED stations
     ELSE /\ AddStation(Items[item])
          /\ item' = item + 1
          /\ UNCHANGED <<files, phase, section, stop, failure>>
  /\ UNCHANGED lines

-----------------------------------------------------------------------------
NeverDefined(name) == FALSE   \* a slip: a line replaces one of its name

IsDefined(name) == name \in DOMAIN lines

(* The head of a line: its stations come next. *)
ExtractLine ==
  /\ IsIn("lines") /\ item \in DOMAIN Items /\ stop = 0
  /\ \E name \in {Items[item].name} :
       CASE IsInvalidName(name) -> Throw("Invalid line name", name) /\ UNCHANGED lines
         [] ~IsInvalidName(name) /\ IsDefined(name) ->
              Throw("is defined twice", name) /\ UNCHANGED lines
         [] OTHER ->
              /\ lines' = Put(lines, name, [stations |-> <<>>, times |-> <<>>])
              /\ stop' = 1
              /\ UNCHANGED <<files, phase, section, item, failure>>
  /\ UNCHANGED stations

Clamped(time) == IF time < 0 THEN 0 ELSE time   \* a slip: no wrap at zero

(* lexical_cast takes a negative number modulo the range. *)
ToUnsigned(time) == time % UintRange

PushStation(l, s) == [lines EXCEPT ![l].stations = Append(@, s)]
PushTime(ls, l, time) == [ls EXCEPT ![l].times = Append(@, ToUnsigned(time))]

NoLineAt(s, l) == stations   \* a slip: the station does not hear of the line

InsertLine(s, l) == [stations EXCEPT ![s] = @ \cup {l}]

(* XMLString::release sets the pointer to null, and the message about the  *)
(* time is written after that.                                             *)
NameWhenTimeIsBad(s) == None

(* One stop of a line: the station is appended before it is looked up, and *)
(* the station has its line before the time is read.                       *)
SetLineStation ==
  /\ IsIn("lines") /\ stop > 0 /\ stop \in DOMAIN Items[item].stops
  /\ \E l \in {Items[item].name}, e \in {Items[item].stops[stop]} :
       \/ /\ e.station \notin DOMAIN stations
          /\ lines' = PushStation(l, e.station)
          /\ Throw("is not in station list", e.station)
          /\ UNCHANGED stations
       \/ /\ e.station \in DOMAIN stations /\ e.time = BadTime
          /\ lines' = PushStation(l, e.station)
          /\ stations' = InsertLine(e.station, l)
          /\ Throw("has no valid travel time", NameWhenTimeIsBad(e.station))
       \/ /\ e.station \in DOMAIN stations /\ e.time # BadTime
          /\ lines' = PushTime(PushStation(l, e.station), l, e.time)
          /\ stations' = InsertLine(e.station, l)
          /\ stop' = stop + 1
          /\ UNCHANGED <<files, phase, section, item, failure>>

LineIsRead ==
  /\ IsIn("lines") /\ stop > 0 /\ stop \notin DOMAIN Items[item].stops
  /\ item' = item + 1 /\ stop' = 0
  /\ UNCHANGED <<lines, stations, files, phase, section, failure>>

-----------------------------------------------------------------------------
(* Sections other than "stations" and "lines" are skipped. *)
NextSection ==
  /\ phase = "reading" /\ section \in DOMAIN Sections
  /\ Sections[section].tag \in {"stations", "lines"} => item \notin DOMAIN Items
  /\ section' = section + 1 /\ item' = 1
  /\ UNCHANGED <<lines, stations, files, phase, stop, failure>>

NoneUnvisited == {}   \* a slip: the check at the end is missing

Unvisited == {s \in DOMAIN stations : stations[s] = {}}

(* Names have no order here: any station without a line may be the first. *)
CheckStations ==
  /\ phase = "reading" /\ section \notin DOMAIN Sections
  /\ \/ \E s \in Unvisited : Throw("is not visited by any line", s)
     \/ /\ Unvisited = {}
        /\ phase' = "returned"
        /\ UNCHANGED <<files, section, item, stop, failure>>
  /\ UNCHANGED <<lines, stations>>

Read ==
  \/ OpenFile \/ ExtractStation \/ ExtractLine \/ SetLineStation \/ LineIsRead
  \/ NextSection \/ CheckStations

Next == (\E f \in Files : ReadTransportFile(f)) \/ Read

(* One thread reads the file to its end. *)
Spec == Init /\ [][Next]_vars /\ WF_vars(Read)

-----------------------------------------------------------------------------
(* The properties. *)

Phases == {"new", "opening", "reading", "returned", "thrown"}

(* Lines and stations are keyed by their names, none of which is that of a *)
(* change; stations are names of lines; an exception and only an exception *)
(* leaves a message.                                                       *)
TypeOK ==
  /\ phase \in Phases /\ Len(files) <= MaxReads
  /\ section \in Nat /\ item \in Nat /\ stop \in Nat
  /\ CHANGE_NAME \notin DOMAIN lines \cup DOMAIN stations
  /\ \A l \in DOMAIN lines :
       DOMAIN lines[l] = {"stations", "times"} /\ lines[l].times \in Seq(0..(UintRange - 1))
  /\ \A s \in DOMAIN stations : stations[s] \subseteq DOMAIN lines
  /\ (phase = "thrown") = (failure.what # None)

HalfRead ==
  {l \in DOMAIN lines : Len(lines[l].stations) # Len(lines[l].times)}

(* A stop goes into three containers one after the other, and each step    *)
(* may throw.  They agree all the time, but for the last stop of one line  *)
(* after an exception: it lacks its time, and its station too when it is   *)
(* the one that the message complains about.                               *)
OneStopAtMostIsHalfRead ==
  /\ \A s \in DOMAIN stations : stations[s] = LinesAt(s)
  /\ StationNames \ DOMAIN stations \subseteq {failure.about}
  /\ HalfRead # {} => phase = "thrown"
  /\ \A l, k \in HalfRead : l = k /\ Len(lines[l].stations) = Len(lines[l].times) + 1

(* What the graph builder relies on when reading has returned: every stop  *)
(* has a time, and the stations are those that the lines pass, so that no  *)
(* station is left without a node.                                         *)
NetworkIsConsistent ==
  phase = "returned" => HalfRead = {} /\ DOMAIN stations = StationNames

(* The line that is being read. *)
IsCurrent(l) == stop > 0 /\ l = Items[item].name

(* No later element and no later file changes a line that has been read;   *)
(* the one being read only grows.                                          *)
FinishedLinesStay ==
  [][\A l \in DOMAIN lines :
       /\ l \in DOMAIN lines'
       /\ lines'[l] # lines[l] => IsCurrent(l)
       /\ IsPrefix(lines[l].stations, lines'[l].stations)]_vars

LineItems(f) ==
  UNION {ToSet(f.sections[k].items) :
           k \in {j \in DOMAIN f.sections : f.sections[j].tag = "lines"}}

Fits(time) == time \in (-(UintRange \div 2))..(UintRange \div 2 - 1)

(* The graph builder gets the rides that the file has: its difference of   *)
(* unsigned times is the difference of the numbers in the file whenever    *)
(* that fits an int, also when some of them are negative.                  *)
RideTimesSurvive ==
  phase = "returned" =>
    \A f \in ToSet(files) : \A d \in LineItems(f) :
      \A i, j \in DOMAIN d.stops :
        \E time \in {d.stops[j].time - d.stops[i].time} :
          Fits(time) => RideTime(d.name, i, j) = time

(* The message about an unreadable time names the station, as its text in  *)
(* setLineStations says.                                                   *)
MessageNamesStation ==
  failure.what = "has no valid travel time" => failure.about \in DOMAIN stations

Promise == INSTANCE TransportFile WITH
  status <- IF phase = "opening" THEN "reading" ELSE phase,
  network <- IF phase = "returned" THEN [stations |-> stations, lines |-> lines] ELSE <<>>

(* Element by element, the reader takes just the files that TransportFile  *)
(* accepts as a whole, hands over the network it states, and always ends.  *)
ImplementsTransportFile == Promise!FileSpec
=============================================================================
