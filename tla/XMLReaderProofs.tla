-------------------------- MODULE XMLReaderProofs ---------------------------
(***************************************************************************)
(* What holds of the reader for all files.                                 *)
(*                                                                         *)
(* First: while elements are read every stop is in all three containers,   *)
(* so that an exception, which ends the reading, leaves one stop behind    *)
(* that is not (IInv), and the types (TInv).  Then: up to the place that   *)
(* reading has come to, the maps are what the elements say (RInv); with    *)
(* that, no ride changes its time, and each step is one of TransportFile.  *)
(***************************************************************************)
EXTENDS XMLReader, SequenceLemmas

IsSeq(s) == s \in Seq(ToSet(s))

IsLine(r) ==
  /\ r = [stations |-> r.stations, times |-> r.times]
  /\ IsSeq(r.stations) /\ IsSeq(r.times)

LinesType == \A l \in DOMAIN lines : IsLine(lines[l])

(* Between two elements, all stops have been read as a whole. *)
AllRead ==
  /\ \A l \in DOMAIN lines : Len(lines[l].stations) = Len(lines[l].times)
  /\ StationNames \subseteq DOMAIN stations

MapsAgree == \A s \in DOMAIN stations : stations[s] = LinesAt(s)

(* Within a line, the line is the one that was defined last. *)
LineIsDefined ==
  /\ phase = "opening" => stop = 0
  /\ phase = "reading" /\ stop > 0 =>
       /\ IsIn("lines") /\ item \in DOMAIN Items
       /\ Items[item].name \in DOMAIN lines

IInv ==
  /\ LinesType /\ MapsAgree /\ LineIsDefined
  /\ phase # "thrown" => AllRead
  /\ phase = "thrown" => OneStopAtMostIsHalfRead
  /\ NetworkIsConsistent

-----------------------------------------------------------------------------
(* Containers. *)

LEMMA EmptyRange == ASSUME NEW e, e = <<>> PROVE ToSet(e) = {}
BY DEF ToSet

LEMMA EmptyIsSeq == ASSUME NEW e, e = <<>> PROVE IsSeq(e)
<1>1. e \in Seq(ToSet(e))
  BY EmptyRange
<1> QED
  BY <1>1 DEF IsSeq

(* A sequence with an element more. *)
LEMMA Appended ==
  ASSUME NEW s, IsSeq(s), NEW e
  PROVE  /\ IsSeq(Append(s, e))
         /\ ToSet(Append(s, e)) = ToSet(s) \cup {e}
         /\ Len(Append(s, e)) = Len(s) + 1
         /\ Len(s) \in Nat
<1>1. s \in Seq(ToSet(s) \cup {e})
  BY DEF IsSeq
<1>2. /\ Append(s, e) \in Seq(ToSet(s) \cup {e})
      /\ Len(Append(s, e)) = Len(s) + 1 /\ Len(s) \in Nat
      /\ DOMAIN Append(s, e) = 1..(Len(s) + 1) /\ DOMAIN s = 1..Len(s)
      /\ \A i \in 1..Len(s) : Append(s, e)[i] = s[i]
      /\ Append(s, e)[Len(s) + 1] = e
  BY <1>1
<1>3. ToSet(Append(s, e)) = ToSet(s) \cup {e}
  BY <1>2 DEF ToSet
<1> QED
  BY <1>2, <1>3 DEF IsSeq

(* A map with one entry set. *)
LEMMA Entered ==
  ASSUME NEW f, NEW k, NEW v
  PROVE  /\ DOMAIN Put(f, k, v) = DOMAIN f \cup {k}
         /\ Put(f, k, v)[k] = v
         /\ \A j \in DOMAIN f : j # k => Put(f, k, v)[j] = f[j]
BY DEF Put

LEMMA TimesReplaced ==
  ASSUME NEW r, NEW a, NEW b, NEW c, r = [stations |-> a, times |-> b]
  PROVE  [r EXCEPT !.times = c] = [stations |-> a, times |-> c]
OBVIOUS

(* A station pushed to a line that is there. *)
LEMMA StationPushed ==
  ASSUME LinesType, NEW l \in DOMAIN lines, NEW s
  PROVE  /\ DOMAIN PushStation(l, s) = DOMAIN lines
         /\ PushStation(l, s)[l] =
              [stations |-> Append(lines[l].stations, s), times |-> lines[l].times]
         /\ \A k \in DOMAIN lines : k # l => PushStation(l, s)[k] = lines[k]
<1>1. lines[l] = [stations |-> lines[l].stations, times |-> lines[l].times]
  BY DEF LinesType, IsLine
<1> QED
  BY <1>1 DEF PushStation

(* A time pushed to that line as well. *)
LEMMA TimePushed ==
  ASSUME LinesType, NEW l \in DOMAIN lines, NEW s, NEW t
  PROVE  /\ DOMAIN PushTime(PushStation(l, s), l, t) = DOMAIN lines
         /\ PushTime(PushStation(l, s), l, t)[l] =
              [stations |-> Append(lines[l].stations, s),
               times |-> Append(lines[l].times, ToUnsigned(t))]
         /\ \A k \in DOMAIN lines : k # l => PushTime(PushStation(l, s), l, t)[k] = lines[k]
<1> DEFINE pushed == PushStation(l, s)
           passed == Append(lines[l].stations, s)
           times == Append(lines[l].times, ToUnsigned(t))
<1>1. /\ DOMAIN pushed = DOMAIN lines
      /\ pushed[l] = [stations |-> passed, times |-> lines[l].times]
      /\ \A k \in DOMAIN lines : k # l => pushed[k] = lines[k]
  BY StationPushed
<1> HIDE DEF pushed, passed
<1>2. PushTime(pushed, l, t) = [pushed EXCEPT ![l].times = times]
  BY <1>1 DEF PushTime
<1> HIDE DEF times
<1>3. /\ DOMAIN PushTime(pushed, l, t) = DOMAIN lines
      /\ \A k \in DOMAIN lines : k # l => PushTime(pushed, l, t)[k] = lines[k]
      /\ PushTime(pushed, l, t)[l] = [pushed[l] EXCEPT !.times = times]
  BY <1>1, <1>2
<1>4. PushTime(pushed, l, t)[l] = [stations |-> passed, times |-> times]
  BY <1>1, <1>3, TimesReplaced
<1> QED
  BY <1>3, <1>4 DEF pushed, passed, times

-----------------------------------------------------------------------------
(* What lines at stations follow from. *)

LEMMA Names ==
  \A s : s \in StationNames <=> \E l \in DOMAIN lines : s \in ToSet(lines[l].stations)
BY DEF StationNames

(* A line that has no stations yet. *)
LEMMA LineAdded ==
  ASSUME NEW l, l \notin DOMAIN lines,
         lines' = Put(lines, l, [stations |-> <<>>, times |-> <<>>])
  PROVE  /\ DOMAIN lines' = DOMAIN lines \cup {l}
         /\ lines'[l] = [stations |-> <<>>, times |-> <<>>]
         /\ \A k \in DOMAIN lines : lines'[k] = lines[k]
         /\ \A s : LinesAt(s)' = LinesAt(s)
         /\ StationNames' = StationNames
<1> DEFINE new == [stations |-> <<>>, times |-> <<>>]
<1>1. lines' = Put(lines, l, new)
  OBVIOUS
<1>2. new.stations = <<>>
  OBVIOUS
<1> HIDE DEF new
<1>3. /\ DOMAIN lines' = DOMAIN lines \cup {l}
      /\ lines'[l] = new
      /\ \A k \in DOMAIN lines : lines'[k] = lines[k]
  BY <1>1 DEF Put
<1>4. ToSet(lines'[l].stations) = {}
  <2>1. lines'[l].stations = <<>>
    BY <1>2, <1>3
  <2> QED
    BY <2>1, EmptyRange
<1>5. \A s : LinesAt(s)' = LinesAt(s)
  BY <1>3, <1>4 DEF LinesAt
<1>6. StationNames' = StationNames
  BY <1>3, <1>4 DEF StationNames
<1> QED
  BY <1>3, <1>5, <1>6 DEF new

(* A station more on a line. *)
LEMMA StopAdded ==
  ASSUME NEW l \in DOMAIN lines, NEW s,
         DOMAIN lines' = DOMAIN lines,
         ToSet(lines'[l].stations) = ToSet(lines[l].stations) \cup {s},
         \A k \in DOMAIN lines : k # l => lines'[k] = lines[k]
  PROVE  /\ \A t : t # s => LinesAt(t)' = LinesAt(t)
         /\ LinesAt(s)' = LinesAt(s) \cup {l}
         /\ StationNames' = StationNames \cup {s}
<1>1. \A t : t # s => LinesAt(t)' = LinesAt(t)
  BY DEF LinesAt
<1>2. LinesAt(s)' = LinesAt(s) \cup {l}
  BY DEF LinesAt
<1>3. \A t : t \in StationNames' <=> t \in StationNames \cup {s}
  BY DEF StationNames
<1> QED
  BY <1>1, <1>2, <1>3

-----------------------------------------------------------------------------
(* The steps. *)

LEMMA Start == Init => IInv
<1> SUFFICES ASSUME Init PROVE IInv
  OBVIOUS
<1>1. DOMAIN lines = {} /\ DOMAIN stations = {} /\ phase = "new" /\ stop = 0
  BY DEF Init
<1> QED
  BY <1>1 DEF IInv, LinesType, MapsAgree, LineIsDefined, AllRead, StationNames,
              NetworkIsConsistent

(* What a step that reads no station and no line has to keep. *)
LEMMA NetworkStays ==
  ASSUME IInv, UNCHANGED <<lines, stations>>
  PROVE  /\ LinesType' /\ MapsAgree'
         /\ AllRead => AllRead'
BY DEF IInv, LinesType, MapsAgree, AllRead, LinesAt, StationNames

(* Where nothing is half read, an exception leaves nothing half read. *)
LEMMA AllReadSuffices ==
  ASSUME MapsAgree, AllRead
  PROVE  OneStopAtMostIsHalfRead /\ HalfRead = {}
BY DEF MapsAgree, AllRead, OneStopAtMostIsHalfRead, HalfRead

LEMMA ReadingStarts ==
  ASSUME IInv, NEW f, ReadTransportFile(f)
  PROVE  IInv'
<1>1. phase # "thrown" /\ phase' = "opening" /\ stop' = 0 /\ UNCHANGED <<lines, stations>>
  BY DEF ReadTransportFile
<1>2. LinesType' /\ MapsAgree' /\ AllRead'
  BY <1>1, NetworkStays DEF IInv
<1> QED
  BY <1>1, <1>2 DEF IInv, LineIsDefined, NetworkIsConsistent

LEMMA FileOpens ==
  ASSUME IInv, OpenFile
  PROVE  IInv'
<1>1. phase = "opening" /\ stop = 0 /\ AllRead /\ UNCHANGED <<lines, stations>>
  BY DEF OpenFile, IInv, LineIsDefined
<1>2. LinesType' /\ MapsAgree' /\ AllRead'
  BY <1>1, NetworkStays
<1>3. phase' \in {"reading", "thrown"} /\ stop' = stop
  BY DEF OpenFile, Throw
<1>4. OneStopAtMostIsHalfRead'
  <2>1. OneStopAtMostIsHalfRead
    BY <1>1, AllReadSuffices DEF IInv
  <2> QED
    BY <1>1, <1>2 DEF OneStopAtMostIsHalfRead, MapsAgree, AllRead, HalfRead
<1> QED
  BY <1>1, <1>2, <1>3, <1>4 DEF IInv, LineIsDefined, NetworkIsConsistent

(* A station of the list has no line yet, or is known. *)
LEMMA StationIsExtracted ==
  ASSUME IInv, ExtractStation
  PROVE  IInv'
<1>1. phase = "reading" /\ AllRead /\ lines' = lines /\ ~(stop > 0)
  BY DEF ExtractStation, IInv, LineIsDefined, IsIn
<1>2. /\ DOMAIN stations \subseteq DOMAIN stations'
      /\ \A s \in DOMAIN stations : stations'[s] = stations[s]
      /\ \A s \in DOMAIN stations' \ DOMAIN stations : stations'[s] = {}
  BY DEF ExtractStation, AddStation, Put
<1>3. LinesType' /\ AllRead'
  BY <1>1, <1>2 DEF IInv, LinesType, AllRead, StationNames
<1>4. MapsAgree'
  <2>1. \A s : LinesAt(s)' = LinesAt(s)
    BY <1>1 DEF LinesAt
  <2>2. \A s : s \notin DOMAIN stations => LinesAt(s) = {}
    BY <1>1 DEF AllRead, LinesAt, StationNames
  <2> QED
    BY <1>2, <2>1, <2>2 DEF IInv, MapsAgree
<1>5. OneStopAtMostIsHalfRead'
  BY <1>3, <1>4 DEF OneStopAtMostIsHalfRead, MapsAgree, AllRead, HalfRead
<1>6. phase' \in {"reading", "thrown"} /\ stop' = stop
  BY <1>1 DEF ExtractStation, Throw
<1> QED
  BY <1>1, <1>3, <1>4, <1>5, <1>6 DEF IInv, LineIsDefined, NetworkIsConsistent

LEMMA LineIsExtracted ==
  ASSUME IInv, ExtractLine
  PROVE  IInv'
<1> DEFINE name == Items[item].name
           new == [stations |-> <<>>, times |-> <<>>]
<1>1. /\ phase = "reading" /\ AllRead /\ stations' = stations /\ stop = 0
      /\ IsIn("lines") /\ item \in DOMAIN Items
  BY DEF ExtractLine, IInv, IsIn
<1>2. CASE lines' = lines /\ phase' = "thrown" /\ stop' = stop
  <2>1. LinesType' /\ MapsAgree' /\ AllRead'
    BY <1>1, <1>2, NetworkStays
  <2>2. OneStopAtMostIsHalfRead'
    BY <2>1 DEF OneStopAtMostIsHalfRead, MapsAgree, AllRead, HalfRead
  <2> QED
    BY <1>2, <2>1, <2>2 DEF IInv, LineIsDefined, NetworkIsConsistent
<1>3. CASE /\ name \notin DOMAIN lines /\ lines' = Put(lines, name, new)
           /\ UNCHANGED <<files, phase, section, item>>
  <2>1. /\ DOMAIN lines' = DOMAIN lines \cup {name}
        /\ lines'[name] = new
        /\ \A k \in DOMAIN lines : lines'[k] = lines[k]
        /\ \A s : LinesAt(s)' = LinesAt(s)
        /\ StationNames' = StationNames
    BY <1>3, LineAdded
  <2>2. /\ new = [stations |-> new.stations, times |-> new.times]
        /\ new.stations = <<>> /\ new.times = <<>>
        /\ Len(new.stations) = Len(new.times)
    OBVIOUS
  <2> HIDE DEF new
  <2>3. IsLine(new)
    BY <2>2, EmptyIsSeq DEF IsLine
  <2> HIDE DEF name
  <2>4. LinesType'
    BY <2>1, <2>3 DEF IInv, LinesType
  <2>5. MapsAgree'
    BY <1>1, <2>1 DEF IInv, MapsAgree
  <2>6. AllRead'
    BY <1>1, <2>1, <2>2 DEF AllRead
  <2>7. LineIsDefined'
    BY <1>1, <1>3, <2>1 DEF LineIsDefined, IsIn, Items, Sections, name
  <2> QED
    BY <1>1, <1>3, <2>4, <2>5, <2>6, <2>7 DEF IInv, NetworkIsConsistent
<1> QED
  BY <1>1, <1>2, <1>3 DEF ExtractLine, Throw, IsDefined

(* A stop whose time is not read leaves its line a station longer than its *)
(* times.                                                                  *)
LEMMA StopIsLeft ==
  ASSUME IInv, AllRead, NEW l \in DOMAIN lines, NEW s, lines' = PushStation(l, s)
  PROVE  /\ LinesType'
         /\ \A t : t # s => LinesAt(t)' = LinesAt(t)
         /\ LinesAt(s)' = LinesAt(s) \cup {l}
         /\ StationNames' = StationNames \cup {s}
         /\ \A k \in HalfRead' : k = l
         /\ Len(lines'[l].stations) = Len(lines'[l].times) + 1
<1>1. /\ DOMAIN lines' = DOMAIN lines
      /\ lines'[l].stations = Append(lines[l].stations, s)
      /\ lines'[l].times = lines[l].times
      /\ lines'[l] = [stations |-> lines'[l].stations, times |-> lines'[l].times]
      /\ \A k \in DOMAIN lines : k # l => lines'[k] = lines[k]
  <2> DEFINE passed == Append(lines[l].stations, s)
  <2>1. /\ DOMAIN lines' = DOMAIN lines
        /\ lines'[l] = [stations |-> passed, times |-> lines[l].times]
        /\ \A k \in DOMAIN lines : k # l => lines'[k] = lines[k]
    BY StationPushed DEF IInv
  <2> HIDE DEF passed
  <2>2. /\ lines'[l].stations = passed /\ lines'[l].times = lines[l].times
        /\ lines'[l] = [stations |-> lines'[l].stations, times |-> lines'[l].times]
    BY <2>1
  <2> QED
    BY <2>1, <2>2 DEF passed
<1>2. IsSeq(lines[l].stations) /\ IsSeq(lines[l].times)
  BY DEF IInv, LinesType, IsLine
<1>3. /\ IsSeq(lines'[l].stations)
      /\ ToSet(lines'[l].stations) = ToSet(lines[l].stations) \cup {s}
      /\ Len(lines'[l].stations) = Len(lines[l].stations) + 1
  BY <1>1, <1>2, Appended
<1>4. LinesType'
  <2>1. IsLine(lines'[l])
    BY <1>1, <1>2, <1>3 DEF IsLine
  <2> QED
    BY <1>1, <2>1 DEF IInv, LinesType
<1>5. Len(lines'[l].stations) = Len(lines'[l].times) + 1
  BY <1>1, <1>3 DEF AllRead
<1>6. \A k \in HalfRead' : k = l
  BY <1>1 DEF HalfRead, AllRead
<1> QED
  BY <1>1, <1>3, <1>4, <1>5, <1>6, StopAdded

(* A stop with its time. *)
LEMMA StopIsRead ==
  ASSUME IInv, AllRead, NEW l \in DOMAIN lines, NEW s \in DOMAIN stations, NEW time,
         lines' = PushTime(PushStation(l, s), l, time),
         stations' = InsertLine(s, l)
  PROVE  LinesType' /\ MapsAgree' /\ AllRead' /\ DOMAIN lines' = DOMAIN lines
<1> DEFINE u == ToUnsigned(time)
<1> HIDE DEF u
<1>1. /\ DOMAIN lines' = DOMAIN lines
      /\ lines'[l].stations = Append(lines[l].stations, s)
      /\ lines'[l].times = Append(lines[l].times, u)
      /\ lines'[l] = [stations |-> lines'[l].stations, times |-> lines'[l].times]
      /\ \A k \in DOMAIN lines : k # l => lines'[k] = lines[k]
  <2> DEFINE passed == Append(lines[l].stations, s)
             times == Append(lines[l].times, u)
  <2>1. /\ DOMAIN lines' = DOMAIN lines
        /\ lines'[l] = [stations |-> passed, times |-> times]
        /\ \A k \in DOMAIN lines : k # l => lines'[k] = lines[k]
    BY TimePushed DEF IInv, u
  <2> HIDE DEF passed, times
  <2>2. /\ lines'[l].stations = passed /\ lines'[l].times = times
        /\ lines'[l] = [stations |-> lines'[l].stations, times |-> lines'[l].times]
    BY <2>1
  <2> QED
    BY <2>1, <2>2 DEF passed, times
<1>2. /\ IsSeq(lines[l].stations) /\ IsSeq(lines[l].times)
      /\ Len(lines[l].stations) = Len(lines[l].times)
  BY DEF IInv, LinesType, IsLine, AllRead
<1>3. /\ IsSeq(lines'[l].stations)
      /\ ToSet(lines'[l].stations) = ToSet(lines[l].stations) \cup {s}
      /\ Len(lines'[l].stations) = Len(lines[l].stations) + 1
  BY <1>1, <1>2, Appended
<1>4. IsSeq(lines'[l].times) /\ Len(lines'[l].times) = Len(lines[l].times) + 1
  BY <1>1, <1>2, Appended
<1>5. LinesType'
  <2>1. IsLine(lines'[l])
    BY <1>1, <1>3, <1>4 DEF IsLine
  <2> QED
    BY <1>1, <2>1 DEF IInv, LinesType
<1>6. /\ \A t : t # s => LinesAt(t)' = LinesAt(t)
      /\ LinesAt(s)' = LinesAt(s) \cup {l}
      /\ StationNames' = StationNames \cup {s}
  BY <1>1, <1>3, StopAdded
<1>7. DOMAIN stations' = DOMAIN stations
  BY DEF InsertLine
<1>8. MapsAgree'
  BY <1>6, <1>7 DEF IInv, MapsAgree, InsertLine
<1>9. AllRead'
  <2>1. Len(lines'[l].stations) = Len(lines'[l].times)
    BY <1>2, <1>3, <1>4
  <2> QED
    BY <1>1, <1>6, <1>7, <2>1 DEF AllRead
<1> QED
  BY <1>1, <1>5, <1>8, <1>9

LEMMA StationOfLineIsSet ==
  ASSUME IInv, SetLineStation
  PROVE  IInv'
<1>1. /\ phase = "reading" /\ AllRead /\ MapsAgree /\ stop > 0
      /\ IsIn("lines") /\ item \in DOMAIN Items /\ Items[item].name \in DOMAIN lines
  BY DEF SetLineStation, IInv, LineIsDefined, IsIn
<1>2. PICK l \in {Items[item].name}, e \in {Items[item].stops[stop]} :
       \/ /\ e.station \notin DOMAIN stations
          /\ lines' = PushStation(l, e.station)
          /\ Throw("is not in station list", e.station)
          /\ UNCHANGED stations
       \/ /\ e.station \in DOMAIN stations /\ e.time = BadTime
          /\ lines' = PushStation(l, e.station)
          /\ stations' = InsertLine(e.station, l)
          /\ Throw("has no valid travel time", NameWhenTimeIsBad(e.station))
       \/ /\ e.station \in DOMAIN stations /\ e.time # BadTime
          /\ lines' = PushTime(PushStation(l, e.station), l, e.time)
          /\ stations' = InsertLine(e.station, l)
          /\ stop' = stop + 1
          /\ UNCHANGED <<files, phase, section, item, failure>>
  BY DEF SetLineStation
<1>3. l \in DOMAIN lines
  BY <1>1, <1>2
<1> DEFINE s == e.station
<1>4. CASE /\ s \notin DOMAIN stations
           /\ lines' = PushStation(l, s) /\ stations' = stations
           /\ Throw("is not in station list", s)
  <2> failure'.about = s /\ phase' = "thrown"
    BY <1>4 DEF Throw, Failure
  <2>1. /\ LinesType'
        /\ \A t : t # s => LinesAt(t)' = LinesAt(t)
        /\ StationNames' = StationNames \cup {s}
        /\ \A k \in HalfRead' : k = l
        /\ Len(lines'[l].stations) = Len(lines'[l].times) + 1
    BY <1>1, <1>3, <1>4, StopIsLeft
  <2>2. MapsAgree'
    BY <1>1, <1>4, <2>1 DEF MapsAgree
  <2>3. StationNames' \ DOMAIN stations' \subseteq {failure'.about}
    BY <1>1, <1>4, <2>1 DEF AllRead
  <2>4. OneStopAtMostIsHalfRead'
    BY <1>4, <2>1, <2>2, <2>3 DEF OneStopAtMostIsHalfRead, MapsAgree
  <2> QED
    BY <1>4, <2>1, <2>2, <2>4 DEF IInv, LineIsDefined, NetworkIsConsistent
<1>5. CASE /\ s \in DOMAIN stations
           /\ lines' = PushStation(l, s) /\ stations' = InsertLine(s, l)
           /\ Throw("has no valid travel time", NameWhenTimeIsBad(s))
  <2> phase' = "thrown"
    BY <1>5 DEF Throw
  <2>1. /\ LinesType'
        /\ \A t : t # s => LinesAt(t)' = LinesAt(t)
        /\ LinesAt(s)' = LinesAt(s) \cup {l}
        /\ StationNames' = StationNames \cup {s}
        /\ \A k \in HalfRead' : k = l
        /\ Len(lines'[l].stations) = Len(lines'[l].times) + 1
    BY <1>1, <1>3, <1>5, StopIsLeft
  <2>2. DOMAIN stations' = DOMAIN stations
    BY <1>5 DEF InsertLine
  <2>3. MapsAgree'
    BY <1>1, <1>5, <2>1, <2>2 DEF MapsAgree, InsertLine
  <2>4. StationNames' \subseteq DOMAIN stations'
    BY <1>1, <1>5, <2>1, <2>2 DEF AllRead
  <2>5. OneStopAtMostIsHalfRead'
    BY <1>5, <2>1, <2>3, <2>4 DEF OneStopAtMostIsHalfRead, MapsAgree
  <2> QED
    BY <1>5, <2>1, <2>3, <2>5 DEF IInv, LineIsDefined, NetworkIsConsistent
<1>6. CASE /\ s \in DOMAIN stations
           /\ lines' = PushTime(PushStation(l, s), l, e.time)
           /\ stations' = InsertLine(s, l)
           /\ UNCHANGED <<files, phase, section, item>>
  <2>1. LinesType' /\ MapsAgree' /\ AllRead' /\ DOMAIN lines' = DOMAIN lines
    BY <1>1, <1>3, <1>6, StopIsRead
  <2>2. LineIsDefined'
    BY <1>1, <1>6, <2>1 DEF LineIsDefined, IsIn, Items, Sections
  <2> QED
    BY <1>1, <1>6, <2>1, <2>2 DEF IInv, NetworkIsConsistent
<1> QED
  BY <1>2, <1>4, <1>5, <1>6

LEMMA LineEnds ==
  ASSUME IInv, LineIsRead
  PROVE  IInv'
<1>1. /\ phase = "reading" /\ phase' = "reading" /\ stop' = 0
      /\ UNCHANGED <<lines, stations>>
  BY DEF LineIsRead, IsIn
<1>2. LinesType' /\ MapsAgree' /\ AllRead'
  BY <1>1, NetworkStays DEF IInv
<1> QED
  BY <1>1, <1>2 DEF IInv, LineIsDefined, NetworkIsConsistent

(* The loop over the sections does not get on within a line. *)
LEMMA SectionEnds ==
  ASSUME IInv, NextSection
  PROVE  IInv'
<1>1. /\ phase = "reading" /\ phase' = "reading" /\ stop' = stop
      /\ UNCHANGED <<lines, stations>>
  BY DEF NextSection
<1>2. LinesType' /\ MapsAgree' /\ AllRead'
  BY <1>1, NetworkStays DEF IInv
<1>3. ~(stop > 0)
  BY <1>1 DEF NextSection, IInv, LineIsDefined, IsIn
<1> QED
  BY <1>1, <1>2, <1>3 DEF IInv, LineIsDefined, NetworkIsConsistent

LEMMA StationsAreChecked ==
  ASSUME IInv, CheckStations
  PROVE  IInv'
<1>1. phase = "reading" /\ AllRead /\ MapsAgree /\ UNCHANGED <<lines, stations>>
  BY DEF CheckStations, IInv
<1>2. LinesType' /\ MapsAgree' /\ AllRead'
  BY <1>1, NetworkStays
<1>3. OneStopAtMostIsHalfRead' /\ HalfRead' = {}
  BY <1>2 DEF OneStopAtMostIsHalfRead, MapsAgree, AllRead, HalfRead
<1>4. CASE phase' = "thrown"
  BY <1>2, <1>3, <1>4 DEF IInv, LineIsDefined, NetworkIsConsistent
<1>5. CASE phase' = "returned" /\ Unvisited = {}
  <2>1. DOMAIN stations \subseteq StationNames
    BY <1>1, <1>5 DEF Unvisited, MapsAgree, LinesAt, StationNames
  <2>2. NetworkIsConsistent'
    BY <1>1, <1>2, <1>3, <2>1 DEF NetworkIsConsistent, AllRead, StationNames
  <2> QED
    BY <1>2, <1>5, <2>2 DEF IInv, LineIsDefined
<1> QED
  BY <1>4, <1>5 DEF CheckStations, Throw

LEMMA Stutters ==
  ASSUME IInv, UNCHANGED vars
  PROVE  IInv'
<1>1. UNCHANGED <<lines, stations, files, phase, section, item, stop, failure>>
  BY DEF vars
<1>2. LinesType' /\ MapsAgree' /\ (AllRead => AllRead')
  BY <1>1, NetworkStays
<1>3. LineIsDefined'
  BY <1>1 DEF IInv, LineIsDefined, IsIn, Items, Sections
<1>4. /\ OneStopAtMostIsHalfRead => OneStopAtMostIsHalfRead'
      /\ NetworkIsConsistent => NetworkIsConsistent'
  BY <1>1 DEF OneStopAtMostIsHalfRead, NetworkIsConsistent, HalfRead, LinesAt, StationNames
<1> QED
  BY <1>1, <1>2, <1>3, <1>4 DEF IInv

-----------------------------------------------------------------------------
(* The theorems. *)

(* The inductive invariant of the reader: while elements are read, all     *)
(* stops are in all three containers.                                      *)
THEOREM Inductive == Spec => []IInv
<1>1. Init => IInv
  BY Start
<1>2. IInv /\ [Next]_vars => IInv'
  <2> SUFFICES ASSUME IInv, [Next]_vars PROVE IInv'
    OBVIOUS
  <2>1. ASSUME NEW f \in Files, ReadTransportFile(f) PROVE IInv'
    BY <2>1, ReadingStarts
  <2>2. CASE OpenFile
    BY <2>2, FileOpens
  <2>3. CASE ExtractStation
    BY <2>3, StationIsExtracted
  <2>4. CASE ExtractLine
    BY <2>4, LineIsExtracted
  <2>5. CASE SetLineStation
    BY <2>5, StationOfLineIsSet
  <2>6. CASE LineIsRead
    BY <2>6, LineEnds
  <2>7. CASE NextSection
    BY <2>7, SectionEnds
  <2>8. CASE CheckStations
    BY <2>8, StationsAreChecked
  <2>9. CASE UNCHANGED vars
    BY <2>9, Stutters
  <2> QED
    BY <2>1, <2>2, <2>3, <2>4, <2>5, <2>6, <2>7, <2>8, <2>9 DEF Next, Read
<1> QED
  BY <1>1, <1>2, PTL DEF Spec

(* Whatever is in the files: station and line maps agree but for one stop  *)
(* of one line after an exception of setLineStations.                      *)
THEOREM MapsAgreeButForOneStop == Spec => []OneStopAtMostIsHalfRead
<1>1. IInv => OneStopAtMostIsHalfRead
  BY AllReadSuffices DEF IInv
<1> QED
  BY <1>1, Inductive, PTL

(* Whatever is in the files: the network handed to the graph builder has a *)
(* time for each stop, and each of its stations is one of a line.          *)
THEOREM ConsistentNetworks == Spec => []NetworkIsConsistent
<1>1. IInv => NetworkIsConsistent
  BY DEF IInv
<1> QED
  BY <1>1, Inductive, PTL

LEMMA PrefixOfAppended ==
  ASSUME NEW s, IsSeq(s), NEW e
  PROVE  IsPrefix(s, s) /\ IsPrefix(s, Append(s, e))
<1>1. s \in Seq(ToSet(s) \cup {e})
  BY DEF IsSeq
<1>2. /\ Len(Append(s, e)) = Len(s) + 1 /\ Len(s) \in Nat
      /\ \A i \in 1..Len(s) : Append(s, e)[i] = s[i]
  BY <1>1
<1>3. SubSeq(Append(s, e), 1, Len(s)) = SubSeq(s, 1, Len(s))
  BY <1>2
<1> QED
  BY <1>2, <1>3 DEF IsPrefix

LEMMA LinesStayInStep ==
  ASSUME IInv, [Next]_vars, NEW l \in DOMAIN lines
  PROVE  /\ l \in DOMAIN lines'
         /\ lines'[l] # lines[l] => IsCurrent(l)
         /\ IsPrefix(lines[l].stations, lines'[l].stations)
<1>1. IsSeq(lines[l].stations)
  BY DEF IInv, LinesType, IsLine
<1>2. CASE lines' = lines
  BY <1>1, <1>2, PrefixOfAppended
<1>3. CASE ExtractLine
  <2>1. CASE lines' = lines
    BY <1>2, <2>1
  <2>2. CASE \E name : /\ name \notin DOMAIN lines
                       /\ lines' = Put(lines, name, [stations |-> <<>>, times |-> <<>>])
    <3>1. l \in DOMAIN lines' /\ lines'[l] = lines[l]
      BY <2>2, LineAdded
    <3> QED
      BY <1>1, <3>1, PrefixOfAppended
  <2> QED
    BY <1>3, <2>1, <2>2 DEF ExtractLine, IsDefined
<1>4. CASE SetLineStation
  <2>1. stop > 0 /\ Items[item].name \in DOMAIN lines /\ LinesType
    BY <1>4 DEF SetLineStation, IInv, LineIsDefined, IsIn
  <2>2. PICK k \in {Items[item].name}, e \in {Items[item].stops[stop]} :
          \/ lines' = PushStation(k, e.station)
          \/ lines' = PushTime(PushStation(k, e.station), k, e.time)
    BY <1>4 DEF SetLineStation
  <2>3. k \in DOMAIN lines
    BY <2>1, <2>2
  <2>4. /\ DOMAIN lines' = DOMAIN lines
        /\ l # k => lines'[l] = lines[l]
        /\ lines'[k].stations = Append(lines[k].stations, e.station)
    <3> DEFINE passed == Append(lines[k].stations, e.station)
               times == Append(lines[k].times, ToUnsigned(e.time))
    <3>1. CASE lines' = PushStation(k, e.station)
      <4>1. /\ DOMAIN lines' = DOMAIN lines
            /\ l # k => lines'[l] = lines[l]
            /\ lines'[k] = [stations |-> passed, times |-> lines[k].times]
        BY <2>1, <2>3, <3>1, StationPushed
      <4> HIDE DEF passed
      <4>2. lines'[k].stations = passed
        BY <4>1
      <4> QED
        BY <4>1, <4>2 DEF passed
    <3>2. CASE lines' = PushTime(PushStation(k, e.station), k, e.time)
      <4>1. /\ DOMAIN lines' = DOMAIN lines
            /\ l # k => lines'[l] = lines[l]
            /\ lines'[k] = [stations |-> passed, times |-> times]
        BY <2>1, <2>3, <3>2, TimePushed
      <4> HIDE DEF passed, times
      <4>2. lines'[k].stations = passed
        BY <4>1
      <4> QED
        BY <4>1, <4>2 DEF passed
    <3> QED
      BY <2>2, <3>1, <3>2
  <2>5. CASE l = k
    BY <1>1, <2>1, <2>2, <2>4, <2>5, PrefixOfAppended DEF IsCurrent
  <2>6. CASE l # k
    BY <1>1, <2>4, <2>6, PrefixOfAppended
  <2> QED
    BY <2>5, <2>6
<1> QED
  BY <1>2, <1>3, <1>4 DEF Next, Read, vars, ReadTransportFile, OpenFile, ExtractStation,
                          LineIsRead, NextSection, CheckStations

(* Whatever is in the files: a line that is there stays, only the one      *)
(* being read changes, and it only grows.                                  *)
THEOREM LinesStay == Spec => FinishedLinesStay
<1>1. IInv /\ [Next]_vars =>
        [\A l \in DOMAIN lines :
           /\ l \in DOMAIN lines'
           /\ lines'[l] # lines[l] => IsCurrent(l)
           /\ IsPrefix(lines[l].stations, lines'[l].stations)]_vars
  BY LinesStayInStep
<1> QED
  BY <1>1, Inductive, PTL DEF Spec, FinishedLinesStay

-----------------------------------------------------------------------------
(* Types. *)

(* The files are known ones, so that FilesAssumption holds of their times. *)
ControlType ==
  /\ phase \in Phases
  /\ files \in Seq(Files) /\ Len(files) <= MaxReads
  /\ phase \in {"opening", "reading"} => Len(files) > 0
  /\ section \in Nat /\ item \in Nat /\ stop \in Nat

NamesAreFree == CHANGE_NAME \notin DOMAIN lines \cup DOMAIN stations

TimesType == \A l \in DOMAIN lines : lines[l].times \in Seq(0..(UintRange - 1))

MessageAgrees == (phase = "thrown") = (failure.what # None)

TInv == ControlType /\ NamesAreFree /\ TimesType /\ MessageAgrees

LEMMA TypesStart == Init => TInv
<1> SUFFICES ASSUME Init PROVE TInv
  OBVIOUS
<1>1. DOMAIN lines = {} /\ DOMAIN stations = {} /\ files = <<>> /\ phase = "new"
  BY DEF Init
<1>2. ControlType
  BY <1>1, FilesAssumption DEF Init, ControlType, Phases
<1>3. NamesAreFree /\ TimesType
  BY <1>1 DEF NamesAreFree, TimesType
<1>4. MessageAgrees
  BY <1>1 DEF Init, MessageAgrees, NoFailure, Failure
<1> QED
  BY <1>2, <1>3, <1>4 DEF TInv

LEMMA ExceptionThrown ==
  ASSUME NEW what, NEW about, what # None, Throw(what, about)
  PROVE  phase' = "thrown" /\ failure'.what # None /\ UNCHANGED <<files, section, item, stop>>
BY DEF Throw, Failure

(* An exception of an element, or the next one. *)
Thrown ==
  phase' = "thrown" /\ failure'.what # None /\ UNCHANGED <<files, section, item, stop>>

Passed ==
  /\ UNCHANGED <<files, phase, section, failure>>
  /\ item' = item \/ item' = item + 1
  /\ stop' = stop \/ stop' = 1 \/ stop' = stop + 1

LEMMA ElementOutcome ==
  ASSUME ExtractStation \/ ExtractLine \/ SetLineStation
  PROVE  phase = "reading" /\ (Thrown \/ Passed)
<1>1. phase = "reading"
  BY DEF ExtractStation, ExtractLine, SetLineStation, IsIn
<1>2. CASE ExtractStation
  <2>1. "Invalid station name" # None
    BY DEF None
  <2>2. Throw("Invalid station name", Items[item]) \/ Passed
    BY <1>2 DEF ExtractStation, Passed
  <2> QED
    BY <1>1, <2>1, <2>2, ExceptionThrown DEF Thrown
<1>3. CASE ExtractLine
  <2>1. "Invalid line name" # None /\ "is defined twice" # None
    BY DEF None
  <2>2. \E name : \/ Throw("Invalid line name", name)
                  \/ Throw("is defined twice", name)
                  \/ Passed
    BY <1>3 DEF ExtractLine, Passed
  <2> QED
    BY <1>1, <2>1, <2>2, ExceptionThrown DEF Thrown
<1>4. CASE SetLineStation
  <2>1. "is not in station list" # None /\ "has no valid travel time" # None
    BY DEF None
  <2>2. \E about : \/ Throw("is not in station list", about)
                   \/ Throw("has no valid travel time", about)
                   \/ Passed
    BY <1>4 DEF SetLineStation, Passed
  <2> QED
    BY <1>1, <2>1, <2>2, ExceptionThrown DEF Thrown
<1> QED
  BY <1>2, <1>3, <1>4

LEMMA ControlStep ==
  ASSUME TInv, [Next]_vars
  PROVE  ControlType'
<1> USE DEF TInv, ControlType, Phases
<1>1. ASSUME NEW f \in Files, ReadTransportFile(f) PROVE ControlType'
  BY <1>1, FilesAssumption DEF ReadTransportFile
<1>2. CASE OpenFile
  BY <1>2 DEF OpenFile, Throw
<1>3. CASE ExtractStation \/ ExtractLine \/ SetLineStation
  <2>1. phase = "reading"
    BY <1>3, ElementOutcome
  <2>2. CASE Thrown
    BY <2>1, <2>2 DEF Thrown
  <2>3. CASE Passed
    BY <2>1, <2>3 DEF Passed
  <2> QED
    BY <1>3, <2>2, <2>3, ElementOutcome
<1>4. CASE LineIsRead
  BY <1>4 DEF LineIsRead, IsIn
<1>5. CASE NextSection
  BY <1>5 DEF NextSection
<1>6. CASE CheckStations
  BY <1>6 DEF CheckStations, Throw
<1>7. CASE UNCHANGED vars
  BY <1>7 DEF vars
<1> QED
  BY <1>1, <1>2, <1>3, <1>4, <1>5, <1>6, <1>7 DEF Next, Read

LEMMA StopTaken ==
  ASSUME LinesType, NEW l \in DOMAIN lines, NEW s, NEW time,
         lines' = PushTime(PushStation(l, s), l, time)
  PROVE  /\ DOMAIN lines' = DOMAIN lines
         /\ lines'[l] = [stations |-> Append(lines[l].stations, s),
                        times |-> Append(lines[l].times, ToUnsigned(time))]
         /\ \A k \in DOMAIN lines : k # l => lines'[k] = lines[k]
BY TimePushed

LEMMA NamesStep ==
  ASSUME IInv, TInv, [Next]_vars
  PROVE  NamesAreFree'
<1> USE DEF TInv, NamesAreFree
<1>1. CASE UNCHANGED <<lines, stations>>
  BY <1>1
<1>2. CASE ExtractStation
  <2>1. lines' = lines
    BY <1>2 DEF ExtractStation
  <2>2. \/ stations' = stations
        \/ Items[item] # CHANGE_NAME /\ AddStation(Items[item])
    BY <1>2 DEF ExtractStation, IsInvalidName
  <2> QED
    BY <2>1, <2>2 DEF AddStation, Put
<1>3. CASE ExtractLine
  <2>1. stations' = stations
    BY <1>3 DEF ExtractLine
  <2>2. \/ lines' = lines
        \/ \E name : /\ name # CHANGE_NAME
                     /\ lines' = Put(lines, name, [stations |-> <<>>, times |-> <<>>])
    BY <1>3 DEF ExtractLine, IsInvalidName
  <2> QED
    BY <2>1, <2>2 DEF Put
<1>4. CASE SetLineStation
  <2>1. LinesType /\ Items[item].name \in DOMAIN lines
    BY <1>4 DEF SetLineStation, IInv, LineIsDefined, IsIn
  <2>2. PICK k \in DOMAIN lines : \E s, time :
          \/ lines' = PushStation(k, s)
          \/ lines' = PushTime(PushStation(k, s), k, time)
    BY <1>4, <2>1 DEF SetLineStation
  <2>3. DOMAIN lines' = DOMAIN lines
    <3>1. ASSUME NEW s, lines' = PushStation(k, s) PROVE DOMAIN lines' = DOMAIN lines
      BY <2>1, <3>1, StationPushed
    <3>2. ASSUME NEW s, NEW time, lines' = PushTime(PushStation(k, s), k, time)
          PROVE  DOMAIN lines' = DOMAIN lines
      BY <2>1, <3>2, StopTaken
    <3> QED
      BY <2>2, <3>1, <3>2
  <2>4. DOMAIN stations' = DOMAIN stations
    BY <1>4 DEF SetLineStation, InsertLine
  <2> QED
    BY <2>3, <2>4
<1> QED
  BY <1>1, <1>2, <1>3, <1>4 DEF Next, Read, vars, ReadTransportFile, OpenFile,
                                LineIsRead, NextSection, CheckStations

LEMMA MessageStep ==
  ASSUME TInv, [Next]_vars
  PROVE  MessageAgrees'
<1> USE DEF TInv, MessageAgrees, Failure, None
<1>1. ASSUME NEW f \in Files, ReadTransportFile(f) PROVE MessageAgrees'
  BY <1>1 DEF ReadTransportFile
<1>2. CASE OpenFile
  BY <1>2 DEF OpenFile, Throw
<1>3. CASE ExtractStation \/ ExtractLine \/ SetLineStation
  <2>1. phase = "reading"
    BY <1>3, ElementOutcome
  <2>2. CASE Thrown
    BY <2>1, <2>2 DEF Thrown
  <2>3. CASE Passed
    BY <2>1, <2>3 DEF Passed
  <2> QED
    BY <1>3, <2>2, <2>3, ElementOutcome
<1>4. CASE LineIsRead
  BY <1>4 DEF LineIsRead, IsIn
<1>5. CASE NextSection
  BY <1>5 DEF NextSection
<1>6. CASE CheckStations
  <2>1. "is not visited by any line" # None /\ phase = "reading"
    BY <1>6 DEF CheckStations, None
  <2>2. \/ \E s : Throw("is not visited by any line", s)
        \/ phase' = "returned" /\ failure' = failure
    BY <1>6 DEF CheckStations
  <2> QED
    BY <2>1, <2>2, ExceptionThrown
<1>7. CASE UNCHANGED vars
  BY <1>7 DEF vars
<1> QED
  BY <1>1, <1>2, <1>3, <1>4, <1>5, <1>6, <1>7 DEF Next, Read

(* A time of a file is a number that fits, but for those refused.          *)
LEMMA TimesAreNumbers ==
  ASSUME TInv, IsIn("lines"), item \in DOMAIN Items,
         stop \in DOMAIN Items[item].stops, Items[item].stops[stop].time # BadTime
  PROVE  ToUnsigned(Items[item].stops[stop].time) \in 0..(UintRange - 1)
<1>1. files[Len(files)] \in Files
  BY DEF TInv, ControlType, IsIn
<1>2. Items[item].stops[stop].time \in Int /\ UintRange \in Nat \ {0}
  BY <1>1, FilesAssumption DEF IsIn, Sections, Items
<1> QED
  BY <1>2 DEF ToUnsigned

LEMMA TimesStep ==
  ASSUME IInv, TInv, [Next]_vars
  PROVE  TimesType'
<1> USE DEF TInv, TimesType
<1>1. CASE lines' = lines
  BY <1>1
<1>2. CASE ExtractLine
  <2>1. CASE \E name : /\ name \notin DOMAIN lines
                       /\ lines' = Put(lines, name, [stations |-> <<>>, times |-> <<>>])
    <3>1. PICK name : /\ name \notin DOMAIN lines
                      /\ lines' = Put(lines, name, [stations |-> <<>>, times |-> <<>>])
      BY <2>1
    <3> DEFINE new == [stations |-> <<>>, times |-> <<>>]
    <3>2. /\ DOMAIN lines' = DOMAIN lines \cup {name}
          /\ lines'[name] = new
          /\ \A k \in DOMAIN lines : lines'[k] = lines[k]
      BY <3>1, LineAdded
    <3>3. new.times \in Seq(0..(UintRange - 1))
      OBVIOUS
    <3> HIDE DEF new
    <3> QED
      BY <3>2, <3>3
  <2> QED
    BY <1>1, <1>2, <2>1 DEF ExtractLine, IsDefined
<1>3. CASE SetLineStation
  <2> DEFINE k == Items[item].name
             e == Items[item].stops[stop]
             passed == Append(lines[k].stations, e.station)
             times == Append(lines[k].times, ToUnsigned(e.time))
  <2>1. /\ IsIn("lines") /\ item \in DOMAIN Items
        /\ stop \in DOMAIN Items[item].stops
        /\ LinesType /\ k \in DOMAIN lines
    BY <1>3 DEF SetLineStation, IInv, LineIsDefined, IsIn
  <2>2. lines[k].times \in Seq(0..(UintRange - 1))
    BY <2>1
  <2>3. CASE lines' = PushStation(k, e.station)
    <3>1. /\ DOMAIN lines' = DOMAIN lines
          /\ lines'[k] = [stations |-> passed, times |-> lines[k].times]
          /\ \A j \in DOMAIN lines : j # k => lines'[j] = lines[j]
      BY <2>1, <2>3, StationPushed
    <3> HIDE DEF k, passed
    <3>2. lines'[k].times = lines[k].times
      BY <3>1
    <3> QED
      BY <2>1, <2>2, <3>1, <3>2
  <2>4. CASE e.time # BadTime /\ lines' = PushTime(PushStation(k, e.station), k, e.time)
    <3>1. /\ DOMAIN lines' = DOMAIN lines
          /\ lines'[k] = [stations |-> passed, times |-> times]
          /\ \A j \in DOMAIN lines : j # k => lines'[j] = lines[j]
      BY <2>1, <2>4, StopTaken
    <3>2. ToUnsigned(e.time) \in 0..(UintRange - 1)
      BY <2>1, <2>4, TimesAreNumbers
    <3>3. times \in Seq(0..(UintRange - 1))
      BY <2>2, <3>2
    <3> HIDE DEF k, passed, times
    <3>4. lines'[k].times = times
      BY <3>1
    <3> QED
      BY <2>1, <3>1, <3>3, <3>4
  <2> QED
    BY <1>3, <2>3, <2>4 DEF SetLineStation
<1> QED
  BY <1>1, <1>2, <1>3 DEF Next, Read, vars, ReadTransportFile, OpenFile, ExtractStation,
                          LineIsRead, NextSection, CheckStations

LEMMA TypesInductive == Spec => []TInv
<1>1. Init => TInv
  BY TypesStart
<1>2. IInv /\ TInv /\ [Next]_vars => TInv'
  BY ControlStep, NamesStep, TimesStep, MessageStep DEF TInv
<1> QED
  BY <1>1, <1>2, Inductive, PTL DEF Spec

(* The types of the reader, whatever is in the files.                      *)
THEOREM TypeCorrect == Spec => []TypeOK
<1>1. IInv /\ TInv => TypeOK
  <2> SUFFICES ASSUME IInv, TInv PROVE TypeOK
    OBVIOUS
  <2>1. \A l \in DOMAIN lines : DOMAIN lines[l] = {"stations", "times"}
    BY DEF IInv, LinesType, IsLine
  <2>2. \A s \in DOMAIN stations : stations[s] \subseteq DOMAIN lines
    BY DEF IInv, MapsAgree, LinesAt
  <2> QED
    BY <2>1, <2>2 DEF TypeOK, TInv, ControlType, NamesAreFree, TimesType, MessageAgrees
<1> QED
  BY <1>1, Inductive, TypesInductive, PTL
-----------------------------------------------------------------------------
(* What has been read.                                                     *)
(*                                                                         *)
(* The sections of all files so far stand one after the other, and an      *)
(* element has a place: its section and its position there.  Up to the     *)
(* current place the maps are what the elements say.                       *)

AllOf(fs) == FlattenSeq([j \in DOMAIN fs |-> fs[j].sections])

SectionSet == UNION {ToSet(f.sections) : f \in Files}

Elements(all, tag) == {p \in Nat \X (Nat \ {0}) :
  p[1] \in DOMAIN all /\ all[p[1]].tag = tag /\ p[2] \in DOMAIN all[p[1]].items}

Element(all, p) == all[p[1]].items[p[2]]

(* Those of one kind before the place <<k, i>>. *)
Earlier(all, tag, k, i) ==
  {p \in Elements(all, tag) : p[1] < k \/ (p[1] = k /\ p[2] < i)}

(* The stations listed in sections before the section k. *)
Listing(all, k) ==
  {Element(all, p) : p \in {q \in Elements(all, "stations") : q[1] < k}}

(* The first n stops of the line d. *)
Taken(d, n) ==
  [stations |-> [j \in 1..n |-> d.stops[j].station],
   times |-> [j \in 1..n |-> d.stops[j].time % UintRange]]

Sound(d, n, listed) ==
  \A j \in 1..n : d.stops[j].station \in listed /\ d.stops[j].time # BadTime

IsMap(f) == f = [x \in DOMAIN f |-> f[x]]

IsTaken(all, p, n, ls) ==
  /\ ls[Element(all, p).name] = Taken(Element(all, p), n)
  /\ Sound(Element(all, p), n, Listing(all, p[1]))

StopsIn(all, p) == Len(Element(all, p).stops)

StationsOf(all, k, i, st) ==
  /\ IsMap(st)
  /\ \A s : s \in DOMAIN st <=>
       \E p \in Earlier(all, "stations", k, i) : Element(all, p) = s

LinesOf(all, k, i, n, ls) ==
  /\ IsMap(ls)
  /\ \A l : l \in DOMAIN ls <=>
       \/ \E p \in Earlier(all, "lines", k, i) : Element(all, p).name = l
       \/ n > 0 /\ l = Element(all, <<k, i>>).name
  /\ \A p \in Earlier(all, "lines", k, i) : IsTaken(all, p, StopsIn(all, p), ls)
  /\ \A p, q \in Earlier(all, "lines", k, i) :
       Element(all, p).name = Element(all, q).name => p = q
  /\ n > 0 =>
       /\ <<k, i>> \in Elements(all, "lines")
       /\ n - 1 <= StopsIn(all, <<k, i>>)
       /\ IsTaken(all, <<k, i>>, n - 1, ls)
       /\ \A p \in Earlier(all, "lines", k, i) :
            Element(all, p).name # Element(all, <<k, i>>).name

(* The maps at the place <<k, i>>, before the stop n of the line there.    *)
Agrees(all, k, i, n, ls, st) == StationsOf(all, k, i, st) /\ LinesOf(all, k, i, n, ls)

(* Going on by one element. *)
LEMMA OneMore ==
  ASSUME NEW all, NEW k \in Nat, NEW i \in Nat, NEW tag
  PROVE  \A p : p \in Earlier(all, tag, k, i + 1) <=>
           p \in Earlier(all, tag, k, i) \/ (p = <<k, i>> /\ p \in Elements(all, tag))
<1>1. ASSUME NEW p \in Nat \X Nat
      PROVE  (p[1] < k \/ (p[1] = k /\ p[2] < i + 1)) <=>
               ((p[1] < k \/ (p[1] = k /\ p[2] < i)) \/ p = <<k, i>>)
  <2>1. p = <<p[1], p[2]>> /\ p[1] \in Nat /\ p[2] \in Nat
    OBVIOUS
  <2>2. p = <<k, i>> <=> p[1] = k /\ p[2] = i
    BY <2>1
  <2>3. p[2] < i + 1 <=> p[2] < i \/ p[2] = i
    BY <2>1
  <2> QED
    BY <2>2, <2>3
<1>2. \A p \in Elements(all, tag) : p \in Nat \X Nat
  BY DEF Elements
<1> QED
  BY <1>1, <1>2 DEF Earlier

LEMMA TagOfPlace ==
  ASSUME NEW all, NEW p, NEW tag, p \in Elements(all, tag)
  PROVE  p \in Nat \X Nat /\ p[1] \in DOMAIN all /\ all[p[1]].tag = tag
BY DEF Elements

LEMMA OneElement ==
  ASSUME NEW all, NEW k \in Nat, NEW i \in Nat, NEW tag, <<k, i>> \in Elements(all, tag)
  PROVE  /\ \A p : p \in Earlier(all, tag, k, i + 1) <=>
              p \in Earlier(all, tag, k, i) \/ p = <<k, i>>
         /\ \A other : other # tag => Earlier(all, other, k, i + 1) = Earlier(all, other, k, i)
<1>1. \A p : p \in Earlier(all, tag, k, i + 1) <=>
        p \in Earlier(all, tag, k, i) \/ p = <<k, i>>
  BY OneMore
<1>2. ASSUME NEW other, other # tag
      PROVE  Earlier(all, other, k, i + 1) = Earlier(all, other, k, i)
  <2>1. <<k, i>>[1] = k /\ all[k].tag = tag
    BY TagOfPlace
  <2>2. <<k, i>> \notin Elements(all, other)
    BY <1>2, <2>1, TagOfPlace
  <2>3. \A p : p \in Earlier(all, other, k, i + 1) <=> p \in Earlier(all, other, k, i)
    BY <2>2, OneMore
  <2> QED
    BY <2>3
<1> QED
  BY <1>1, <1>2

LEMMA StationTaken ==
  ASSUME NEW all, NEW k \in Nat, NEW i \in Nat, NEW ls, NEW st, NEW more,
         Agrees(all, k, i, 0, ls, st), <<k, i>> \in Elements(all, "stations"),
         IsMap(more), NEW s, s = Element(all, <<k, i>>), DOMAIN more = DOMAIN st \cup {s}
  PROVE  Agrees(all, k, i + 1, 0, ls, more)
<1>1. /\ \A p : p \in Earlier(all, "stations", k, i + 1) <=>
           p \in Earlier(all, "stations", k, i) \/ p = <<k, i>>
      /\ Earlier(all, "lines", k, i + 1) = Earlier(all, "lines", k, i)
  BY OneElement
<1>2. StationsOf(all, k, i + 1, more)
  BY <1>1 DEF Agrees, StationsOf
<1>3. LinesOf(all, k, i + 1, 0, ls)
  BY <1>1 DEF Agrees, LinesOf
<1> QED
  BY <1>2, <1>3 DEF Agrees

(* What a line says that is not changed. *)
LEMMA TakenStays ==
  ASSUME NEW all, NEW p, NEW n, NEW ls, NEW more,
         more[Element(all, p).name] = ls[Element(all, p).name]
  PROVE  IsTaken(all, p, n, ls) <=> IsTaken(all, p, n, more)
BY DEF IsTaken

LEMMA LineOpened ==
  ASSUME NEW all, NEW k \in Nat, NEW i \in Nat, NEW ls, NEW st, NEW more,
         Agrees(all, k, i, 0, ls, st), <<k, i>> \in Elements(all, "lines"),
         NEW l, l = Element(all, <<k, i>>).name, l \notin DOMAIN ls,
         StopsIn(all, <<k, i>>) \in Nat,
         IsMap(more), DOMAIN more = DOMAIN ls \cup {l},
         more[l] = [stations |-> <<>>, times |-> <<>>],
         \A j \in DOMAIN ls : more[j] = ls[j]
  PROVE  Agrees(all, k, i, 1, more, st)
<1>1. /\ \A j : j \in DOMAIN ls <=> \E p \in Earlier(all, "lines", k, i) : Element(all, p).name = j
      /\ \A p \in Earlier(all, "lines", k, i) : IsTaken(all, p, StopsIn(all, p), ls)
      /\ \A p, q \in Earlier(all, "lines", k, i) :
           Element(all, p).name = Element(all, q).name => p = q
  BY DEF Agrees, LinesOf
<1>2. \A j : j \in DOMAIN more <=>
        \/ \E p \in Earlier(all, "lines", k, i) : Element(all, p).name = j
        \/ 1 > 0 /\ j = Element(all, <<k, i>>).name
  BY <1>1
<1>3. \A p \in Earlier(all, "lines", k, i) : IsTaken(all, p, StopsIn(all, p), more)
  BY <1>1, TakenStays
<1>4. IsTaken(all, <<k, i>>, 0, more)
  <2>1. \A d : Taken(d, 0) = [stations |-> <<>>, times |-> <<>>]
    <3>1. ASSUME NEW d PROVE Taken(d, 0) = [stations |-> <<>>, times |-> <<>>]
      <4>1. [j \in 1..0 |-> d.stops[j].station] = <<>> /\ [j \in 1..0 |-> d.stops[j].time % UintRange] = <<>>
        OBVIOUS
      <4> QED
        BY <4>1 DEF Taken
    <3> QED
      BY <3>1
  <2>2. more[Element(all, <<k, i>>).name] = Taken(Element(all, <<k, i>>), 0)
    BY <2>1
  <2>3. Sound(Element(all, <<k, i>>), 0, Listing(all, k))
    BY DEF Sound
  <2>4. <<k, i>>[1] = k
    OBVIOUS
  <2> QED
    BY <2>2, <2>3, <2>4 DEF IsTaken
<1>5. \A p \in Earlier(all, "lines", k, i) : Element(all, p).name # Element(all, <<k, i>>).name
  BY <1>1
<1>6. LinesOf(all, k, i, 1, more)
  BY <1>1, <1>2, <1>3, <1>4, <1>5 DEF LinesOf
<1> QED
  BY <1>6 DEF Agrees

(* In a section of lines, the stations of earlier sections are known. *)
LEMMA KnownAreListed ==
  ASSUME NEW all, NEW k \in Nat, NEW i \in Nat, NEW st, StationsOf(all, k, i, st),
         <<k, i>> \in Elements(all, "lines")
  PROVE  DOMAIN st = Listing(all, k)
<1>1. all[k].tag = "lines"
  BY TagOfPlace
<1>2. \A p \in Elements(all, "stations") : p[1] # k
  BY <1>1, TagOfPlace
<1>3. \A p : p \in Earlier(all, "stations", k, i) <=> p \in {q \in Elements(all, "stations") : q[1] < k}
  BY <1>2 DEF Earlier
<1>4. \A s : s \in Listing(all, k) <=>
        \E p \in {q \in Elements(all, "stations") : q[1] < k} : Element(all, p) = s
  BY DEF Listing
<1> QED
  BY <1>3, <1>4 DEF StationsOf

LEMMA StopOfLineTaken ==
  ASSUME NEW all, NEW k \in Nat, NEW i \in Nat, NEW n \in Nat, n > 0,
         NEW ls, NEW st, NEW more, NEW wider,
         Agrees(all, k, i, n, ls, st),
         NEW d, d = Element(all, <<k, i>>), Len(d.stops) \in Nat, n <= Len(d.stops),
         d.stops[n].station \in DOMAIN st, d.stops[n].time # BadTime,
         IsMap(wider), DOMAIN wider = DOMAIN st,
         IsMap(more), DOMAIN more = DOMAIN ls, more[d.name] = Taken(d, n),
         \A j \in DOMAIN ls : j # d.name => more[j] = ls[j]
  PROVE  Agrees(all, k, i, n + 1, more, wider)
<1>1. /\ \A j : j \in DOMAIN ls <=>
           \/ \E p \in Earlier(all, "lines", k, i) : Element(all, p).name = j
           \/ j = d.name
      /\ \A p \in Earlier(all, "lines", k, i) : IsTaken(all, p, StopsIn(all, p), ls)
      /\ \A p, q \in Earlier(all, "lines", k, i) :
           Element(all, p).name = Element(all, q).name => p = q
      /\ <<k, i>> \in Elements(all, "lines")
      /\ Sound(d, n - 1, Listing(all, k))
      /\ \A p \in Earlier(all, "lines", k, i) : Element(all, p).name # d.name
  <2>1. <<k, i>>[1] = k
    OBVIOUS
  <2> QED
    BY <2>1 DEF Agrees, LinesOf, IsTaken
<1>2. StationsOf(all, k, i, wider)
  BY DEF Agrees, StationsOf
<1>3. \A p \in Earlier(all, "lines", k, i) : IsTaken(all, p, StopsIn(all, p), more)
  BY <1>1, TakenStays
<1>4. IsTaken(all, <<k, i>>, n + 1 - 1, more)
  <2>1. n + 1 - 1 = n /\ <<k, i>>[1] = k
    OBVIOUS
  <2>2. DOMAIN st = Listing(all, k)
    BY <1>1, KnownAreListed DEF Agrees
  <2>3. \A j \in 1..n : j = n \/ j \in 1..(n - 1)
    OBVIOUS
  <2>4. Sound(d, n, Listing(all, k))
    BY <1>1, <2>2, <2>3 DEF Sound
  <2> QED
    BY <2>1, <2>4 DEF IsTaken
<1>5. n + 1 > 0 /\ n + 1 - 1 <= StopsIn(all, <<k, i>>)
  BY DEF StopsIn
<1>6. LinesOf(all, k, i, n + 1, more)
  BY <1>1, <1>3, <1>4, <1>5 DEF LinesOf
<1> QED
  BY <1>2, <1>6 DEF Agrees

LEMMA LineClosed ==
  ASSUME NEW all, NEW k \in Nat, NEW i \in Nat, NEW n \in Nat, n > 0,
         NEW ls, NEW st, Agrees(all, k, i, n, ls, st),
         StopsIn(all, <<k, i>>) \in Nat, ~(n <= StopsIn(all, <<k, i>>))
  PROVE  Agrees(all, k, i + 1, 0, ls, st)
<1> DEFINE here == <<k, i>>
<1>1. /\ \A j : j \in DOMAIN ls <=>
           \/ \E p \in Earlier(all, "lines", k, i) : Element(all, p).name = j
           \/ j = Element(all, here).name
      /\ \A p \in Earlier(all, "lines", k, i) : IsTaken(all, p, StopsIn(all, p), ls)
      /\ \A p, q \in Earlier(all, "lines", k, i) :
           Element(all, p).name = Element(all, q).name => p = q
      /\ here \in Elements(all, "lines")
      /\ IsTaken(all, here, n - 1, ls) /\ n - 1 <= StopsIn(all, here)
      /\ \A p \in Earlier(all, "lines", k, i) : Element(all, p).name # Element(all, here).name
      /\ IsMap(ls)
  BY DEF Agrees, LinesOf
<1>2. n - 1 = StopsIn(all, here)
  BY <1>1
<1>3. /\ \A p : p \in Earlier(all, "lines", k, i + 1) <=>
           p \in Earlier(all, "lines", k, i) \/ p = here
      /\ Earlier(all, "stations", k, i + 1) = Earlier(all, "stations", k, i)
  BY <1>1, OneElement
<1>4. StationsOf(all, k, i + 1, st)
  BY <1>3 DEF Agrees, StationsOf
<1> HIDE DEF here
<1>5. LinesOf(all, k, i + 1, 0, ls)
  BY <1>1, <1>2, <1>3 DEF LinesOf
<1> QED
  BY <1>4, <1>5 DEF Agrees

(* When there is nothing left in a section, the next one begins. *)
LEMMA SectionPassed ==
  ASSUME NEW all, NEW k \in Nat, NEW i \in Nat, NEW ls, NEW st, Agrees(all, k, i, 0, ls, st),
         \A tag \in {"stations", "lines"} : \A p \in Elements(all, tag) : p[1] = k => p[2] < i
  PROVE  Agrees(all, k + 1, 1, 0, ls, st)
<1>1. ASSUME NEW tag \in {"stations", "lines"}
      PROVE  Earlier(all, tag, k + 1, 1) = Earlier(all, tag, k, i)
  <2>1. ASSUME NEW p \in Elements(all, tag)
        PROVE  (p[1] < k + 1 \/ (p[1] = k + 1 /\ p[2] < 1)) <=> (p[1] < k \/ (p[1] = k /\ p[2] < i))
    <3>1. p[1] \in Nat /\ p[2] \in Nat \ {0}
      BY DEF Elements
    <3>2. p[1] = k => p[2] < i
      OBVIOUS
    <3> QED
      BY <3>1, <3>2
  <2> QED
    BY <2>1 DEF Earlier
<1>2. Earlier(all, "stations", k + 1, 1) = Earlier(all, "stations", k, i)
  BY <1>1
<1>3. Earlier(all, "lines", k + 1, 1) = Earlier(all, "lines", k, i)
  BY <1>1
<1> QED
  BY <1>2, <1>3 DEF Agrees, StationsOf, LinesOf

(* When everything has been read, sections of another file may follow. *)
LEMMA FileAdded ==
  ASSUME NEW S, NEW all \in Seq(S), NEW next \in Seq(S), NEW k \in Nat, k > Len(all), NEW i,
         NEW ls, NEW st, Agrees(all, k, i, 0, ls, st), NEW long, long = all \o next
  PROVE  Agrees(long, Len(all) + 1, 1, 0, ls, st)
<1> DEFINE n == Len(all)
<1>1. /\ n \in Nat /\ DOMAIN all = 1..n
      /\ \A j : j \in 1..n <=> j \in DOMAIN long /\ j < n + 1
      /\ \A j \in 1..n : long[j] = all[j]
  <2>1. /\ long \in Seq(S) /\ Len(long) = Len(all) + Len(next)
        /\ \A j \in 1..Len(all) : long[j] = all[j]
    BY ConcatFacts
  <2>2. Len(all) \in Nat /\ Len(next) \in Nat /\ DOMAIN long = 1..Len(long)
    BY <2>1
  <2>3. \A j : j \in 1..n <=> j \in DOMAIN long /\ j < n + 1
    <3>1. \A j : j \in 1..n <=> j \in 1..(n + Len(next)) /\ j < n + 1
      BY <2>2
    <3> QED
      BY <2>1, <2>2, <3>1
  <2> QED
    BY <2>1, <2>2, <2>3
<1> HIDE DEF n
<1>2. ASSUME NEW tag
      PROVE  /\ \A p : p \in Elements(all, tag) <=> p \in Elements(long, tag) /\ p[1] < n + 1
             /\ Earlier(all, tag, k, i) = Elements(all, tag)
             /\ Earlier(long, tag, n + 1, 1) = Elements(all, tag)
  <2>1. \A p : p \in Elements(all, tag) <=> p \in Elements(long, tag) /\ p[1] < n + 1
    BY <1>1 DEF Elements
  <2>2. ASSUME NEW p \in Elements(all, tag) PROVE p[1] < k
    <3>1. p[1] \in 1..n
      BY <1>1, TagOfPlace
    <3> QED
      BY <1>1, <3>1 DEF n
  <2>3. Earlier(all, tag, k, i) = Elements(all, tag)
    BY <2>2 DEF Earlier
  <2>4. ASSUME NEW p \in Elements(long, tag) PROVE ~(p[2] < 1)
    <3>1. p[2] \in Nat \ {0}
      BY DEF Elements
    <3> QED
      BY <3>1
  <2>5. Earlier(long, tag, n + 1, 1) = Elements(all, tag)
    BY <2>1, <2>4 DEF Earlier
  <2> QED
    BY <2>1, <2>3, <2>5
<1>3. ASSUME NEW tag, NEW p \in Elements(all, tag)
      PROVE  Element(long, p) = Element(all, p) /\ Listing(long, p[1]) = Listing(all, p[1])
  <2>1. p[1] \in 1..n
    BY <1>1, TagOfPlace
  <2>2. \A q : q \in Elements(long, "stations") /\ q[1] < p[1] <=>
               q \in Elements(all, "stations") /\ q[1] < p[1]
    <3>1. ASSUME NEW q \in Elements(long, "stations"), q[1] < p[1] PROVE q[1] < n + 1
      <4>1. q[1] \in Nat
        BY DEF Elements
      <4> QED
        BY <1>1, <2>1, <3>1, <4>1
    <3> QED
      BY <1>2, <3>1
  <2>3. \A q : q \in Elements(all, "stations") => Element(long, q) = Element(all, q)
    <3>1. \A q \in Elements(all, "stations") : q[1] \in 1..n
      BY <1>1, TagOfPlace
    <3> QED
      BY <1>1, <3>1 DEF Element
  <2>4. \A s : s \in Listing(long, p[1]) <=> s \in Listing(all, p[1])
    BY <2>2, <2>3 DEF Listing
  <2>5. Listing(long, p[1]) = Listing(all, p[1])
    BY <2>4
  <2> QED
    BY <1>1, <2>1, <2>5 DEF Element
<1>4. StationsOf(long, n + 1, 1, st)
  <2>1. /\ IsMap(st)
        /\ \A s : s \in DOMAIN st <=> \E p \in Elements(all, "stations") : Element(all, p) = s
    BY <1>2 DEF Agrees, StationsOf
  <2> QED
    BY <1>2, <1>3, <2>1 DEF StationsOf
<1>5. LinesOf(long, n + 1, 1, 0, ls)
  <2>1. /\ IsMap(ls)
        /\ \A l : l \in DOMAIN ls <=> \E p \in Elements(all, "lines") : Element(all, p).name = l
        /\ \A p \in Elements(all, "lines") : IsTaken(all, p, StopsIn(all, p), ls)
        /\ \A p, q \in Elements(all, "lines") :
             Element(all, p).name = Element(all, q).name => p = q
    BY <1>2 DEF Agrees, LinesOf
  <2>2. \A p \in Elements(all, "lines") : IsTaken(long, p, StopsIn(long, p), ls)
    BY <1>3, <2>1 DEF IsTaken, StopsIn
  <2> QED
    BY <1>2, <1>3, <2>1, <2>2 DEF LinesOf
<1> QED
  BY <1>4, <1>5 DEF Agrees, n

-----------------------------------------------------------------------------
(* The sections of the files. *)

LEMMA SectionsOfFile ==
  ASSUME NEW f \in Files
  PROVE  f.sections \in Seq(SectionSet)
<1>1. f.sections \in Seq(ToSet(f.sections))
  BY FilesAssumption
<1>2. ToSet(f.sections) \subseteq SectionSet
  BY DEF SectionSet
<1> QED
  BY <1>1, <1>2

LEMMA AllSections ==
  ASSUME NEW fs \in Seq(Files)
  PROVE  [j \in DOMAIN fs |-> fs[j].sections] \in Seq(Seq(SectionSet))
<1>1. \A j \in 1..Len(fs) : fs[j].sections \in Seq(SectionSet)
  BY SectionsOfFile
<1> QED
  BY <1>1

LEMMA FilesAppended ==
  ASSUME NEW fs \in Seq(Files), NEW f \in Files
  PROVE  /\ AllOf(fs) \in Seq(SectionSet) /\ AllOf(Append(fs, f)) \in Seq(SectionSet)
         /\ AllOf(Append(fs, f)) = AllOf(fs) \o f.sections
<1> DEFINE each == [j \in DOMAIN fs |-> fs[j].sections]
           more == Append(fs, f)
           wider == [j \in DOMAIN more |-> more[j].sections]
<1>1. each \in Seq(Seq(SectionSet)) /\ f.sections \in Seq(SectionSet)
  BY AllSections, SectionsOfFile
<1>2. wider = Append(each, f.sections)
  <2>1. /\ more \in Seq(Files) /\ Len(more) = Len(fs) + 1 /\ Len(fs) \in Nat
        /\ more[Len(fs) + 1] = f /\ \A j \in 1..Len(fs) : more[j] = fs[j]
        /\ DOMAIN more = 1..(Len(fs) + 1) /\ DOMAIN fs = 1..Len(fs)
    OBVIOUS
  <2> HIDE DEF more
  <2>2. DOMAIN each = 1..Len(fs) /\ Len(each) = Len(fs)
    BY <1>1, <2>1
  <2>3. /\ DOMAIN wider = 1..(Len(fs) + 1) /\ wider = [j \in 1..(Len(fs) + 1) |-> wider[j]]
        /\ wider[Len(fs) + 1] = f.sections
        /\ \A j \in 1..Len(fs) : wider[j] = each[j]
    BY <2>1
  <2> DEFINE long == Append(each, f.sections)
  <2>4. /\ DOMAIN long = 1..(Len(fs) + 1) /\ long = [j \in 1..(Len(fs) + 1) |-> long[j]]
        /\ long[Len(fs) + 1] = f.sections
        /\ \A j \in 1..Len(fs) : long[j] = each[j]
    <3> HIDE DEF each
    <3> QED
      BY <1>1, <2>1, <2>2
  <2> HIDE DEF wider, long, each
  <2>5. \A j \in 1..(Len(fs) + 1) : wider[j] = long[j]
    <3>1. \A j \in 1..(Len(fs) + 1) : j = Len(fs) + 1 \/ j \in 1..Len(fs)
      BY <2>1
    <3> QED
      BY <2>3, <2>4, <3>1
  <2> QED
    BY <2>3, <2>4, <2>5 DEF long
<1>3. FlattenSeq(each) \in Seq(SectionSet) /\ FlattenSeq(wider) = FlattenSeq(each) \o f.sections
  <2> HIDE DEF each, wider
  <2> QED
    BY <1>1, <1>2, FlattenFacts, FlattenAppended
<1>4. AllOf(fs) = FlattenSeq(each) /\ AllOf(more) = FlattenSeq(wider)
  BY DEF AllOf
<1> HIDE DEF each, wider
<1> QED
  BY <1>1, <1>3, <1>4, ConcatProperties

(* The sections of the last file stand behind all others.                  *)
Base(fs) == Len(AllOf(fs)) - Len(fs[Len(fs)].sections)

LEMMA CurrentSections ==
  ASSUME NEW fs \in Seq(Files), fs # <<>>, NEW last, last = fs[Len(fs)].sections
  PROVE  /\ last \in Seq(SectionSet) /\ AllOf(fs) \in Seq(SectionSet)
         /\ Base(fs) \in Nat /\ Base(fs) + Len(last) = Len(AllOf(fs))
         /\ \A s \in DOMAIN last : AllOf(fs)[Base(fs) + s] = last[s]
<1>1. fs[Len(fs)] \in Files /\ Front(fs) \in Seq(Files) /\ fs = Append(Front(fs), fs[Len(fs)])
  <2>1. /\ Len(fs) \in Nat /\ Len(fs) > 0 /\ fs[Len(fs)] \in Files
        /\ Front(fs) \in Seq(Files) /\ Len(Front(fs)) = Len(fs) - 1
        /\ \A j \in 1..(Len(fs) - 1) : Front(fs)[j] = fs[j]
    BY FrontFacts
  <2> DEFINE f == Front(fs)
             e == fs[Len(fs)]
             g == Append(f, e)
  <2>2. /\ g \in Seq(Files) /\ Len(g) = Len(fs)
        /\ g[Len(fs)] = e /\ \A j \in 1..(Len(fs) - 1) : g[j] = f[j]
    <3> HIDE DEF f, e
    <3>1. f \in Seq(Files) /\ e \in Files /\ Len(f) = Len(fs) - 1
      BY <2>1 DEF f, e
    <3>2. /\ g \in Seq(Files) /\ Len(g) = Len(f) + 1
          /\ \A j \in 1..Len(f) : g[j] = f[j]
          /\ g[Len(f) + 1] = e
      BY <3>1, AppendFacts
    <3> QED
      BY <2>1, <3>1, <3>2
  <2> HIDE DEF g, f
  <2>3. \A j \in 1..Len(fs) : g[j] = fs[j]
    <3>1. \A j \in 1..Len(fs) : j = Len(fs) \/ j \in 1..(Len(fs) - 1)
      BY <2>1
    <3> QED
      BY <2>1, <2>2, <3>1 DEF f
  <2>4. g = fs
    BY <2>2, <2>3
  <2> QED
    BY <2>1, <2>4 DEF g, f
<1> DEFINE front == AllOf(Front(fs))
<1>2. /\ front \in Seq(SectionSet) /\ last \in Seq(SectionSet) /\ AllOf(fs) \in Seq(SectionSet)
      /\ AllOf(fs) = front \o last
  BY <1>1, FilesAppended, SectionsOfFile
<1> HIDE DEF front
<1>3. /\ Len(AllOf(fs)) = Len(front) + Len(last)
      /\ \A s \in 1..Len(last) : AllOf(fs)[s + Len(front)] = last[s]
  BY <1>2, ConcatFacts
<1>4. Len(front) \in Nat /\ Len(last) \in Nat /\ DOMAIN last = 1..Len(last)
  BY <1>2
<1>5. Base(fs) = Len(front)
  BY <1>3, <1>4 DEF Base
<1>6. \A s \in 1..Len(last) : s + Len(front) = Base(fs) + s
  BY <1>4, <1>5
<1> QED
  BY <1>2, <1>3, <1>4, <1>5, <1>6

(* The place of the section that is being read. *)
Here == IF files = <<>> THEN 1 ELSE Base(files) + section

ReadingGoesOn ==
  /\ phase = "new" => files = <<>> /\ stop = 0
  /\ phase # "new" => files # <<>> /\ section >= 1 /\ item >= 1
  /\ phase = "opening" => section = 1 /\ item = 1 /\ stop = 0
  /\ phase = "returned" => section \notin DOMAIN Sections /\ stop = 0
  /\ \A j \in 1..(Len(files) - 1) : files[j].fault = None
  /\ phase \in {"reading", "returned"} => files[Len(files)].fault = None

(* Until there is an exception, the maps are what has been read. *)
RInv ==
  phase # "thrown" =>
    ReadingGoesOn /\ Agrees(AllOf(files), Here, item, stop, lines, stations)

LEMMA HereFacts ==
  ASSUME TInv, ReadingGoesOn, phase \in {"reading", "returned"}
  PROVE  /\ Here = Base(files) + section /\ Here \in Nat
         /\ AllOf(files) \in Seq(SectionSet)
         /\ Sections \in Seq(SectionSet)
         /\ section \in DOMAIN Sections =>
              Here \in DOMAIN AllOf(files) /\ AllOf(files)[Here] = Sections[section]
         /\ section \notin DOMAIN Sections => Here > Len(AllOf(files))
<1>1. /\ files \in Seq(Files) /\ files # <<>> /\ section \in Nat /\ section >= 1
  BY DEF TInv, ControlType, ReadingGoesOn
<1>2. /\ Sections \in Seq(SectionSet) /\ AllOf(files) \in Seq(SectionSet)
      /\ Base(files) \in Nat /\ Base(files) + Len(Sections) = Len(AllOf(files))
      /\ \A s \in DOMAIN Sections : AllOf(files)[Base(files) + s] = Sections[s]
  BY <1>1, CurrentSections DEF Sections
<1>3. /\ Len(Sections) \in Nat /\ DOMAIN Sections = 1..Len(Sections)
      /\ DOMAIN AllOf(files) = 1..Len(AllOf(files))
  BY <1>2
<1>4. Here = Base(files) + section
  BY <1>1 DEF Here
<1> QED
  BY <1>1, <1>2, <1>3, <1>4

LEMMA SectionFacts ==
  ASSUME NEW c \in SectionSet
  PROVE  /\ c.items \in Seq(ToSet(c.items))
         /\ c.tag = "lines" => \A i \in DOMAIN c.items :
              /\ c.items[i].stops \in Seq(ToSet(c.items[i].stops))
              /\ \A j \in DOMAIN c.items[i].stops : c.items[i].stops[j].time # BadTime =>
                   c.items[i].stops[j].time \in Int
<1>1. PICK f \in Files : c \in ToSet(f.sections)
  BY DEF SectionSet
<1>2. PICK k \in DOMAIN f.sections : f.sections[k] = c
  BY <1>1 DEF ToSet
<1>3. /\ c.items \in Seq(ToSet(c.items))
      /\ c.tag = "lines" =>
           \A i \in DOMAIN c.items : \E stops \in {c.items[i].stops} :
             /\ stops \in Seq(ToSet(stops))
             /\ \A j \in DOMAIN stops :
                  stops[j].time \in (1 - UintRange)..(UintRange - 1) \cup {BadTime}
  BY <1>2, FilesAssumption
<1>4. UintRange \in Nat
  BY FilesAssumption
<1> QED
  BY <1>3, <1>4

LEMMA ItemPlace ==
  ASSUME TInv, ReadingGoesOn, NEW tag, IsIn(tag), item \in DOMAIN Items
  PROVE  /\ <<Here, item>> \in Elements(AllOf(files), tag)
         /\ Element(AllOf(files), <<Here, item>>) = Items[item]
         /\ tag = "lines" => Items[item].stops \in Seq(ToSet(Items[item].stops))
<1>1. phase = "reading" /\ section \in DOMAIN Sections /\ Sections[section].tag = tag
  BY DEF IsIn
<1>2. /\ Here \in Nat /\ Here \in DOMAIN AllOf(files) /\ AllOf(files)[Here] = Sections[section]
      /\ Sections[section] \in SectionSet
  BY <1>1, HereFacts
<1>3. /\ Items \in Seq(ToSet(Items))
      /\ tag = "lines" => \A i \in DOMAIN Items : Items[i].stops \in Seq(ToSet(Items[i].stops))
  BY <1>1, <1>2, SectionFacts DEF Items
<1>4. item \in Nat \ {0}
  BY <1>3
<1>5. <<Here, item>>[1] = Here /\ <<Here, item>>[2] = item
  OBVIOUS
<1>6. <<Here, item>> \in Nat \X (Nat \ {0})
  BY <1>2, <1>4
<1> QED
  BY <1>1, <1>2, <1>3, <1>5, <1>6 DEF Elements, Element, Items

(* A line with a stop more. *)
LEMMA OneStopMore ==
  ASSUME NEW d, NEW n \in Nat, n > 0
  PROVE  /\ Append(Taken(d, n - 1).stations, d.stops[n].station) = Taken(d, n).stations
         /\ Append(Taken(d, n - 1).times, d.stops[n].time % UintRange) = Taken(d, n).times
<1>1. ASSUME NEW f, NEW short, short = [j \in 1..(n - 1) |-> f[j]]
      PROVE  Append(short, f[n]) = [j \in 1..n |-> f[j]]
  <2>1. short \in Seq({f[j] : j \in 1..n}) /\ Len(short) = n - 1
    BY <1>1
  <2> DEFINE long == Append(short, f[n])
  <2>2. /\ long \in Seq({f[j] : j \in 1..n}) /\ Len(long) = n - 1 + 1
        /\ \A j \in 1..(n - 1) : long[j] = short[j]
        /\ long[n - 1 + 1] = f[n]
    BY <2>1
  <2> HIDE DEF long
  <2>3. n - 1 + 1 = n /\ \A j \in 1..n : j = n \/ j \in 1..(n - 1)
    OBVIOUS
  <2>4. Len(long) = n /\ long[n] = f[n]
    BY ONLY <2>2, <2>3
  <2>5. \A j \in 1..n : long[j] = f[j]
    BY <1>1, <2>2, <2>3, <2>4
  <2>6. long = [j \in 1..n |-> f[j]]
    BY <2>2, <2>4, <2>5
  <2> QED
    BY <2>6 DEF long
<1> DEFINE f == [j \in 1..n |-> d.stops[j].station]
           g == [j \in 1..n |-> d.stops[j].time % UintRange]
<1>2. n \in 1..n /\ \A j \in 1..(n - 1) : j \in 1..n
  OBVIOUS
<1>3. /\ Taken(d, n - 1).stations = [j \in 1..(n - 1) |-> f[j]]
      /\ Taken(d, n - 1).times = [j \in 1..(n - 1) |-> g[j]]
      /\ Taken(d, n).stations = [j \in 1..n |-> f[j]]
      /\ Taken(d, n).times = [j \in 1..n |-> g[j]]
  BY <1>2 DEF Taken
<1>4. f[n] = d.stops[n].station /\ g[n] = d.stops[n].time % UintRange
  BY <1>2
<1> HIDE DEF f, g
<1>5. Append(Taken(d, n - 1).stations, f[n]) = [j \in 1..n |-> f[j]]
  BY <1>1, <1>3
<1>6. Append(Taken(d, n - 1).times, g[n]) = [j \in 1..n |-> g[j]]
  BY <1>1, <1>3
<1> QED
  BY <1>3, <1>4, <1>5, <1>6

-----------------------------------------------------------------------------
(* The steps keep it. *)

LEMMA NothingIsRead == Init => RInv
<1> SUFFICES ASSUME Init PROVE RInv
  OBVIOUS
<1>1. files = <<>> /\ phase = "new" /\ stop = 0 /\ item = 0 /\ lines = <<>> /\ stations = <<>>
  BY DEF Init
<1>2. ReadingGoesOn
  <2>1. Len(files) = 0
    BY <1>1
  <2> QED
    BY <1>1, <2>1 DEF ReadingGoesOn
<1> DEFINE none == <<>>
<1>3. AllOf(files) = none /\ DOMAIN none = {} /\ IsMap(none)
  <2> DEFINE each == [j \in DOMAIN files |-> files[j].sections]
  <2>1. each = <<>>
    BY <1>1
  <2> HIDE DEF each
  <2>2. FlattenSeq(each) = <<>>
    BY <2>1 DEF FlattenSeq
  <2> QED
    BY <2>2 DEF AllOf, IsMap, each
<1> HIDE DEF none
<1>4. \A tag : Earlier(none, tag, Here, item) = {}
  BY <1>3 DEF Earlier, Elements
<1>5. lines = none /\ stations = none
  BY <1>1 DEF none
<1>6. StationsOf(none, Here, item, none) /\ LinesOf(none, Here, item, 0, none)
  BY <1>3, <1>4 DEF StationsOf, LinesOf
<1>7. Agrees(AllOf(files), Here, item, stop, lines, stations)
  BY <1>1, <1>3, <1>5, <1>6 DEF Agrees
<1> QED
  BY <1>2, <1>7 DEF RInv

LEMMA FileIsAdded ==
  ASSUME TInv, RInv, NEW f \in Files, ReadTransportFile(f)
  PROVE  RInv'
<1>1. /\ phase \in {"new", "returned"} /\ ReadingGoesOn /\ stop = 0
      /\ Agrees(AllOf(files), Here, item, 0, lines, stations)
      /\ files \in Seq(Files)
      /\ files' = Append(files, f) /\ phase' = "opening"
      /\ section' = 1 /\ item' = 1 /\ stop' = 0 /\ lines' = lines /\ stations' = stations
  <2>1. phase \in {"new", "returned"} /\ phase # "thrown"
    BY DEF ReadTransportFile
  <2>2. ReadingGoesOn /\ Agrees(AllOf(files), Here, item, stop, lines, stations)
    BY <2>1 DEF RInv
  <2>3. stop = 0
    BY <2>1, <2>2 DEF ReadingGoesOn
  <2> QED
    BY <2>1, <2>2, <2>3 DEF ReadTransportFile, TInv, ControlType
<1> DEFINE all == AllOf(files)
           more == f.sections
<1>2. all \in Seq(SectionSet) /\ more \in Seq(SectionSet) /\ AllOf(files') = all \o more
  BY <1>1, FilesAppended, SectionsOfFile
<1>3. Here \in Nat /\ Here > Len(all)
  <2>1. CASE phase = "new"
    <3>1. files = <<>>
      BY <1>1, <2>1 DEF ReadingGoesOn
    <3> DEFINE each == [j \in DOMAIN files |-> files[j].sections]
    <3>2. each = <<>>
      BY <3>1
    <3> HIDE DEF each
    <3>3. FlattenSeq(each) = <<>>
      BY <3>2 DEF FlattenSeq
    <3>4. Len(all) = 0
      BY <3>3 DEF AllOf, each
    <3> QED
      BY <3>1, <3>4 DEF Here
  <2>2. CASE phase = "returned"
    <3>1. files # <<>> /\ section >= 1 /\ section \notin DOMAIN Sections /\ section \in Nat
      BY <1>1, <2>2 DEF ReadingGoesOn, TInv, ControlType
    <3>2. /\ Sections \in Seq(SectionSet)
          /\ Base(files) \in Nat /\ Base(files) + Len(Sections) = Len(all)
      BY <1>1, <3>1, CurrentSections DEF Sections
    <3>3. Here = Base(files) + section
      BY <3>1 DEF Here
    <3>4. Len(Sections) \in Nat /\ DOMAIN Sections = 1..Len(Sections)
      BY <3>2
    <3> HIDE DEF all
    <3> QED
      BY <3>1, <3>2, <3>3, <3>4
  <2> QED
    BY <1>1, <2>1, <2>2
<1>4. Agrees(AllOf(files'), Len(all) + 1, 1, 0, lines, stations)
  <2> HIDE DEF all, more
  <2> QED
    BY <1>1, <1>2, <1>3, FileAdded DEF all
<1>5. /\ files' # <<>> /\ Len(files') = Len(files) + 1 /\ Len(files) \in Nat
      /\ files'[Len(files')] = f
      /\ \A j \in 1..Len(files) : files'[j] = files[j]
  BY <1>1
<1>6. Base(files') = Len(all)
  <2>1. Base(files') = Len(all \o more) - Len(more)
    BY <1>2, <1>5 DEF Base
  <2>2. Len(all \o more) = Len(all) + Len(more) /\ Len(all) \in Nat /\ Len(more) \in Nat
    BY <1>2
  <2> HIDE DEF all, more
  <2> QED
    BY <2>1, <2>2
<1>7. Here' = Len(all) + 1
  <2>1. Here' = Base(files') + section'
    BY <1>5 DEF Here
  <2> QED
    BY <1>1, <1>6, <2>1
<1>8. ReadingGoesOn'
  <2>1. \A j \in 1..(Len(files') - 1) : files'[j].fault = None
    <3>1. ASSUME NEW j \in 1..(Len(files') - 1) PROVE files'[j].fault = None
      <4>1. j \in 1..Len(files) /\ files'[j] = files[j]
        BY <1>5
      <4>2. j \in 1..(Len(files) - 1) \/ (j = Len(files) /\ files # <<>>)
        BY <1>1, <1>5, <4>1
      <4>3. files # <<>> => phase = "returned"
        BY <1>1 DEF ReadingGoesOn
      <4> QED
        BY <1>1, <4>1, <4>2, <4>3 DEF ReadingGoesOn
    <3> QED
      BY <3>1
  <2> QED
    BY <1>1, <1>5, <2>1 DEF ReadingGoesOn
<1> QED
  BY <1>1, <1>4, <1>7, <1>8 DEF RInv

(* Nothing but the phase changes. *)
LEMMA NothingMoreIsRead ==
  ASSUME RInv, phase # "thrown",
         UNCHANGED <<lines, stations, files, section, item, stop>>
  PROVE  Agrees(AllOf(files'), Here', item', stop', lines', stations')
<1>1. Here' = Here
  BY DEF Here
<1> QED
  BY <1>1 DEF RInv

LEMMA FileIsOpened ==
  ASSUME TInv, RInv, OpenFile
  PROVE  RInv'
<1>1. CASE phase' = "thrown"
  BY <1>1 DEF RInv
<1>2. CASE phase' # "thrown"
  <2>1. /\ phase = "opening" /\ phase' = "reading" /\ files[Len(files)].fault = None
        /\ UNCHANGED <<lines, stations, files, section, item, stop>>
    BY <1>2 DEF OpenFile, Throw
  <2>2. Agrees(AllOf(files'), Here', item', stop', lines', stations')
    BY <2>1, NothingMoreIsRead
  <2>3. ReadingGoesOn'
    BY <2>1 DEF RInv, ReadingGoesOn
  <2> QED
    BY <2>2, <2>3 DEF RInv
<1> QED
  BY <1>1, <1>2

(* The loop variables move on within a file. *)
LEMMA ReadingStays ==
  ASSUME ReadingGoesOn, TInv, phase = "reading", phase' = "reading",
         files' = files, section' >= 1, item' >= 1
  PROVE  ReadingGoesOn'
BY DEF ReadingGoesOn

LEMMA StationIsAdded ==
  ASSUME IInv, TInv, RInv, ExtractStation, phase' # "thrown"
  PROVE  RInv'
<1>1. /\ phase = "reading" /\ phase' = "reading" /\ IsIn("stations") /\ item \in DOMAIN Items
      /\ AddStation(Items[item]) /\ item' = item + 1
      /\ UNCHANGED <<lines, files, section, stop>>
  BY DEF ExtractStation, Throw, IsIn
<1>2. ReadingGoesOn /\ Agrees(AllOf(files), Here, item, stop, lines, stations)
  BY <1>1 DEF RInv
<1>3. stop = 0
  <2>1. ~(stop > 0)
    BY <1>1 DEF IInv, LineIsDefined, IsIn
  <2> QED
    BY <2>1 DEF TInv, ControlType
<1> DEFINE all == AllOf(files)
<1>4. /\ <<Here, item>> \in Elements(all, "stations")
      /\ Element(all, <<Here, item>>) = Items[item]
  BY <1>1, <1>2, ItemPlace
<1>5. Here \in Nat /\ item \in Nat /\ section \in Nat /\ Here' = Here
  BY <1>1, <1>2, HereFacts DEF TInv, ControlType, Here
<1>6. IsMap(stations') /\ DOMAIN stations' = DOMAIN stations \cup {Items[item]}
  <2>1. IsMap(stations)
    BY <1>2 DEF Agrees, StationsOf
  <2>2. CASE Items[item] \in DOMAIN stations
    BY <1>1, <2>1, <2>2 DEF AddStation
  <2>3. CASE Items[item] \notin DOMAIN stations
    <3>1. stations' = Put(stations, Items[item], {})
      BY <1>1, <2>3 DEF AddStation
    <3> QED
      BY <3>1 DEF Put, IsMap
  <2> QED
    BY <2>2, <2>3
<1> HIDE DEF all
<1>7. Agrees(all, Here, item + 1, 0, lines, stations')
  BY <1>2, <1>3, <1>4, <1>5, <1>6, StationTaken DEF all
<1>8. ReadingGoesOn'
  <2>1. section' >= 1 /\ item' >= 1
    BY <1>1, <1>2, <1>5 DEF ReadingGoesOn
  <2> QED
    BY <1>1, <1>2, <2>1, ReadingStays
<1> QED
  BY <1>1, <1>3, <1>5, <1>7, <1>8 DEF RInv, all

LEMMA LineIsAdded ==
  ASSUME IInv, TInv, RInv, ExtractLine, phase' # "thrown"
  PROVE  RInv'
<1> DEFINE l == Items[item].name
           new == [stations |-> <<>>, times |-> <<>>]
           all == AllOf(files)
<1>1. /\ phase = "reading" /\ phase' = "reading" /\ IsIn("lines") /\ item \in DOMAIN Items
      /\ stop = 0 /\ l \notin DOMAIN lines /\ lines' = Put(lines, l, new) /\ stop' = 1
      /\ UNCHANGED <<stations, files, section, item>>
  BY DEF ExtractLine, Throw, IsIn, IsDefined
<1>2. ReadingGoesOn /\ Agrees(all, Here, item, 0, lines, stations)
  BY <1>1 DEF RInv
<1>3. /\ <<Here, item>> \in Elements(all, "lines")
      /\ Element(all, <<Here, item>>) = Items[item]
      /\ Items[item].stops \in Seq(ToSet(Items[item].stops))
  BY <1>1, <1>2, ItemPlace
<1>4. Here \in Nat /\ item \in Nat /\ section \in Nat /\ Here' = Here
  BY <1>1, <1>2, HereFacts DEF TInv, ControlType, Here
<1> HIDE DEF new
<1>5. /\ IsMap(lines') /\ DOMAIN lines' = DOMAIN lines \cup {l} /\ lines'[l] = new
      /\ \A j \in DOMAIN lines : lines'[j] = lines[j]
  BY <1>1 DEF Put, IsMap
<1>6. StopsIn(all, <<Here, item>>) \in Nat /\ l = Element(all, <<Here, item>>).name
  BY <1>3 DEF StopsIn
<1> HIDE DEF all, l
<1>7. Agrees(all, Here, item, 1, lines', stations)
  BY <1>1, <1>2, <1>3, <1>4, <1>5, <1>6, LineOpened DEF new
<1>8. ReadingGoesOn'
  <2>1. section' >= 1 /\ item' >= 1
    BY <1>1, <1>2 DEF ReadingGoesOn
  <2> QED
    BY <1>1, <1>2, <2>1, ReadingStays
<1> QED
  BY <1>1, <1>4, <1>7, <1>8 DEF RInv, all

LEMMA StopIsAdded ==
  ASSUME IInv, TInv, RInv, SetLineStation, phase' # "thrown"
  PROVE  RInv'
<1> DEFINE d == Items[item]
           l == d.name
           e == d.stops[stop]
           all == AllOf(files)
<1>1. /\ phase = "reading" /\ phase' = "reading" /\ IsIn("lines") /\ stop > 0
      /\ stop \in DOMAIN d.stops
      /\ e.station \in DOMAIN stations /\ e.time # BadTime
      /\ lines' = PushTime(PushStation(l, e.station), l, e.time)
      /\ stations' = InsertLine(e.station, l)
      /\ stop' = stop + 1 /\ UNCHANGED <<files, section, item>>
  BY DEF SetLineStation, Throw, IsIn
<1>2. ReadingGoesOn /\ Agrees(all, Here, item, stop, lines, stations)
  BY <1>1 DEF RInv
<1>3. item \in DOMAIN Items /\ l \in DOMAIN lines /\ LinesType
  BY <1>1 DEF IInv, LineIsDefined
<1>4. /\ <<Here, item>> \in Elements(all, "lines")
      /\ Element(all, <<Here, item>>) = d
      /\ d.stops \in Seq(ToSet(d.stops))
  BY <1>1, <1>2, <1>3, ItemPlace
<1>5. /\ Here \in Nat /\ item \in Nat /\ stop \in Nat /\ section \in Nat /\ Here' = Here
      /\ Len(d.stops) \in Nat /\ stop <= Len(d.stops)
  <2>1. Here \in Nat /\ item \in Nat /\ stop \in Nat /\ section \in Nat /\ Here' = Here
    BY <1>1, <1>2, HereFacts DEF TInv, ControlType, Here
  <2> HIDE DEF d
  <2>2. Len(d.stops) \in Nat /\ stop <= Len(d.stops)
    BY <1>1, <1>4
  <2> QED
    BY <2>1, <2>2
<1>6. /\ DOMAIN lines' = DOMAIN lines
      /\ \A j \in DOMAIN lines : j # l => lines'[j] = lines[j]
      /\ lines'[l] = Taken(d, stop)
  <2> DEFINE passed == Append(lines[l].stations, e.station)
             times == Append(lines[l].times, e.time % UintRange)
  <2>1. /\ DOMAIN lines' = DOMAIN lines
        /\ lines'[l] = [stations |-> passed, times |-> times]
        /\ \A j \in DOMAIN lines : j # l => lines'[j] = lines[j]
    BY <1>1, <1>3, TimePushed DEF ToUnsigned
  <2>2. lines[l] = Taken(d, stop - 1)
    BY <1>1, <1>2, <1>4 DEF Agrees, LinesOf, IsTaken
  <2>3. passed = Taken(d, stop).stations /\ times = Taken(d, stop).times
    <3> HIDE DEF d, l
    <3> QED
      BY <1>1, <1>5, <2>2, OneStopMore
  <2>4. Taken(d, stop) = [stations |-> Taken(d, stop).stations, times |-> Taken(d, stop).times]
    BY DEF Taken
  <2> QED
    BY <2>1, <2>3, <2>4
<1>7. IsMap(lines) /\ IsMap(stations)
  BY <1>2 DEF Agrees, StationsOf, LinesOf
<1>8. IsMap(lines') /\ IsMap(stations') /\ DOMAIN stations' = DOMAIN stations
  <2>1. IsMap(PushStation(l, e.station))
    BY <1>7 DEF PushStation, IsMap
  <2>2. IsMap(lines')
    BY <1>1, <2>1 DEF PushTime, IsMap
  <2>3. IsMap(stations') /\ DOMAIN stations' = DOMAIN stations
    BY <1>1, <1>7 DEF InsertLine, IsMap
  <2> QED
    BY <2>2, <2>3
<1> HIDE DEF d, all
<1>9. Agrees(all, Here, item, stop + 1, lines', stations')
  BY <1>1, <1>2, <1>4, <1>5, <1>6, <1>8, StopOfLineTaken
<1>10. ReadingGoesOn'
  <2>1. section' >= 1 /\ item' >= 1
    BY <1>1, <1>2 DEF ReadingGoesOn
  <2> QED
    BY <1>1, <1>2, <2>1, ReadingStays
<1> QED
  BY <1>1, <1>5, <1>9, <1>10 DEF RInv, all

LEMMA LineIsClosed ==
  ASSUME IInv, TInv, RInv, LineIsRead
  PROVE  RInv'
<1> DEFINE d == Items[item]
           all == AllOf(files)
<1>1. /\ phase = "reading" /\ phase' = "reading" /\ IsIn("lines") /\ stop > 0
      /\ stop \notin DOMAIN d.stops /\ item' = item + 1 /\ stop' = 0
      /\ UNCHANGED <<lines, stations, files, section>>
  BY DEF LineIsRead, IsIn
<1>2. ReadingGoesOn /\ Agrees(all, Here, item, stop, lines, stations)
  BY <1>1 DEF RInv
<1>3. item \in DOMAIN Items
  BY <1>1 DEF IInv, LineIsDefined
<1>4. Element(all, <<Here, item>>) = d /\ d.stops \in Seq(ToSet(d.stops))
  BY <1>1, <1>2, <1>3, ItemPlace
<1>5. Here \in Nat /\ item \in Nat /\ stop \in Nat /\ section \in Nat /\ Here' = Here
  BY <1>1, <1>2, HereFacts DEF TInv, ControlType, Here
<1> HIDE DEF d, all
<1>6. StopsIn(all, <<Here, item>>) \in Nat /\ ~(stop <= StopsIn(all, <<Here, item>>))
  <2>1. Len(d.stops) \in Nat /\ DOMAIN d.stops = 1..Len(d.stops)
    BY <1>4
  <2> QED
    BY <1>1, <1>4, <1>5, <2>1 DEF StopsIn
<1>7. Agrees(all, Here, item + 1, 0, lines, stations)
  BY <1>1, <1>2, <1>5, <1>6, LineClosed
<1>8. ReadingGoesOn'
  <2>1. section' >= 1 /\ item' >= 1
    BY <1>1, <1>2, <1>5 DEF ReadingGoesOn
  <2> QED
    BY <1>1, <1>2, <2>1, ReadingStays
<1> QED
  BY <1>1, <1>5, <1>7, <1>8 DEF RInv, all

LEMMA SectionIsRead ==
  ASSUME IInv, TInv, RInv, NextSection
  PROVE  RInv'
<1> DEFINE all == AllOf(files)
<1>1. /\ phase = "reading" /\ phase' = "reading" /\ section \in DOMAIN Sections
      /\ Sections[section].tag \in {"stations", "lines"} => item \notin DOMAIN Items
      /\ section' = section + 1 /\ item' = 1
      /\ UNCHANGED <<lines, stations, files, stop>>
  BY DEF NextSection
<1>2. ReadingGoesOn /\ Agrees(all, Here, item, stop, lines, stations)
  BY <1>1 DEF RInv
<1>3. stop = 0
  <2>1. ~(stop > 0)
    BY <1>1 DEF IInv, LineIsDefined, IsIn
  <2> QED
    BY <2>1 DEF TInv, ControlType
<1>4. /\ Here \in Nat /\ all[Here] = Sections[section] /\ Sections[section] \in SectionSet
      /\ files # <<>> /\ section \in Nat /\ item \in Nat /\ item >= 1
      /\ Here = Base(files) + section
  BY <1>1, <1>2, HereFacts DEF TInv, ControlType, ReadingGoesOn
<1>5. Here' = Here + 1
  <2>1. Here' = Base(files) + (section + 1)
    BY <1>1, <1>4 DEF Here
  <2>2. Base(files) \in Nat
    BY <1>4, CurrentSections DEF TInv, ControlType
  <2> QED
    BY <1>4, <2>1, <2>2
<1>6. ASSUME NEW tag \in {"stations", "lines"}, NEW p \in Elements(all, tag), p[1] = Here
      PROVE  p[2] < item
  <2>1. all[Here].tag = tag /\ p[2] \in DOMAIN all[Here].items
    BY <1>6 DEF Elements
  <2>2. item \notin DOMAIN Items /\ p[2] \in DOMAIN Items
    BY <1>1, <1>4, <2>1 DEF Items
  <2>3. DOMAIN Items = 1..Len(Items) /\ Len(Items) \in Nat
    <3>1. Items \in Seq(ToSet(Items))
      BY <1>4, SectionFacts DEF Items
    <3> QED
      BY <3>1
  <2> QED
    BY <1>4, <2>2, <2>3
<1> HIDE DEF all
<1>7. Agrees(all, Here + 1, 1, 0, lines, stations)
  <2>1. \A tag \in {"stations", "lines"} : \A p \in Elements(all, tag) : p[1] = Here => p[2] < item
    BY <1>6
  <2> QED
    BY <1>2, <1>3, <1>4, <2>1, SectionPassed
<1>8. ReadingGoesOn'
  <2>1. section' >= 1 /\ item' >= 1
    BY <1>1, <1>2, <1>4 DEF ReadingGoesOn
  <2> QED
    BY <1>1, <1>2, <2>1, ReadingStays
<1> QED
  BY <1>1, <1>3, <1>5, <1>7, <1>8 DEF RInv, all

LEMMA ReadingEnds ==
  ASSUME IInv, TInv, RInv, CheckStations, phase' # "thrown"
  PROVE  RInv'
<1>1. /\ phase = "reading" /\ phase' = "returned" /\ section \notin DOMAIN Sections
      /\ UNCHANGED <<lines, stations, files, section, item, stop>>
  BY DEF CheckStations, Throw
<1>2. stop = 0
  <2>1. ~(stop > 0)
    BY <1>1 DEF IInv, LineIsDefined, IsIn
  <2> QED
    BY <2>1 DEF TInv, ControlType
<1>3. Agrees(AllOf(files'), Here', item', stop', lines', stations')
  BY <1>1, NothingMoreIsRead
<1>4. ReadingGoesOn'
  <2>1. ReadingGoesOn
    BY <1>1 DEF RInv
  <2>2. Sections' = Sections
    BY <1>1 DEF Sections
  <2> QED
    BY <1>1, <1>2, <2>1, <2>2 DEF ReadingGoesOn
<1> QED
  BY <1>3, <1>4 DEF RInv

LEMMA ReadStep ==
  ASSUME IInv, TInv, RInv, [Next]_vars
  PROVE  RInv'
<1>1. ASSUME NEW f \in Files, ReadTransportFile(f) PROVE RInv'
  BY <1>1, FileIsAdded
<1>2. CASE OpenFile
  BY <1>2, FileIsOpened
<1>3. CASE phase' = "thrown"
  BY <1>3 DEF RInv
<1>4. CASE ExtractStation /\ phase' # "thrown"
  BY <1>4, StationIsAdded
<1>5. CASE ExtractLine /\ phase' # "thrown"
  BY <1>5, LineIsAdded
<1>6. CASE SetLineStation /\ phase' # "thrown"
  BY <1>6, StopIsAdded
<1>7. CASE LineIsRead
  BY <1>7, LineIsClosed
<1>8. CASE NextSection
  BY <1>8, SectionIsRead
<1>9. CASE CheckStations /\ phase' # "thrown"
  BY <1>9, ReadingEnds
<1>10. CASE UNCHANGED vars /\ phase' # "thrown"
  <2>1. UNCHANGED <<lines, stations, files, phase, section, item, stop>>
    BY <1>10 DEF vars
  <2>2. Agrees(AllOf(files'), Here', item', stop', lines', stations')
    BY <1>10, <2>1, NothingMoreIsRead
  <2>3. ReadingGoesOn'
    BY <1>10, <2>1 DEF RInv, ReadingGoesOn, Sections
  <2> QED
    BY <2>2, <2>3 DEF RInv
<1> QED
  BY <1>1, <1>2, <1>3, <1>4, <1>5, <1>6, <1>7, <1>8, <1>9, <1>10 DEF Next, Read

(* The inductive invariant about what has been read. *)
THEOREM ReadInductive == Spec => []RInv
<1>1. Init => RInv
  BY NothingIsRead
<1>2. IInv /\ TInv /\ RInv /\ [Next]_vars => RInv'
  BY ReadStep
<1> QED
  BY <1>1, <1>2, Inductive, TypesInductive, PTL DEF Spec

-----------------------------------------------------------------------------
(* What reading leads to. *)

LEMMA AllIsRead ==
  ASSUME TInv, ReadingGoesOn, phase \in {"reading", "returned"},
         section \notin DOMAIN Sections, NEW tag
  PROVE  Earlier(AllOf(files), tag, Here, item) = Elements(AllOf(files), tag)
<1> DEFINE all == AllOf(files)
<1>1. Here \in Nat /\ all \in Seq(SectionSet) /\ Here > Len(all)
  BY HereFacts
<1> HIDE DEF all
<1>2. Len(all) \in Nat /\ DOMAIN all = 1..Len(all)
  BY <1>1
<1>3. \A p \in Elements(all, tag) : p[1] < Here
  <2>1. ASSUME NEW p \in Elements(all, tag) PROVE p[1] < Here
    <3>1. p[1] \in DOMAIN all
      BY TagOfPlace
    <3> QED
      BY <1>1, <1>2, <3>1
  <2> QED
    BY <2>1
<1> QED
  BY <1>3 DEF Earlier, all

(* No section of a file is lost. *)
LEMMA SectionIsThere ==
  ASSUME NEW fs \in Seq(Files), NEW f \in ToSet(fs), NEW k \in DOMAIN f.sections
  PROVE  \E n \in DOMAIN AllOf(fs) : AllOf(fs)[n] = f.sections[k]
<1> DEFINE each == [j \in DOMAIN fs |-> fs[j].sections]
<1>1. each \in Seq(Seq(SectionSet))
  BY AllSections
<1>2. PICK j \in DOMAIN fs : fs[j] = f
  BY DEF ToSet
<1>3. j \in Nat /\ k \in Nat
  <2>1. f \in Files
    BY <1>2
  <2>2. f.sections \in Seq(SectionSet)
    BY <2>1, SectionsOfFile
  <2> QED
    BY <1>2, <2>2
<1>4. j \in DOMAIN each /\ each[j] = f.sections
  BY <1>2
<1> HIDE DEF each
<1>5. PICK place : ArePlaces(place, FlattenSeq(each), each)
  BY <1>1, FlattenPlaces
<1>6. <<j, k>> \in Places(each)
  BY <1>3, <1>4 DEF Places
<1>7. PICK n \in DOMAIN FlattenSeq(each) : place[n] = <<j, k>>
  BY <1>5, <1>6 DEF ArePlaces
<1>8. FlattenSeq(each)[n] = each[place[n][1]][place[n][2]]
  BY <1>5 DEF ArePlaces
<1>9. AllOf(fs) = FlattenSeq(each)
  BY DEF AllOf, each
<1> QED
  BY <1>4, <1>7, <1>8, <1>9

(* A line of a file is in the map, as the file has it. *)
LEMMA LineIsThere ==
  ASSUME TInv, RInv, phase = "returned", NEW f \in ToSet(files), NEW d \in LineItems(f)
  PROVE  /\ lines[d.name] = Taken(d, Len(d.stops))
         /\ d.stops \in Seq(ToSet(d.stops))
         /\ \A j \in DOMAIN d.stops : d.stops[j].time \in Int
<1> DEFINE all == AllOf(files)
<1>1. PICK k \in DOMAIN f.sections : f.sections[k].tag = "lines" /\ d \in ToSet(f.sections[k].items)
  BY DEF LineItems
<1>2. PICK i \in DOMAIN f.sections[k].items : f.sections[k].items[i] = d
  BY <1>1 DEF ToSet
<1>3. PICK n \in DOMAIN all : all[n] = f.sections[k]
  BY <1>1, SectionIsThere DEF TInv, ControlType
<1>4. ReadingGoesOn /\ Agrees(all, Here, item, stop, lines, stations)
  BY DEF RInv
<1>5. section \notin DOMAIN Sections
  BY <1>4 DEF ReadingGoesOn
<1>6. all \in Seq(SectionSet) /\ Earlier(all, "lines", Here, item) = Elements(all, "lines")
  BY <1>4, <1>5, AllIsRead, HereFacts
<1> HIDE DEF all
<1>7. n \in Nat /\ all[n] \in SectionSet
  BY <1>3, <1>6
<1>8. /\ all[n].items \in Seq(ToSet(all[n].items))
      /\ d.stops \in Seq(ToSet(d.stops))
      /\ \A j \in DOMAIN d.stops : d.stops[j].time # BadTime => d.stops[j].time \in Int
  BY <1>1, <1>2, <1>3, <1>7, SectionFacts
<1>9. i \in Nat \ {0}
  BY <1>2, <1>3, <1>8
<1>10. <<n, i>> \in Elements(all, "lines") /\ Element(all, <<n, i>>) = d
  BY <1>1, <1>2, <1>3, <1>7, <1>9 DEF Elements, Element
<1>11. IsTaken(all, <<n, i>>, StopsIn(all, <<n, i>>), lines)
  BY <1>4, <1>6, <1>10 DEF Agrees, LinesOf
<1>12. \A j \in 1..Len(d.stops) : d.stops[j].time # BadTime
  BY <1>10, <1>11 DEF IsTaken, StopsIn, Sound
<1> QED
  BY <1>8, <1>10, <1>11, <1>12 DEF IsTaken, StopsIn

(* Numbers in a range of unsigned values come back as an int. *)
LEMMA DifferenceFits ==
  ASSUME NEW a \in Int, NEW b \in Int, Fits(b - a)
  PROVE  AsInt(((b % UintRange) - (a % UintRange)) % UintRange) = b - a
<1> DEFINE U == UintRange
           time == b - a
<1>1. U \in Nat \ {0}
  BY FilesAssumption
<1>2. PICK qa \in Int, ra \in 0..(U - 1) : a = qa * U + ra /\ ra = a % U
  <2>1. a = U * (a \div U) + (a % U) /\ a \div U \in Int /\ a % U \in 0..(U - 1)
    BY <1>1
  <2>2. U * (a \div U) = (a \div U) * U
    BY <1>1, <2>1
  <2> QED
    BY <2>1, <2>2
<1>3. PICK qb \in Int, rb \in 0..(U - 1) : b = qb * U + rb /\ rb = b % U
  <2>1. b = U * (b \div U) + (b % U) /\ b \div U \in Int /\ b % U \in 0..(U - 1)
    BY <1>1
  <2>2. U * (b \div U) = (b \div U) * U
    BY <1>1, <2>1
  <2> QED
    BY <2>1, <2>2
<1> DEFINE q == qb - qa
<1>4. q \in Int /\ time \in Int /\ time = q * U + (rb - ra)
  <2>1. qb * U - qa * U = (qb - qa) * U
    BY <1>1
  <2>2. qb * U \in Int /\ qa * U \in Int
    BY <1>1
  <2> QED
    BY <1>1, <1>2, <1>3, <2>1, <2>2
<1>5. U \div 2 \in Nat /\ U \div 2 < U /\ 2 * (U \div 2) <= U /\ U <= 2 * (U \div 2) + 1
  BY <1>1
<1>6. /\ time \in (-(U \div 2))..(U \div 2 - 1)
      /\ AsInt((rb - ra) % U) = IF (rb - ra) % U < U \div 2 THEN (rb - ra) % U ELSE ((rb - ra) % U) - U
  BY DEF Fits, AsInt
<1> HIDE DEF q, U, time
<1>7. ASSUME time >= 0 PROVE AsInt((rb - ra) % U) = time
  <2>1. time < U
    BY <1>4, <1>5, <1>6, <1>1
  <2>2. (rb - ra) % U = time
    <3>1. rb - ra = (-q) * U + time
      BY <1>1, <1>2, <1>3, <1>4
    <3> QED
      BY <1>1, <1>4, <1>7, <2>1, <3>1
  <2>3. time < U \div 2
    BY <1>4, <1>5, <1>6
  <2>4. AsInt((rb - ra) % U) = time
    BY ONLY <1>6, <2>2, <2>3
  <2> QED
    BY <2>4
<1>8. ASSUME time < 0 PROVE AsInt((rb - ra) % U) = time
  <2> DEFINE up == time + U
  <2>1. up \in Nat /\ up < U
    BY <1>1, <1>4, <1>5, <1>6, <1>8
  <2>2. ~(up < U \div 2) /\ up - U = time
    BY <1>1, <1>4, <1>5, <1>6, <1>8
  <2>3. (rb - ra) % U = up
    <3>1. rb - ra = (-q - 1) * U + up
      BY <1>1, <1>2, <1>3, <1>4
    <3> HIDE DEF up
    <3>2. -q - 1 \in Int
      BY <1>4
    <3> QED
      BY <1>1, <2>1, <3>1, <3>2
  <2> HIDE DEF up
  <2>4. AsInt((rb - ra) % U) = time
    BY ONLY <1>6, <2>2, <2>3
  <2> QED
    BY <2>4
<1>9. AsInt((rb - ra) % U) = time
  BY <1>4, <1>7, <1>8
<1>10. AsInt(((b % U) - (a % U)) % U) = AsInt((rb - ra) % U)
  BY ONLY <1>2, <1>3
<1>11. AsInt(((b % U) - (a % U)) % U) = time
  BY <1>9, <1>10
<1> QED
  BY <1>11 DEF U, time

(* The rides of the files come through, whatever numbers they begin with.  *)
THEOREM RidesSurvive == Spec => []RideTimesSurvive
<1>1. TInv /\ RInv => RideTimesSurvive
  <2> SUFFICES ASSUME TInv, RInv, phase = "returned", NEW f \in ToSet(files),
                      NEW d \in LineItems(f), NEW i \in DOMAIN d.stops, NEW j \in DOMAIN d.stops,
                      Fits(d.stops[j].time - d.stops[i].time)
               PROVE  RideTime(d.name, i, j) = d.stops[j].time - d.stops[i].time
    BY DEF RideTimesSurvive
  <2>1. /\ lines[d.name] = Taken(d, Len(d.stops))
        /\ d.stops \in Seq(ToSet(d.stops))
        /\ d.stops[i].time \in Int /\ d.stops[j].time \in Int
    BY LineIsThere
  <2>2. i \in 1..Len(d.stops) /\ j \in 1..Len(d.stops)
    BY <2>1
  <2>3. /\ lines[d.name].times[i] = d.stops[i].time % UintRange
        /\ lines[d.name].times[j] = d.stops[j].time % UintRange
    BY <2>1, <2>2 DEF Taken
  <2> DEFINE a == d.stops[i].time
             b == d.stops[j].time
  <2>4. RideTime(d.name, i, j) = AsInt(((b % UintRange) - (a % UintRange)) % UintRange)
    BY ONLY <2>3 DEF RideTime
  <2>5. AsInt(((b % UintRange) - (a % UintRange)) % UintRange) = b - a
    <3>1. a \in Int /\ b \in Int /\ Fits(b - a)
      BY <2>1
    <3> HIDE DEF a, b
    <3> QED
      BY <3>1, DifferenceFits
  <2> QED
    BY <2>4, <2>5
<1> QED
  BY <1>1, ReadInductive, TypesInductive, PTL

-----------------------------------------------------------------------------
(* What TransportFile says of the same files, place by place.              *)

LEMMA SameOperators ==
  /\ \A s : Promise!FlattenSeq(s) = FlattenSeq(s) /\ Promise!ToSet(s) = ToSet(s)
  /\ \A S : Promise!Cardinality(S) = Cardinality(S)
<1>1. \A s : Promise!FlattenSeq(s) = FlattenSeq(s)
  BY DEF FlattenSeq, Promise!FlattenSeq
<1>2. \A s : Promise!ToSet(s) = ToSet(s)
  BY DEF ToSet, Promise!ToSet
<1>3. \A S : Promise!Cardinality(S) = Cardinality(S)
  BY DEF Cardinality, Promise!Cardinality
<1> QED
  BY <1>1, <1>2, <1>3

LEMMA SameSections == Promise!Sections = AllOf(files)
BY SameOperators DEF Promise!Sections, AllOf

(* The entries of a sequence are the elements of one kind. *)
Entries(place, flat, all, tag) ==
  /\ DOMAIN flat = 1..Len(flat) /\ Len(flat) \in Nat
  /\ \A j \in DOMAIN flat :
       /\ place[j] \in Elements(all, tag)
       /\ flat[j] = [at |-> place[j][1], item |-> Element(all, place[j])]
  /\ \A i, j \in DOMAIN flat : place[i] = place[j] => i = j
  /\ \A p \in Elements(all, tag) : \E j \in DOMAIN flat : place[j] = p

LEMMA EntriesOf ==
  ASSUME files \in Seq(Files), NEW tag
  PROVE  \E place : Entries(place, Promise!Items(tag), AllOf(files), tag)
<1> DEFINE all == AllOf(files)
           part(k) == IF all[k].tag # tag THEN <<>>
                      ELSE [i \in DOMAIN all[k].items |->
                              [at |-> k, item |-> all[k].items[i]]]
           parts == [k \in DOMAIN all |-> part(k)]
           Entry == [at : Nat, item : UNION {ToSet(c.items) : c \in SectionSet}]
<1>1. all \in Seq(SectionSet)
  <2>1. [j \in DOMAIN files |-> files[j].sections] \in Seq(Seq(SectionSet))
    BY AllSections
  <2> QED
    BY <2>1, FlattenFacts DEF AllOf
<1>2. Promise!Items(tag) = FlattenSeq(parts)
  BY SameOperators, SameSections DEF Promise!Items
<1> HIDE DEF all
<1>3. ASSUME NEW k \in DOMAIN all
      PROVE  /\ k \in Nat /\ all[k] \in SectionSet /\ all[k].items \in Seq(ToSet(all[k].items))
             /\ part(k) \in Seq(Entry)
             /\ DOMAIN part(k) = IF all[k].tag # tag THEN {} ELSE DOMAIN all[k].items
  <2>1. k \in Nat /\ all[k] \in SectionSet
    BY <1>1
  <2>2. all[k].items \in Seq(ToSet(all[k].items))
    BY <2>1, SectionFacts
  <2> DEFINE items == all[k].items
             listed == [i \in DOMAIN items |-> [at |-> k, item |-> items[i]]]
  <2>3. listed \in Seq(Entry)
    <3>1. Len(items) \in Nat /\ DOMAIN items = 1..Len(items)
      BY <2>2
    <3>2. \A i \in DOMAIN items : items[i] \in ToSet(items)
      BY DEF ToSet
    <3>3. \A i \in DOMAIN items : [at |-> k, item |-> items[i]] \in Entry
      BY <2>1, <3>2
    <3> HIDE DEF items, Entry
    <3> QED
      BY <3>1, <3>3
  <2> HIDE DEF Entry
  <2> QED
    BY <2>1, <2>2, <2>3
<1>4. parts \in Seq(Seq(Entry))
  <2>1. DOMAIN all = 1..Len(all) /\ Len(all) \in Nat
    BY <1>1
  <2> HIDE DEF part, Entry
  <2> QED
    BY <1>3, <2>1
<1>5. \A p : p \in Places(parts) <=> p \in Elements(all, tag)
  <2>1. ASSUME NEW p \in Nat \X Nat, p[1] \in DOMAIN all
        PROVE  p[2] \in DOMAIN parts[p[1]] <=>
                 all[p[1]].tag = tag /\ p[2] \in DOMAIN all[p[1]].items
    <3>1. parts[p[1]] = part(p[1])
      BY <2>1
    <3> HIDE DEF parts, part
    <3> QED
      BY <1>3, <2>1, <3>1
  <2>2. ASSUME NEW p \in Nat \X Nat, p[1] \in DOMAIN all, p[2] \in DOMAIN all[p[1]].items
        PROVE  p \in Nat \X (Nat \ {0})
    <3>1. all[p[1]].items \in Seq(ToSet(all[p[1]].items))
      BY <1>3, <2>2
    <3>2. p[2] \in Nat \ {0}
      BY <2>2, <3>1
    <3> QED
      BY <3>2
  <2>3. DOMAIN parts = DOMAIN all
    OBVIOUS
  <2>4. \A p \in Nat \X (Nat \ {0}) : p \in Nat \X Nat
    OBVIOUS
  <2> HIDE DEF parts
  <2> QED
    BY <2>1, <2>2, <2>3, <2>4 DEF Places, Elements
<1>6. \A p \in Places(parts) :
        parts[p[1]][p[2]] = [at |-> p[1], item |-> Element(all, p)]
  <2>1. ASSUME NEW p \in Places(parts)
        PROVE  parts[p[1]][p[2]] = [at |-> p[1], item |-> Element(all, p)]
    <3>1. p[1] \in DOMAIN all /\ all[p[1]].tag = tag /\ p[2] \in DOMAIN all[p[1]].items
      BY <1>5, <2>1 DEF Elements
    <3>2. parts[p[1]] = [i \in DOMAIN all[p[1]].items |->
                           [at |-> p[1], item |-> all[p[1]].items[i]]]
      BY <3>1
    <3> HIDE DEF parts
    <3> QED
      BY <3>1, <3>2 DEF Element
  <2> QED
    BY <2>1
<1> HIDE DEF parts, part, Entry
<1>7. PICK place : ArePlaces(place, FlattenSeq(parts), parts)
  BY <1>4, FlattenPlaces
<1> DEFINE flat == FlattenSeq(parts)
<1>8. Len(flat) \in Nat /\ DOMAIN flat = 1..Len(flat)
  <2>1. flat \in Seq(Entry)
    BY <1>4, FlattenFacts
  <2> HIDE DEF flat
  <2> QED
    BY <2>1
<1>9. ArePlaces(place, flat, parts)
  BY <1>7
<1> HIDE DEF flat
<1>10. Entries(place, flat, all, tag)
  BY <1>5, <1>6, <1>8, <1>9 DEF Entries, ArePlaces
<1> QED
  BY <1>2, <1>10 DEF flat, all

LEMMA ListedMeans ==
  ASSUME files \in Seq(Files), NEW k
  PROVE  Promise!Listed(k) = Listing(AllOf(files), k)
<1> DEFINE all == AllOf(files)
           flat == Promise!Items("stations")
<1>1. PICK place : Entries(place, flat, all, "stations")
  BY EntriesOf
<1>2. \A s : s \in Promise!Listed(k) <=>
        \E j \in DOMAIN flat : flat[j].at < k /\ flat[j].item = s
  BY SameOperators DEF Promise!Listed, ToSet
<1> HIDE DEF flat, all
<1>3. \A j \in DOMAIN flat : flat[j].at = place[j][1] /\ flat[j].item = Element(all, place[j])
  BY <1>1 DEF Entries
<1>4. \A s : s \in Listing(all, k) <=>
        \E p \in Elements(all, "stations") : p[1] < k /\ Element(all, p) = s
  BY DEF Listing
<1>5. \A s : s \in Promise!Listed(k) <=> s \in Listing(all, k)
  BY <1>1, <1>2, <1>3, <1>4 DEF Entries
<1> QED
  BY <1>5 DEF all

(* The definitions of lines, in the words of the places. *)
DefinitionsAre(all) ==
  /\ \A d : d \in ToSet(Promise!Defined) <=> \E p \in Elements(all, "lines") : Element(all, p) = d
  /\ \A l : l \in Promise!LineNames <=> \E p \in Elements(all, "lines") : Element(all, p).name = l
  /\ Cardinality(Promise!LineNames) = Len(Promise!Defined) <=>
       \A p, q \in Elements(all, "lines") : Element(all, p).name = Element(all, q).name => p = q
  /\ Promise!StopsAreListed <=>
       \A p \in Elements(all, "lines") :
         Promise!StopsAt(Element(all, p)) \subseteq Listing(all, p[1])

LEMMA DefinedMeans ==
  ASSUME files \in Seq(Files)
  PROVE  DefinitionsAre(AllOf(files))
<1> DEFINE all == AllOf(files)
           flat == Promise!Items("lines")
           defined == Promise!Defined
<1>1. PICK place : Entries(place, flat, all, "lines")
  BY EntriesOf
<1>2. defined = [i \in DOMAIN flat |-> flat[i].item]
  BY DEF Promise!Defined
<1>3. /\ Promise!LineNames = {defined[i].name : i \in DOMAIN defined}
      /\ \A e : e \in Promise!ToSet(flat) <=> \E j \in DOMAIN flat : flat[j] = e
      /\ Promise!StopsAreListed <=>
           \A e \in Promise!ToSet(flat) : Promise!StopsAt(e.item) \subseteq Promise!Listed(e.at)
  BY DEF Promise!LineNames, Promise!StopsAreListed, Promise!ToSet
<1>4. \A k : Promise!Listed(k) = Listing(all, k)
  BY ListedMeans
<1> HIDE DEF flat, all, defined
<1>5. /\ DOMAIN defined = 1..Len(flat) /\ Len(flat) \in Nat /\ Len(defined) = Len(flat)
      /\ \A j \in 1..Len(flat) : /\ flat[j].at = place[j][1]
                                 /\ flat[j].item = Element(all, place[j])
                                 /\ defined[j] = Element(all, place[j])
  <2>1. DOMAIN flat = 1..Len(flat) /\ Len(flat) \in Nat
    BY <1>1 DEF Entries
  <2>2. \A j \in DOMAIN flat : flat[j].at = place[j][1] /\ flat[j].item = Element(all, place[j])
    BY <1>1 DEF Entries
  <2> QED
    BY <1>2, <2>1, <2>2
<1> DEFINE n == Len(flat)
<1>6. /\ \A j \in 1..n : place[j] \in Elements(all, "lines")
      /\ \A i, j \in 1..n : place[i] = place[j] => i = j
      /\ \A p \in Elements(all, "lines") : \E j \in 1..n : place[j] = p
  BY <1>1, <1>5 DEF Entries
<1>7. \A d : d \in ToSet(defined) <=> \E p \in Elements(all, "lines") : Element(all, p) = d
  BY <1>5, <1>6 DEF ToSet
<1>8. \A l : l \in Promise!LineNames <=> \E p \in Elements(all, "lines") : Element(all, p).name = l
  BY <1>3, <1>5, <1>6
<1>9. Cardinality(Promise!LineNames) = Len(defined) <=>
        \A p, q \in Elements(all, "lines") : Element(all, p).name = Element(all, q).name => p = q
  <2> DEFINE named == [j \in 1..n |-> defined[j].name]
  <2>1. Promise!LineNames = {named[j] : j \in 1..n}
    BY <1>3, <1>5
  <2> HIDE DEF named
  <2>2. Cardinality(Promise!LineNames) = n <=> \A i, j \in 1..n : named[i] = named[j] => i = j
    <3>1. n \in Nat
      BY <1>5
    <3> HIDE DEF n
    <3> QED
      BY <2>1, <3>1, ImageSize
  <2>3. \A j \in 1..n : named[j] = Element(all, place[j]).name
    BY <1>5 DEF named
  <2>4. (\A i, j \in 1..n : named[i] = named[j] => i = j) <=>
          \A p, q \in Elements(all, "lines") : Element(all, p).name = Element(all, q).name => p = q
    <3> HIDE DEF n
    <3> QED
      BY <1>6, <2>3
  <2> QED
    BY <1>5, <2>2, <2>4
<1>10. Promise!StopsAreListed <=>
         \A p \in Elements(all, "lines") :
           Promise!StopsAt(Element(all, p)) \subseteq Listing(all, p[1])
  <2>1. \A j \in 1..n : /\ flat[j].at = place[j][1]
                        /\ flat[j].item = Element(all, place[j])
    BY <1>5
  <2>2. Promise!StopsAreListed <=>
          \A j \in 1..n : Promise!StopsAt(flat[j].item) \subseteq Promise!Listed(flat[j].at)
    BY <1>1, <1>3 DEF Entries
  <2>3. Promise!StopsAreListed <=>
          \A j \in 1..n : Promise!StopsAt(Element(all, place[j])) \subseteq Listing(all, place[j][1])
    BY <1>4, <2>1, <2>2
  <2> HIDE DEF n
  <2> QED
    BY <1>6, <2>3
<1> QED
  BY <1>7, <1>8, <1>9, <1>10 DEF DefinitionsAre, defined, all

(* Acceptable sections, in the words of the places. *)
Fine(all) ==
  /\ \A p \in Elements(all, "stations") : Element(all, p) # CHANGE_NAME
  /\ \A p \in Elements(all, "lines") : Element(all, p).name # CHANGE_NAME
  /\ \A p, q \in Elements(all, "lines") : Element(all, p).name = Element(all, q).name => p = q
  /\ \A p \in Elements(all, "lines") : Sound(Element(all, p), StopsIn(all, p), Listing(all, p[1]))
  /\ \A p \in Elements(all, "stations") :
       \E q \in Elements(all, "lines") : \E j \in 1..StopsIn(all, q) :
         Element(all, q).stops[j].station = Element(all, p)

(* Everything is listed before the end. *)
LEMMA ListedAtAll ==
  ASSUME NEW all \in Seq(SectionSet)
  PROVE  /\ \A s : s \in Listing(all, Len(all) + 1) <=>
              \E p \in Elements(all, "stations") : Element(all, p) = s
         /\ \A k : \A s \in Listing(all, k) : \E p \in Elements(all, "stations") : Element(all, p) = s
<1>1. Len(all) \in Nat /\ DOMAIN all = 1..Len(all)
  OBVIOUS
<1>2. \A p \in Elements(all, "stations") : p[1] < Len(all) + 1
  <2>1. ASSUME NEW p \in Elements(all, "stations") PROVE p[1] < Len(all) + 1
    <3>1. p[1] \in 1..Len(all)
      BY <1>1, TagOfPlace
    <3> QED
      BY <1>1, <3>1
  <2> QED
    BY <2>1
<1>3. \A k : \A s : s \in Listing(all, k) <=>
        \E p \in Elements(all, "stations") : p[1] < k /\ Element(all, p) = s
  BY DEF Listing
<1> QED
  BY <1>2, <1>3

LEMMA LineFacts ==
  ASSUME NEW all \in Seq(SectionSet), NEW p \in Elements(all, "lines")
  PROVE  /\ Element(all, p).stops \in Seq(ToSet(Element(all, p).stops))
         /\ DOMAIN Element(all, p).stops = 1..StopsIn(all, p) /\ StopsIn(all, p) \in Nat
         /\ \A s : s \in Promise!StopsAt(Element(all, p)) <=>
              \E j \in 1..StopsIn(all, p) : Element(all, p).stops[j].station = s
<1> DEFINE d == Element(all, p)
<1>1. p[1] \in DOMAIN all /\ all[p[1]].tag = "lines" /\ p[2] \in DOMAIN all[p[1]].items
  BY DEF Elements
<1>2. all[p[1]] \in SectionSet
  BY <1>1
<1>3. d.stops \in Seq(ToSet(d.stops))
  BY <1>1, <1>2, SectionFacts DEF Element
<1>4. \A s : s \in Promise!StopsAt(d) <=> \E j \in DOMAIN d.stops : d.stops[j].station = s
  BY DEF Promise!StopsAt
<1> HIDE DEF d
<1>5. DOMAIN d.stops = 1..Len(d.stops) /\ Len(d.stops) \in Nat
  BY <1>3
<1>6. StopsIn(all, p) = Len(d.stops)
  BY DEF StopsIn, d
<1>7. \A s : s \in Promise!StopsAt(d) <=> \E j \in 1..StopsIn(all, p) : d.stops[j].station = s
  BY <1>4, <1>5, <1>6
<1> QED
  BY <1>3, <1>5, <1>6, <1>7 DEF d

LEMMA AcceptableMeans ==
  ASSUME files \in Seq(Files)
  PROVE  Promise!Acceptable <=>
           (\A k \in DOMAIN files : files[k].fault = None) /\ Fine(AllOf(files))
<1> DEFINE all == AllOf(files)
           Line == Elements(all, "lines")
           Stations == Elements(all, "stations")
           everywhere == Promise!Listed(Len(Promise!Sections) + 1)
           Visits(s) == \E q \in Line : \E j \in 1..StopsIn(all, q) :
                          Element(all, q).stops[j].station = s
<1>1. all \in Seq(SectionSet)
  <2>1. [j \in DOMAIN files |-> files[j].sections] \in Seq(Seq(SectionSet))
    BY AllSections
  <2> QED
    BY <2>1, FlattenFacts DEF AllOf
<1>2. DefinitionsAre(all)
  BY DefinedMeans
<1>3. \A s : s \in everywhere <=> \E p \in Stations : Element(all, p) = s
  <2>1. everywhere = Listing(all, Len(all) + 1)
    BY SameSections, ListedMeans
  <2> HIDE DEF all
  <2> QED
    BY <1>1, <2>1, ListedAtAll
<1> HIDE DEF all
<1>4. \A k : \A s \in Listing(all, k) : \E p \in Stations : Element(all, p) = s
  BY <1>1, ListedAtAll
<1>5. \A p \in Line :
        /\ DOMAIN Element(all, p).stops = 1..StopsIn(all, p)
        /\ \A s : s \in Promise!StopsAt(Element(all, p)) <=>
             \E j \in 1..StopsIn(all, p) : Element(all, p).stops[j].station = s
  BY <1>1, LineFacts
<1>6. Promise!NamesAreFree <=>
        /\ \A p \in Stations : Element(all, p) # CHANGE_NAME
        /\ \A p \in Line : Element(all, p).name # CHANGE_NAME
        /\ \A p, q \in Line : Element(all, p).name = Element(all, q).name => p = q
  <2>1. Promise!NamesAreFree <=>
          /\ CHANGE_NAME \notin everywhere \cup Promise!LineNames
          /\ Cardinality(Promise!LineNames) = Len(Promise!Defined)
    BY SameOperators DEF Promise!NamesAreFree
  <2>2. CHANGE_NAME \notin Promise!LineNames <=> \A p \in Line : Element(all, p).name # CHANGE_NAME
    BY <1>2 DEF DefinitionsAre
  <2>3. CHANGE_NAME \notin everywhere <=> \A p \in Stations : Element(all, p) # CHANGE_NAME
    BY <1>3
  <2>4. Cardinality(Promise!LineNames) = Len(Promise!Defined) <=>
          \A p, q \in Line : Element(all, p).name = Element(all, q).name => p = q
    BY <1>2 DEF DefinitionsAre
  <2> HIDE DEF everywhere, Line, Stations
  <2> QED
    BY <2>1, <2>2, <2>3, <2>4
<1>7. Promise!StopsAreListed /\ Promise!TimesAreNumbers <=>
        \A p \in Line : Sound(Element(all, p), StopsIn(all, p), Listing(all, p[1]))
  <2>1. Promise!StopsAreListed <=>
          \A p \in Line : Promise!StopsAt(Element(all, p)) \subseteq Listing(all, p[1])
    BY <1>2 DEF DefinitionsAre
  <2>2. Promise!TimesAreNumbers <=>
          \A p \in Line : \A j \in DOMAIN Element(all, p).stops : Element(all, p).stops[j].time # BadTime
    <3>1. Promise!TimesAreNumbers <=>
            \A d \in ToSet(Promise!Defined) : \A j \in DOMAIN d.stops : d.stops[j].time # BadTime
      BY SameOperators DEF Promise!TimesAreNumbers
    <3> QED
      BY <1>2, <3>1 DEF DefinitionsAre
  <2>3. ASSUME NEW p \in Line
        PROVE  Sound(Element(all, p), StopsIn(all, p), Listing(all, p[1])) <=>
                 /\ Promise!StopsAt(Element(all, p)) \subseteq Listing(all, p[1])
                 /\ \A j \in DOMAIN Element(all, p).stops : Element(all, p).stops[j].time # BadTime
    BY <1>5 DEF Sound
  <2> HIDE DEF Line
  <2> QED
    BY <2>1, <2>2, <2>3
<1>8. Promise!StopsAreListed =>
        (Promise!StationsHaveLines <=> \A p \in Stations : Visits(Element(all, p)))
  <2> SUFFICES ASSUME Promise!StopsAreListed
               PROVE  Promise!StationsHaveLines <=> \A p \in Stations : Visits(Element(all, p))
    OBVIOUS
  <2> DEFINE visited == UNION {Promise!StopsAt(d) : d \in Promise!ToSet(Promise!Defined)}
  <2>1. Promise!StationsHaveLines <=> everywhere = visited
    BY DEF Promise!StationsHaveLines
  <2>2. \A s : s \in visited <=> \E d \in ToSet(Promise!Defined) : s \in Promise!StopsAt(d)
    BY SameOperators
  <2> HIDE DEF visited, everywhere
  <2>3. \A s : s \in visited <=> \E p \in Line : s \in Promise!StopsAt(Element(all, p))
    BY <1>2, <2>2 DEF DefinitionsAre
  <2>4. \A s : s \in visited <=> Visits(s)
    BY <1>5, <2>3
  <2>5. \A s \in visited : s \in everywhere
    <3>1. \A p \in Line : Promise!StopsAt(Element(all, p)) \subseteq Listing(all, p[1])
      BY <1>2 DEF DefinitionsAre
    <3> HIDE DEF Line
    <3> QED
      BY <1>3, <1>4, <2>3, <3>1
  <2> HIDE DEF Visits, Stations
  <2>6. everywhere = visited <=> \A s \in everywhere : Visits(s)
    BY <2>4, <2>5
  <2> QED
    BY <1>3, <2>1, <2>6
<1>9. Fine(all) <=>
        /\ \A p \in Stations : Element(all, p) # CHANGE_NAME
        /\ \A p \in Line : Element(all, p).name # CHANGE_NAME
        /\ \A p, q \in Line : Element(all, p).name = Element(all, q).name => p = q
        /\ \A p \in Line : Sound(Element(all, p), StopsIn(all, p), Listing(all, p[1]))
        /\ \A p \in Stations : Visits(Element(all, p))
  BY DEF Fine
<1>10. Promise!Acceptable <=>
         /\ \A k \in DOMAIN files : files[k].fault = None
         /\ Promise!NamesAreFree
         /\ Promise!StopsAreListed /\ Promise!TimesAreNumbers
         /\ Promise!StationsHaveLines
  BY DEF Promise!Acceptable, None
<1> HIDE DEF Line, Stations, Visits
<1>11. Promise!Acceptable <=> (\A k \in DOMAIN files : files[k].fault = None) /\ Fine(all)
  BY <1>6, <1>7, <1>8, <1>9, <1>10
<1> QED
  BY <1>11 DEF all

(* The network, when everything is acceptable. *)
LEMMA NetworkMeans ==
  ASSUME files \in Seq(Files), NEW ls, NEW st, IsMap(ls), IsMap(st),
         NEW all, all = AllOf(files),
         \A s : s \in DOMAIN st <=> \E p \in Elements(all, "stations") : Element(all, p) = s,
         \A l : l \in DOMAIN ls <=> \E p \in Elements(all, "lines") : Element(all, p).name = l,
         \A p \in Elements(all, "lines") :
           ls[Element(all, p).name] = Taken(Element(all, p), StopsIn(all, p)),
         \A s \in DOMAIN st : st[s] = {l \in DOMAIN ls : s \in ToSet(ls[l].stations)}
  PROVE  Promise!Network = [stations |-> st, lines |-> ls]
<1> DEFINE Line == Elements(all, "lines")
           everywhere == Promise!Listed(Len(Promise!Sections) + 1)
           at == [s \in everywhere |-> Promise!LinesStoppingAt(s)]
           chosen(l) == CHOOSE d \in Promise!ToSet(Promise!Defined) : d.name = l
           read == [l \in Promise!LineNames |-> Promise!Read(chosen(l))]
<1>1. all \in Seq(SectionSet)
  <2>1. [j \in DOMAIN files |-> files[j].sections] \in Seq(Seq(SectionSet))
    BY AllSections
  <2> QED
    BY <2>1, FlattenFacts DEF AllOf
<1>2. DefinitionsAre(all)
  BY DefinedMeans
<1>3. \A s : s \in everywhere <=> s \in DOMAIN st
  <2>1. everywhere = Listing(all, Len(all) + 1)
    BY SameSections, ListedMeans
  <2> QED
    BY <1>1, <2>1, ListedAtAll
<1>4. \A l : l \in Promise!LineNames <=> l \in DOMAIN ls
  BY <1>2 DEF DefinitionsAre
<1>5. \A p \in Line : /\ DOMAIN Element(all, p).stops = 1..StopsIn(all, p)
                      /\ StopsIn(all, p) \in Nat
                      /\ \A s : s \in Promise!StopsAt(Element(all, p)) <=>
                           \E j \in 1..StopsIn(all, p) : Element(all, p).stops[j].station = s
  BY <1>1, LineFacts
<1>6. \A p \in Line : \A s : s \in ToSet(Taken(Element(all, p), StopsIn(all, p)).stations) <=>
                             s \in Promise!StopsAt(Element(all, p))
  <2>1. ASSUME NEW p \in Line, NEW s
        PROVE  s \in ToSet(Taken(Element(all, p), StopsIn(all, p)).stations) <=>
                 s \in Promise!StopsAt(Element(all, p))
    <3>1. s \in ToSet(Taken(Element(all, p), StopsIn(all, p)).stations) <=>
            \E j \in 1..StopsIn(all, p) : Element(all, p).stops[j].station = s
      BY DEF Taken, ToSet
    <3>2. s \in Promise!StopsAt(Element(all, p)) <=>
            \E j \in 1..StopsIn(all, p) : Element(all, p).stops[j].station = s
      BY <1>5
    <3> QED
      BY ONLY <3>1, <3>2
  <2> QED
    BY <2>1
<1>7. \A s \in DOMAIN st : Promise!LinesStoppingAt(s) = st[s]
  <2>1. ASSUME NEW s \in DOMAIN st, NEW l
        PROVE  l \in Promise!LinesStoppingAt(s) <=> l \in st[s]
    <3>1. l \in Promise!LinesStoppingAt(s) <=>
            \E d \in ToSet(Promise!Defined) : s \in Promise!StopsAt(d) /\ d.name = l
      BY SameOperators DEF Promise!LinesStoppingAt
    <3>2. l \in Promise!LinesStoppingAt(s) <=>
            \E p \in Line : s \in Promise!StopsAt(Element(all, p)) /\ Element(all, p).name = l
      BY <1>2, <3>1 DEF DefinitionsAre
    <3>3. l \in st[s] <=> l \in DOMAIN ls /\ s \in ToSet(ls[l].stations)
      OBVIOUS
    <3>4. \A p \in Line : Element(all, p).name = l =>
            (s \in ToSet(ls[l].stations) <=> s \in Promise!StopsAt(Element(all, p)))
      BY <1>6
    <3> QED
      BY <3>2, <3>3, <3>4
  <2> QED
    BY <2>1
<1>8. \A l \in DOMAIN ls : Promise!Read(chosen(l)) = ls[l]
  <2>1. ASSUME NEW l \in DOMAIN ls PROVE Promise!Read(chosen(l)) = ls[l]
    <3>1. PICK p \in Line : Element(all, p).name = l
      OBVIOUS
    <3>2. Element(all, p) \in Promise!ToSet(Promise!Defined)
      BY <1>2, SameOperators DEF DefinitionsAre
    <3>3. chosen(l) \in Promise!ToSet(Promise!Defined) /\ chosen(l).name = l
      BY <3>1, <3>2
    <3> HIDE DEF chosen
    <3>4. PICK q \in Line : Element(all, q) = chosen(l)
      BY <1>2, <3>3, SameOperators DEF DefinitionsAre
    <3>5. ls[l] = Taken(chosen(l), StopsIn(all, q)) /\ DOMAIN chosen(l).stops = 1..StopsIn(all, q)
      BY <1>5, <3>3, <3>4
    <3> QED
      BY <3>5 DEF Taken, Promise!Read
  <2> QED
    BY <2>1
<1> HIDE DEF chosen, everywhere
<1>9. at = st
  BY <1>3, <1>7 DEF IsMap
<1>10. read = ls
  BY <1>4, <1>8 DEF IsMap
<1>11. Promise!Network = [stations |-> at, lines |-> read]
  BY DEF Promise!Network, chosen, everywhere
<1> QED
  BY <1>9, <1>10, <1>11

-----------------------------------------------------------------------------
(* An exception is thrown only for what is not acceptable. *)

LEMMA FaultIsRefused ==
  ASSUME TInv, RInv, OpenFile, phase' = "thrown"
  PROVE  ~Promise!Acceptable
<1>1. files[Len(files)].fault # None
  BY DEF OpenFile
<1>2. files \in Seq(Files) /\ Len(files) > 0
  BY DEF OpenFile, TInv, ControlType
<1>3. Len(files) \in DOMAIN files
  BY <1>2
<1> QED
  BY <1>1, <1>2, <1>3, AcceptableMeans

LEMMA StationIsRefused ==
  ASSUME TInv, RInv, ExtractStation, phase' = "thrown"
  PROVE  ~Promise!Acceptable
<1> DEFINE all == AllOf(files)
<1>1. /\ phase = "reading" /\ IsIn("stations") /\ item \in DOMAIN Items
      /\ Items[item] = CHANGE_NAME
  BY DEF ExtractStation, IsIn, IsInvalidName
<1>2. ReadingGoesOn /\ files \in Seq(Files)
  BY <1>1 DEF RInv, TInv, ControlType
<1>3. /\ <<Here, item>> \in Elements(all, "stations")
      /\ Element(all, <<Here, item>>) = CHANGE_NAME
  BY <1>1, <1>2, ItemPlace
<1>4. ~Fine(all)
  BY <1>3 DEF Fine
<1> QED
  BY <1>2, <1>4, AcceptableMeans

LEMMA LineIsRefused ==
  ASSUME TInv, RInv, ExtractLine, phase' = "thrown"
  PROVE  ~Promise!Acceptable
<1> DEFINE all == AllOf(files)
           name == Items[item].name
<1>1. /\ phase = "reading" /\ IsIn("lines") /\ item \in DOMAIN Items /\ stop = 0
      /\ name = CHANGE_NAME \/ name \in DOMAIN lines
  BY DEF ExtractLine, IsIn, IsInvalidName, IsDefined
<1>2. ReadingGoesOn /\ Agrees(all, Here, item, 0, lines, stations) /\ files \in Seq(Files)
  BY <1>1 DEF RInv, TInv, ControlType
<1>3. /\ <<Here, item>> \in Elements(all, "lines")
      /\ Element(all, <<Here, item>>).name = name
  BY <1>1, <1>2, ItemPlace
<1>4. CASE name = CHANGE_NAME
  <2>1. ~Fine(all)
    BY <1>3, <1>4 DEF Fine
  <2> QED
    BY <1>2, <2>1, AcceptableMeans
<1>5. CASE name \in DOMAIN lines
  <2>1. PICK p \in Earlier(all, "lines", Here, item) : Element(all, p).name = name
    BY <1>2, <1>5 DEF Agrees, LinesOf
  <2>2. p \in Elements(all, "lines") /\ p # <<Here, item>>
    <3>1. p \in Elements(all, "lines") /\ (p[1] < Here \/ (p[1] = Here /\ p[2] < item))
      BY DEF Earlier
    <3>2. Here \in Nat /\ item \in Nat
      BY <1>1, <1>2, HereFacts DEF TInv, ControlType
    <3>3. ~(Here < Here) /\ ~(item < item)
      BY <3>2
    <3> QED
      BY <3>1, <3>3
  <2>3. ~Fine(all)
    BY <1>3, <2>1, <2>2 DEF Fine
  <2> QED
    BY <1>2, <2>3, AcceptableMeans
<1> QED
  BY <1>1, <1>4, <1>5

LEMMA StopIsRefused ==
  ASSUME IInv, TInv, RInv, SetLineStation, phase' = "thrown"
  PROVE  ~Promise!Acceptable
<1> DEFINE all == AllOf(files)
           d == Items[item]
           e == d.stops[stop]
<1>1. /\ phase = "reading" /\ IsIn("lines") /\ stop > 0 /\ stop \in DOMAIN d.stops
      /\ e.station \notin DOMAIN stations \/ e.time = BadTime
  BY DEF SetLineStation, IsIn
<1>2. ReadingGoesOn /\ Agrees(all, Here, item, stop, lines, stations) /\ files \in Seq(Files)
  BY <1>1 DEF RInv, TInv, ControlType
<1>3. item \in DOMAIN Items
  BY <1>1 DEF IInv, LineIsDefined
<1>4. /\ <<Here, item>> \in Elements(all, "lines")
      /\ Element(all, <<Here, item>>) = d
      /\ d.stops \in Seq(ToSet(d.stops))
  BY <1>1, <1>2, <1>3, ItemPlace
<1>5. Here \in Nat /\ item \in Nat
  BY <1>1, <1>2, HereFacts DEF TInv, ControlType
<1> HIDE DEF all, d
<1>6. DOMAIN stations = Listing(all, Here)
  BY <1>2, <1>4, <1>5, KnownAreListed DEF Agrees
<1>7. stop \in 1..StopsIn(all, <<Here, item>>) /\ <<Here, item>>[1] = Here
  BY <1>1, <1>4 DEF StopsIn
<1>8. ~Sound(d, StopsIn(all, <<Here, item>>), Listing(all, Here))
  BY <1>1, <1>6, <1>7 DEF Sound
<1>9. ~Fine(all)
  BY <1>4, <1>7, <1>8 DEF Fine
<1> QED
  BY <1>2, <1>9, AcceptableMeans DEF all

(* When the elements are read, the maps say it all. *)
LEMMA AllIsInTheMaps ==
  ASSUME IInv, TInv, RInv, CheckStations, NEW all, all = AllOf(files)
  PROVE  /\ files \in Seq(Files) /\ \A k \in DOMAIN files : files[k].fault = None
         /\ IsMap(lines) /\ IsMap(stations)
         /\ \A s : s \in DOMAIN stations <=> \E p \in Elements(all, "stations") : Element(all, p) = s
         /\ \A l : l \in DOMAIN lines <=> \E p \in Elements(all, "lines") : Element(all, p).name = l
         /\ \A p \in Elements(all, "lines") :
              /\ lines[Element(all, p).name] = Taken(Element(all, p), StopsIn(all, p))
              /\ Sound(Element(all, p), StopsIn(all, p), Listing(all, p[1]))
         /\ \A p, q \in Elements(all, "lines") :
              Element(all, p).name = Element(all, q).name => p = q
         /\ \A s \in DOMAIN stations :
              stations[s] = {l \in DOMAIN lines : s \in ToSet(lines[l].stations)}
<1>1. phase = "reading" /\ section \notin DOMAIN Sections /\ ~(stop > 0)
  BY DEF CheckStations, IInv, LineIsDefined, IsIn
<1>2. ReadingGoesOn /\ Agrees(all, Here, item, stop, lines, stations) /\ files \in Seq(Files)
  BY <1>1 DEF RInv, TInv, ControlType
<1>3. /\ Earlier(all, "lines", Here, item) = Elements(all, "lines")
      /\ Earlier(all, "stations", Here, item) = Elements(all, "stations")
  BY <1>1, <1>2, AllIsRead
<1>4. \A k \in DOMAIN files : files[k].fault = None
  <2>1. Len(files) \in Nat /\ \A k \in DOMAIN files : k = Len(files) \/ k \in 1..(Len(files) - 1)
    BY <1>2
  <2> QED
    BY <1>1, <1>2, <2>1 DEF ReadingGoesOn
<1>5. \A s \in DOMAIN stations : stations[s] = {l \in DOMAIN lines : s \in ToSet(lines[l].stations)}
  BY DEF IInv, MapsAgree, LinesAt
<1>6. /\ StationsOf(all, Here, item, stations)
      /\ LinesOf(all, Here, item, stop, lines)
  BY <1>2 DEF Agrees
<1>7. /\ IsMap(stations)
      /\ \A s : s \in DOMAIN stations <=> \E p \in Elements(all, "stations") : Element(all, p) = s
  BY <1>3, <1>6 DEF StationsOf
<1>8. /\ IsMap(lines)
      /\ \A l : l \in DOMAIN lines <=> \E p \in Elements(all, "lines") : Element(all, p).name = l
      /\ \A p \in Elements(all, "lines") : IsTaken(all, p, StopsIn(all, p), lines)
      /\ \A p, q \in Elements(all, "lines") :
           Element(all, p).name = Element(all, q).name => p = q
  BY <1>1, <1>3, <1>6 DEF LinesOf
<1>9. \A p \in Elements(all, "lines") :
        /\ lines[Element(all, p).name] = Taken(Element(all, p), StopsIn(all, p))
        /\ Sound(Element(all, p), StopsIn(all, p), Listing(all, p[1]))
  BY <1>8 DEF IsTaken
<1> QED
  BY <1>2, <1>4, <1>5, <1>7, <1>8, <1>9

(* A station is visited when there is a line at it. *)
LEMMA VisitedMeans ==
  ASSUME IInv, TInv, RInv, CheckStations, NEW all, all = AllOf(files), NEW s \in DOMAIN stations
  PROVE  stations[s] # {} <=>
           \E q \in Elements(all, "lines") : \E j \in 1..StopsIn(all, q) :
             Element(all, q).stops[j].station = s
<1>1. /\ \A l : l \in DOMAIN lines <=> \E p \in Elements(all, "lines") : Element(all, p).name = l
      /\ \A p \in Elements(all, "lines") :
           lines[Element(all, p).name] = Taken(Element(all, p), StopsIn(all, p))
      /\ stations[s] = {l \in DOMAIN lines : s \in ToSet(lines[l].stations)}
  BY AllIsInTheMaps
<1>2. stations[s] # {} <=>
        \E p \in Elements(all, "lines") : s \in ToSet(lines[Element(all, p).name].stations)
  BY <1>1
<1>3. ASSUME NEW p \in Elements(all, "lines")
      PROVE  s \in ToSet(lines[Element(all, p).name].stations) <=>
               \E j \in 1..StopsIn(all, p) : Element(all, p).stops[j].station = s
  <2> DEFINE taken == Taken(Element(all, p), StopsIn(all, p))
  <2>1. lines[Element(all, p).name].stations = taken.stations
    BY <1>1
  <2>2. taken.stations = [j \in 1..StopsIn(all, p) |-> Element(all, p).stops[j].station]
    BY DEF Taken
  <2> QED
    BY <2>1, <2>2 DEF ToSet
<1> QED
  BY <1>2, <1>3

LEMMA UnvisitedIsRefused ==
  ASSUME IInv, TInv, RInv, CheckStations, phase' = "thrown"
  PROVE  ~Promise!Acceptable
<1>1. PICK all : all = AllOf(files)
  OBVIOUS
<1>2. PICK s \in DOMAIN stations : stations[s] = {}
  BY DEF CheckStations, Unvisited
<1>3. PICK p \in Elements(all, "stations") : Element(all, p) = s
  BY <1>1, AllIsInTheMaps
<1>4. ~\E q \in Elements(all, "lines") : \E j \in 1..StopsIn(all, q) :
         Element(all, q).stops[j].station = s
  BY <1>1, <1>2, VisitedMeans
<1>5. ~Fine(all)
  BY <1>3, <1>4 DEF Fine
<1>6. files \in Seq(Files)
  BY DEF TInv, ControlType
<1> QED
  BY <1>1, <1>5, <1>6, AcceptableMeans

LEMMA NetworkIsDelivered ==
  ASSUME IInv, TInv, RInv, CheckStations, phase' = "returned"
  PROVE  Promise!Acceptable /\ Promise!Network = [stations |-> stations, lines |-> lines]
<1>1. PICK all : all = AllOf(files)
  OBVIOUS
<1>2. /\ files \in Seq(Files) /\ \A k \in DOMAIN files : files[k].fault = None
      /\ IsMap(lines) /\ IsMap(stations)
      /\ \A s : s \in DOMAIN stations <=> \E p \in Elements(all, "stations") : Element(all, p) = s
      /\ \A l : l \in DOMAIN lines <=> \E p \in Elements(all, "lines") : Element(all, p).name = l
      /\ \A p \in Elements(all, "lines") :
           /\ lines[Element(all, p).name] = Taken(Element(all, p), StopsIn(all, p))
           /\ Sound(Element(all, p), StopsIn(all, p), Listing(all, p[1]))
      /\ \A p, q \in Elements(all, "lines") :
           Element(all, p).name = Element(all, q).name => p = q
      /\ \A s \in DOMAIN stations :
           stations[s] = {l \in DOMAIN lines : s \in ToSet(lines[l].stations)}
  BY <1>1, AllIsInTheMaps
<1>3. Promise!Network = [stations |-> stations, lines |-> lines]
  BY <1>1, <1>2, NetworkMeans
<1>4. \A s \in DOMAIN stations : stations[s] # {}
  BY DEF CheckStations, Throw, Unvisited
<1>5. \A s \in DOMAIN stations :
        \E q \in Elements(all, "lines") : \E j \in 1..StopsIn(all, q) :
          Element(all, q).stops[j].station = s
  BY <1>1, <1>4, VisitedMeans
<1>6. CHANGE_NAME \notin DOMAIN lines /\ CHANGE_NAME \notin DOMAIN stations
  BY DEF TInv, NamesAreFree
<1>7. Fine(all)
  BY <1>2, <1>5, <1>6 DEF Fine
<1> QED
  BY <1>1, <1>2, <1>3, <1>7, AcceptableMeans

(* Each step is one of TransportFile, or none that it knows of. *)
LEMMA PromiseStep ==
  ASSUME IInv, TInv, RInv, [Next]_vars
  PROVE  [Promise!FileNext]_(Promise!fileVars)
<1> DEFINE status == IF phase = "opening" THEN "reading" ELSE phase
           network == IF phase = "returned" THEN [stations |-> stations, lines |-> lines] ELSE <<>>
<1> USE DEF Promise!FileNext, Promise!fileVars
<1>1. ASSUME NEW f \in Files, ReadTransportFile(f) PROVE Promise!Ask
  <2>1. /\ phase \in {"new", "returned"} /\ Len(files) < MaxReads /\ files' = Append(files, f)
        /\ phase' = "opening"
    BY <1>1 DEF ReadTransportFile
  <2> QED
    BY <2>1 DEF Promise!Ask, Promise!NoNetwork
<1>2. ASSUME phase \in {"opening", "reading"}, phase' = "thrown", files' = files, ~Promise!Acceptable
      PROVE  Promise!Refuse
  BY <1>2 DEF Promise!Refuse
<1>3. ASSUME phase \in {"opening", "reading"}, phase' = "reading", files' = files
      PROVE  UNCHANGED Promise!fileVars
  BY <1>3
<1>4. CASE OpenFile
  <2>1. files' = files /\ phase = "opening" /\ phase' \in {"reading", "thrown"}
    BY <1>4 DEF OpenFile, Throw
  <2>2. phase' = "thrown" => ~Promise!Acceptable
    BY <1>4, FaultIsRefused
  <2> QED
    BY <1>2, <1>3, <2>1, <2>2
<1>5. CASE ExtractStation \/ ExtractLine \/ SetLineStation
  <2>1. phase = "reading" /\ files' = files /\ phase' \in {"reading", "thrown"}
    BY <1>5, ElementOutcome DEF Thrown, Passed
  <2>2. phase' = "thrown" => ~Promise!Acceptable
    BY <1>5, StationIsRefused, LineIsRefused, StopIsRefused
  <2> QED
    BY <1>2, <1>3, <2>1, <2>2
<1>6. CASE LineIsRead \/ NextSection
  <2>1. phase = "reading" /\ phase' = "reading" /\ files' = files
    BY <1>6 DEF LineIsRead, NextSection, IsIn
  <2> QED
    BY <1>3, <2>1
<1>7. CASE CheckStations
  <2>1. /\ phase = "reading" /\ phase' \in {"returned", "thrown"}
        /\ UNCHANGED <<files, lines, stations>>
    BY <1>7 DEF CheckStations, Throw
  <2>2. phase' = "thrown" => ~Promise!Acceptable
    BY <1>7, UnvisitedIsRefused
  <2>3. CASE phase' = "returned"
    <3>1. Promise!Acceptable /\ Promise!Network = [stations |-> stations, lines |-> lines]
      BY <1>7, <2>3, NetworkIsDelivered
    <3>2. Promise!Deliver
      BY <2>1, <2>3, <3>1 DEF Promise!Deliver
    <3> QED
      BY <3>2
  <2> QED
    BY <1>2, <2>1, <2>2, <2>3
<1>8. CASE UNCHANGED vars
  BY <1>8 DEF vars
<1> QED
  BY <1>1, <1>4, <1>5, <1>6, <1>7, <1>8 DEF Next, Read

(* Element by element, the reader takes and refuses the files that         *)
(* TransportFile says, and hands over its network; that it always ends is  *)
(* left to the model checker.                                              *)
THEOREM ReaderImplements ==
  Spec => Promise!FileInit /\ [][Promise!FileNext]_(Promise!fileVars)
<1>1. Init => Promise!FileInit
  BY DEF Init, Promise!FileInit, Promise!NoNetwork
<1>2. IInv /\ TInv /\ RInv /\ [Next]_vars => [Promise!FileNext]_(Promise!fileVars)
  BY PromiseStep
<1> QED
  BY <1>1, <1>2, Inductive, TypesInductive, ReadInductive, PTL DEF Spec
=============================================================================
