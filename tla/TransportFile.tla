--------------------------- MODULE TransportFile ---------------------------
(***************************************************************************)
(* What the reader promises: files are taken as a whole.                   *)
(*                                                                         *)
(* The sections of all files read so far, one after the other, are either  *)
(* acceptable, and give a network in which stations and lines agree, or    *)
(* there is an exception and no network.                                   *)
(***************************************************************************)
EXTENDS Integers, Sequences, FiniteSets, SequencesExt

CONSTANTS Files, MaxReads, BadTime, UintRange, CHANGE_NAME

VARIABLES files, status, network

fileVars == <<files, status, network>>

NoNetwork == <<>>

Sections == FlattenSeq([k \in DOMAIN files |-> files[k].sections])

(* The items of the sections of one kind, each with its section's place. *)
Items(tag) ==
  FlattenSeq([k \in DOMAIN Sections |->
    IF Sections[k].tag # tag THEN <<>>
    ELSE [i \in DOMAIN Sections[k].items |-> [at |-> k, item |-> Sections[k].items[i]]]])

Listed(k) == {e.item : e \in {d \in ToSet(Items("stations")) : d.at < k}}

Defined == [i \in DOMAIN Items("lines") |-> Items("lines")[i].item]
LineNames == {Defined[i].name : i \in DOMAIN Defined}

StopsAt(d) == {d.stops[i].station : i \in DOMAIN d.stops}
LinesStoppingAt(s) == {d.name : d \in {e \in ToSet(Defined) : s \in StopsAt(e)}}

NamesAreFree ==
  /\ CHANGE_NAME \notin Listed(Len(Sections) + 1) \cup LineNames
  /\ Cardinality(LineNames) = Len(Defined)

(* Stations are listed in a section that comes before the line. *)
StopsAreListed == \A e \in ToSet(Items("lines")) : StopsAt(e.item) \subseteq Listed(e.at)

TimesAreNumbers ==
  \A d \in ToSet(Defined) : \A i \in DOMAIN d.stops : d.stops[i].time # BadTime

StationsHaveLines == Listed(Len(Sections) + 1) = UNION {StopsAt(d) : d \in ToSet(Defined)}

Acceptable ==
  /\ \A k \in DOMAIN files : files[k].fault = "none"
  /\ NamesAreFree /\ StopsAreListed /\ TimesAreNumbers /\ StationsHaveLines

(* A negative number is taken modulo the range of an unsigned int. *)
Read(d) ==
  [stations |-> [i \in DOMAIN d.stops |-> d.stops[i].station],
   times |-> [i \in DOMAIN d.stops |-> d.stops[i].time % UintRange]]

Network ==
  [stations |-> [s \in Listed(Len(Sections) + 1) |-> LinesStoppingAt(s)],
   lines |-> [l \in LineNames |-> Read(CHOOSE d \in ToSet(Defined) : d.name = l)]]

-----------------------------------------------------------------------------
FileInit == files = <<>> /\ status = "new" /\ network = NoNetwork

Ask ==
  /\ status \in {"new", "returned"} /\ Len(files) < MaxReads
  /\ status' = "reading"
  /\ \E f \in Files : files' = Append(files, f)
  /\ network' = NoNetwork

Deliver ==
  /\ status = "reading" /\ status' = "returned"
  /\ Acceptable
  /\ network' = Network
  /\ UNCHANGED files

Refuse ==
  /\ status = "reading" /\ status' = "thrown"
  /\ ~Acceptable
  /\ UNCHANGED <<files, network>>

FileNext == Ask \/ Deliver \/ Refuse

(* Every file that was asked for is delivered or refused. *)
FileSpec == FileInit /\ [][FileNext]_fileVars /\ []<>(status # "reading")
=============================================================================
