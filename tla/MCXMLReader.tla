---------------------------- MODULE MCXMLReader ----------------------------
(***************************************************************************)
(* Small transport files.                                                  *)
(***************************************************************************)
EXTENDS XMLReader

File(sec) == [fault |-> "none", sections |-> sec]
Faulty(what) == [fault |-> what, sections |-> <<>>]

StationList(names) == [tag |-> "stations", items |-> names]
LineList(ls) == [tag |-> "lines", items |-> ls]
Comments == [tag |-> "other", items |-> <<>>]

Stop(s, time) == [station |-> s, time |-> time]
LineItem(name, stops) == [name |-> name, stops |-> stops]

Faults ==
  {"Cannot open file", "Xerces Exception", "Empty XML Document", "Invalid XML Document"}

-----------------------------------------------------------------------------
StationLists ==
  {StationList(names) :
     names \in {<<"a">>, <<"a", "b">>, <<"b", "a", "b">>, <<"a", CHANGE_NAME, "b">>}}

(* Times that grow or fall, from below zero and up to the largest one. *)
LineItems1 ==
  {LineItem("A", <<Stop("a", 0), Stop("b", 2)>>),
   LineItem("A", <<Stop("a", -2), Stop("b", 1)>>),
   LineItem("A", <<Stop("b", 3), Stop("a", -3), Stop("b", 7)>>),
   LineItem("A", <<Stop("a", 1), Stop("b", BadTime), Stop("a", 2)>>),
   LineItem("B", <<Stop("b", 5), Stop("a", 6), Stop("b", 7)>>),
   LineItem("B", <<Stop("c", 1)>>),
   LineItem("B", <<>>),
   LineItem(CHANGE_NAME, <<Stop("a", 1)>>)}

LineLists ==
  {LineList(<<d>>) : d \in LineItems1}
    \cup {LineList(<<d, e>>) : d, e \in {x \in LineItems1 : x.name \in {"A", "B"}}}

(* Stations before lines, lines before stations, and one kind only. *)
SomeFiles ==
  {Faulty(what) : what \in Faults} \cup {File(<<>>), File(<<Comments>>)}
    \cup {File(<<s, l>>) : s \in StationLists, l \in LineLists}
    \cup {File(<<l, s>>) : s \in {StationList(<<"a", "b">>)}, l \in LineLists}
    \cup {File(<<s, Comments, l, t>>) :
            s, t \in StationLists, l \in {LineList(<<d>>) : d \in LineItems1}}
=============================================================================
