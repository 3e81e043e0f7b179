--------------------------------- MODULE MCDesk --------------------------------
(***************************************************************************)
(* FreeSearch and Stores on small instances. They share nothing, so each   *)
(* behaviour moves one of them and leaves the other as it starts.          *)
(***************************************************************************)
EXTENDS FreeSearch, Stores

VARIABLE which

deskVars == <<which, searchVars, storeVars>>

DeskInit ==
    /\ SearchInit  /\ StoresInit
    /\ \/ which = "free"   /\ area = "notices"
       \/ which = "stores" /\ scraper = "hw"

DeskNext ==
    \/ which = "free"   /\ SearchNext /\ UNCHANGED <<which, storeVars>>
    \/ which = "stores" /\ StoresNext /\ UNCHANGED <<which, searchVars>>

DeskSpec == DeskInit /\ [][DeskNext]_deskVars

(* Two requests of one user; pages of at most two cards, on two pages.      *)
SameUser  == [r \in Requests |-> "ana"]
TwoPages  == [s \in Scrapers |-> 2]

(* Two offers, whose places and titles have a word in common, and a filter  *)
(* of each kind; a board by its name and in lower case.                     *)
Listed ==
    << [company |-> {"acme"}, title |-> {"python", "dev"}, clean |-> {"dev"},
        place |-> {"paris", "9e"}, board |-> "APEC"],
       [company |-> {"acme", "labs"}, title |-> {"dev"}, clean |-> {},
        place |-> {"paris"}, board |-> "WTTJ"] >>
LowerCase == [b \in {"APEC", "WTTJ", "apec"} |-> IF b = "WTTJ" THEN "wttj" ELSE "apec"]
Everything ==
    [company |-> {}, title |-> {}, place |-> {}, board |-> {}, response |-> {}, interview |-> {},
     from |-> {}, to |-> {}]
Asked ==
    {Everything, [Everything EXCEPT !.company = {"labs"}], [Everything EXCEPT !.title = {"python"}],
     [Everything EXCEPT !.place = {"paris"}], [Everything EXCEPT !.from = {0}], [Everything EXCEPT !.to = {0}]}
    \union {[Everything EXCEPT !.board = {b}] : b \in {"APEC", "apec"}}
    \union {[Everything EXCEPT !.response = {b}, !.interview = i] : b \in BOOLEAN, i \in {{}, {TRUE}}}

(* The second search is the other user's; only the page views and the       *)
(* searches need a longer clock, two days of two ticks.                     *)
OwnersOf  == [n \in Ids |-> IF n = 1 THEN "ana" ELSE "bob"]
TicksOf   == [a \in Areas |-> IF a \in {"visits", "searches"} THEN 3 ELSE 1]
================================================================================
