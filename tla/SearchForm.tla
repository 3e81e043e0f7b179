------------------------------ MODULE SearchForm -------------------------------
(***************************************************************************)
(* search_jobs of the three boards: a search's criteria become what the    *)
(* board's form holds, and the form becomes the list that is scraped.      *)
(*                                                                         *)
(* A field is typed in or ticked while the page may be slow, reload or     *)
(* hide it.  Some failures end the search, some are retried, and some are  *)
(* logged and left.  Welcome to the Jungle keeps its form with the account *)
(* and shows it again at the next search; the other two start empty.       *)
(*                                                                         *)
(* A text is the sequence of the words in its field.                       *)
(***************************************************************************)
EXTENDS Integers, Sequences

CONSTANTS
    FormSites,  \* a subset of "apec", "hellowork", "wttj"
    Wants,      \* the searches, one of them at a time
    InARow      \* how many of them, one after the other

\* The members of ContractType.
Kinds == {"FULL_TIME", "TEMPORARY", "INTERNSHIP", "APPRENTICESHIP", "FREELANCE", "INDEPENDENT"}

NoPlace == ""
NoYear  == -1
Part    == "part of a word"

\* What JobSearch and the user bring; years are those since the graduation.
ASSUME SearchFormAssumption ==
    /\ FormSites \subseteq {"apec", "hellowork", "wttj"}
    /\ InARow \in Nat \ {0}
    /\ \A w \in Wants :
          /\ DOMAIN w = {"title", "place", "contracts", "salary", "years"}
          /\ w.contracts \subseteq Kinds
          /\ w.salary \in {0} \union {s \in Nat : s >= 1000}

VARIABLES
    site,    \* the board
    want,    \* the search under way
    ahead,   \* searches to come
    at,      \* where search_jobs is
    tries,   \* attempts at it that failed
    form,    \* what the form of the page holds
    kept,    \* what the account's form holds (Welcome to the Jungle)
    slips,   \* fields that could not be set while the search went on
    asked,   \* the form as it was last sent, with a list that came or seemed to
    shown    \* the form whose list is on the page

formVars == <<site, want, ahead, at, tries, form, kept, slips, asked, shown>>

Blank == [title |-> <<>>, place |-> <<>>, chips |-> {}, contracts |-> {},
          salary |-> <<>>, levels |-> {}]

FirstStep == [apec |-> "keywords", hellowork |-> "query", wttj |-> "open"]

FormInit ==
    /\ site \in FormSites  /\ want \in Wants  /\ ahead = InARow - 1
    /\ at = FirstStep[site]  /\ tries = 0
    /\ form = Blank  /\ kept = Blank  /\ slips = {}  /\ asked = Blank  /\ shown = Blank

\* A run after it: another browser, and perhaps another search of the account.
NextSearch ==
    /\ at \in {"results", "failed"}  /\ ahead > 0
    /\ ahead' = ahead - 1  /\ want' \in Wants
    /\ at' = FirstStep[site]  /\ tries' = 0
    /\ form' = Blank  /\ slips' = {}  /\ asked' = Blank  /\ shown' = Blank
    /\ UNCHANGED <<site, kept>>

Goes(next) == at' = next  /\ tries' = 0
SearchFails == Goes("failed")  /\ UNCHANGED <<form, slips>>

\* human_type clears the field, whatever its caller did before.
Retype(text, word) == <<word>>

\* Boxes that are to be as wanted, but for those whose click failed.
TickOnly(boxes, wanted, lost) == boxes \union (wanted \ lost)
SetBoxes(boxes, wanted, lost) == (wanted \ lost) \union (boxes \intersect lost)

Unset(fields) == slips' = slips \union fields
Slip(field, lost) == Unset(IF lost = {} THEN {} ELSE {field})

-----------------------------------------------------------------------------
(* APEC: one form, empty when it opens; the place is not searched for.     *)

\* The advanced form by its link, or by its address when the link never shows.
ApecKeywords ==
    /\ site = "apec"  /\ at = "keywords"
    /\ \/ form' = [form EXCEPT !.title = Retype(@, want.title)]
          /\ Goes("render")  /\ UNCHANGED slips
       \/ SearchFails
    /\ UNCHANGED <<site, want, ahead, kept, asked, shown>>

\* The rest of the form is waited for, and the page reloaded in between.
ApecRender ==
    /\ site = "apec"  /\ at = "render"
    /\ \/ Goes("contract")  /\ UNCHANGED <<form, slips>>
       \/ /\ tries < 2  /\ tries' = tries + 1
          /\ form' = Blank  /\ Unset({"title"})  /\ UNCHANGED at
       \/ SearchFails
    /\ UNCHANGED <<site, want, ahead, kept, asked, shown>>

\* contract_map holds these four of the kinds; the first that it holds is selected.
ApecContracts == {"FULL_TIME", "TEMPORARY", "INTERNSHIP", "APPRENTICESHIP"}

\* The slider counts in thousands; a figure below one is taken for thousands already.
InThousands(salary) == IF salary >= 1000 THEN salary \div 1000 ELSE salary

ApecFilters ==
    /\ site = "apec"  /\ at = "contract"
    /\ LET mapped == want.contracts \intersect ApecContracts
           chosen == IF mapped = {} THEN {{}} ELSE {{k} : k \in mapped}
       IN  \/ \E one \in chosen, salary \in BOOLEAN :
                /\ form' = [form EXCEPT !.contracts = one,
                      !.salary = IF want.salary > 0 /\ salary THEN Retype(@, InThousands(want.salary)) ELSE @]
                /\ Slip("salary", IF want.salary > 0 /\ ~salary THEN {"salary"} ELSE {})
                /\ Goes("send")
           \/ SearchFails
    /\ UNCHANGED <<site, want, ahead, kept, asked, shown>>

\* Enter, or else the button; without a card in the end the search has failed.
ApecSend ==
    /\ site = "apec"  /\ at = "send"
    /\ \/ Goes("results")  /\ asked' = form  /\ shown' = form  /\ UNCHANGED <<form, slips>>
       \/ SearchFails  /\ UNCHANGED <<asked, shown>>
    /\ UNCHANGED <<site, want, ahead, kept>>

-----------------------------------------------------------------------------
(* HelloWork: a query, then a panel of filters over its results.           *)

HwTitled(title) == [form EXCEPT !.title = Retype(@, title)]
HwPlaced(place) ==
    IF want.place = NoPlace THEN HwTitled(want.title)
    ELSE [HwTitled(want.title) EXCEPT !.place = Retype(@, place)]

\* An attempt that fails leaves the fields at any stage of it; a word cut short stands
\* for an empty field too.
HwQuery ==
    /\ site = "hellowork"  /\ at = "query"
    /\ \/ /\ form' = HwPlaced(want.place)
          /\ asked' = form'  /\ shown' = form'
          /\ Goes(IF want.contracts # {} \/ want.salary > 0 THEN "panel" ELSE "results")
          /\ UNCHANGED slips
       \/ /\ tries < 2  /\ tries' = tries + 1
          /\ form' \in {form, HwTitled(Part), HwTitled(want.title), HwPlaced(Part), HwPlaced(want.place)}
          /\ UNCHANGED <<at, slips, asked, shown>>
       \/ SearchFails  /\ UNCHANGED <<asked, shown>>
    /\ UNCHANGED <<site, want, ahead, kept>>

\* A freelance contract is an independent's too.
HwContracts ==
    want.contracts \union (IF "FREELANCE" \in want.contracts THEN {"INDEPENDENT"} ELSE {})

\* A box that cannot be ticked is passed over in silence; the salary's toggle, once
\* found, must work.
HwFilters ==
    /\ site = "hellowork"  /\ at = "panel"
    /\ \/ \E lost \in SUBSET HwContracts, salary \in BOOLEAN :
            /\ form' = [form EXCEPT !.contracts = TickOnly(@, HwContracts, lost),
                  !.salary = IF want.salary > 0 /\ salary THEN Retype(@, want.salary) ELSE @]
            /\ Unset((IF lost = {} THEN {} ELSE {"contracts"}) \union
                     (IF want.salary > 0 /\ ~salary THEN {"salary"} ELSE {}))
            /\ Goes("send")
       \/ SearchFails
    /\ UNCHANGED <<site, want, ahead, kept, asked, shown>>

\* The cards waited for after the click may still be those of the query.  Without a
\* visible button the filters are not sent, and the search goes on.
HwSend ==
    /\ site = "hellowork"  /\ at = "send"
    /\ \/ Goes("results")  /\ asked' = form  /\ shown' \in {shown, form}
          /\ UNCHANGED <<form, slips>>
       \/ Goes("results")  /\ Unset({"contracts", "salary"})  /\ UNCHANGED <<form, asked, shown>>
       \/ SearchFails  /\ UNCHANGED <<asked, shown>>
    /\ UNCHANGED <<site, want, ahead, kept>>

HwListArrives ==
    /\ site = "hellowork"  /\ at = "results"  /\ shown # asked
    /\ shown' = asked
    /\ UNCHANGED <<site, want, ahead, at, tries, form, kept, slips, asked>>

-----------------------------------------------------------------------------
(* Welcome to the Jungle: the account's preferences, section by section.   *)

WttjOpen ==
    /\ site = "wttj"  /\ at = "open"
    /\ \/ form' = kept  /\ Goes("role")  /\ UNCHANGED slips
       \/ SearchFails
    /\ UNCHANGED <<site, want, ahead, kept, asked, shown>>

\* _map_experience_levels.
ExperienceLevels(years) ==
    IF years = NoYear   THEN {"zero_to_one", "one_to_three"}
    ELSE IF years <= 1  THEN {"zero_to_one", "one_to_three"}
    ELSE IF years <= 3  THEN {"one_to_three", "three_to_five"}
    ELSE IF years <= 10 THEN {"three_to_five", "five_to_ten"}
    ELSE {"five_to_ten", "more_than_ten"}

Levels == {"zero_to_one", "one_to_three", "three_to_five", "five_to_ten", "more_than_ten"}

WttjRole ==
    /\ site = "wttj"  /\ at = "role"
    /\ \/ \E lost \in SUBSET Levels :
            /\ form' = [form EXCEPT !.title = Retype(@, want.title),
                  !.levels = SetBoxes(@, ExperienceLevels(want.years), lost)]
            /\ Slip("levels", lost)
            /\ Goes("place")
       \/ SearchFails
    /\ UNCHANGED <<site, want, ahead, kept, asked, shown>>

WttjPlace == IF want.place = NoPlace THEN "France" ELSE want.place

\* The places of before are removed one by one, and the new one is chosen among the
\* suggestions; neither is insisted on.
WttjLocation ==
    /\ site = "wttj"  /\ at = "place"
    /\ \/ \E left \in SUBSET form.chips, chosen \in BOOLEAN :
            /\ form' = [form EXCEPT !.chips = left \union (IF chosen THEN {WttjPlace} ELSE {})]
            /\ Slip("chips", left \union (IF chosen THEN {} ELSE {WttjPlace}))
            /\ Goes("contract")
       \/ SearchFails
    /\ UNCHANGED <<site, want, ahead, kept, asked, shown>>

WttjContracts == Kinds \ {"INDEPENDENT"}
\* Out of sight until "Voir plus" is clicked, which is done for one that is wanted.
Hidden == {"TEMPORARY", "INTERNSHIP", "APPRENTICESHIP"}

WttjSalary == IF want.salary = 0 THEN 20000 ELSE want.salary

\* A box that is not in sight keeps what it has.
WttjContract ==
    /\ site = "wttj"  /\ at = "contract"
    /\ LET wanted == want.contracts \intersect WttjContracts
           seen   == IF want.contracts \intersect Hidden # {} THEN {{}, Hidden} ELSE {Hidden}
       IN  \E unseen \in seen, lost \in SUBSET (wanted \union form.contracts),
              filled \in BOOLEAN :
           \E salary \in IF filled THEN {Retype(form.salary, WttjSalary)} ELSE {form.salary, <<>>} :
             LET boxes == SetBoxes(form.contracts, wanted, unseen \union lost) IN
             /\ form' = [form EXCEPT !.contracts = boxes, !.salary = salary]
             /\ Unset((IF boxes = wanted THEN {} ELSE {"contracts"}) \union
                      (IF filled THEN {} ELSE {"salary"}))
             /\ Goes("send")
    /\ UNCHANGED <<site, want, ahead, kept, asked, shown>>

\* A save that shows no card may have been made.
WttjSend ==
    /\ site = "wttj"  /\ at = "send"
    /\ \/ Goes("results")  /\ kept' = form  /\ asked' = form  /\ shown' = form
          /\ UNCHANGED <<form, slips>>
       \/ SearchFails  /\ kept' \in {kept, form}  /\ UNCHANGED <<asked, shown>>
    /\ UNCHANGED <<site, want, ahead>>

-----------------------------------------------------------------------------

ApecSearches == ApecKeywords \/ ApecRender \/ ApecFilters \/ ApecSend
HwSearches   == HwQuery \/ HwFilters \/ HwSend \/ HwListArrives
WttjSearches == WttjOpen \/ WttjRole \/ WttjLocation \/ WttjContract \/ WttjSend

FormNext == NextSearch \/ ApecSearches \/ HwSearches \/ WttjSearches

FormSpec == FormInit /\ [][FormNext]_formVars

-----------------------------------------------------------------------------
(* Properties.                                                             *)

Texts == Seq({w.title : w \in Wants} \union {w.place : w \in Wants} \union {Part})
Figures == Seq(Nat)
Forms == [title : Texts, place : Texts, chips : SUBSET ({w.place : w \in Wants} \union {"France"}),
          contracts : SUBSET Kinds, salary : Figures, levels : SUBSET Levels]

FormTypeOK ==
    /\ site \in FormSites  /\ want \in Wants  /\ ahead \in 0 .. InARow - 1
    /\ tries \in 0 .. 2
    /\ slips \subseteq DOMAIN Blank
    /\ {form, kept, asked, shown} \subseteq Forms

\* The fields a board's form has.
FieldsOf == [apec |-> {"title", "contracts", "salary"},
             hellowork |-> {"title", "place", "contracts", "salary"},
             wttj |-> {"title", "chips", "contracts", "salary", "levels"}]

Wanted(f, has) ==
    CASE f = "title"  -> has = <<want.title>>
      [] f = "place"  -> has = (IF want.place = NoPlace THEN <<>> ELSE <<want.place>>)
      [] f = "chips"  -> has = {WttjPlace}
      [] f = "levels" -> has = ExperienceLevels(want.years)
      [] f = "salary" -> has = (IF site = "wttj" THEN <<WttjSalary>>
                                ELSE IF want.salary = 0 THEN <<>>
                                ELSE IF site = "apec" THEN <<want.salary \div 1000>>
                                ELSE <<want.salary>>)
      [] f = "contracts" ->
            CASE site = "wttj"      -> has = want.contracts \intersect WttjContracts
              [] site = "hellowork" -> has = HwContracts
              [] site = "apec" ->
                    LET mapped == want.contracts \intersect ApecContracts
                    IN  IF mapped = {} THEN has = {} ELSE \E k \in mapped : has = {k}

\* The list a run scrapes was asked for with its own search: whatever an earlier
\* attempt or an earlier search left in the form, each field that did not slip holds
\* what this search wants of it, once.
FiltersFollowTheSearch ==
    at = "results" => \A f \in FieldsOf[site] \ slips : Wanted(f, asked[f])

\* The keywords are searched for (by hand: APEC's reload empties the form after they
\* were typed, and nobody types them again).
KeywordsSearched == at = "results" => asked.title = <<want.title>>

\* No contract of an earlier search widens this one (by hand: Welcome to the Jungle's
\* hidden boxes are only unticked when one of them is wanted).
NoContractLeftOver ==
    at = "results" /\ site = "wttj" /\ want.contracts \intersect Hidden = {} =>
        asked.contracts \intersect Hidden = {}

\* The scrape begins on the list that was asked for (by hand: HelloWork's cards are
\* there before the filters are).
ListIsTheFilteredOne == at = "results" => shown = asked
================================================================================
