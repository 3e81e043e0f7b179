------------------------------- MODULE MCSession -------------------------------
(***************************************************************************)
(* Session and SearchForm on small instances. SearchForm is one node of    *)
(* Session's graph in detail, and neither looks at the other's state, so   *)
(* each behaviour moves one of them and leaves the other as it starts.     *)
(***************************************************************************)
EXTENDS Session, SearchForm, TLC

CONSTANTS r1, r2, u1, u2, p1, p2, j1, j2

VARIABLE which

boardVars == <<which, vars, formVars>>

FirstWant == CHOOSE w \in Wants : TRUE

BoardInit ==
    /\ Init  /\ FormInit
    /\ \/ which = "session"  /\ site = "apec"  /\ want = FirstWant
       \/ /\ which = "form"  /\ board = "apec"  /\ store = FALSE
          /\ who = [r \in Runs |-> u1]  /\ wears = [r \in Runs |-> NoPersona]
          /\ submits = [r \in Runs |-> FALSE]  /\ auto = submits  /\ host = [r \in Runs |-> j1]

BoardNext ==
    \/ which = "session"  /\ Next      /\ UNCHANGED <<which, formVars>>
    \/ which = "form"     /\ FormNext  /\ UNCHANGED <<which, vars>>

BoardSpec == BoardInit /\ [][BoardNext]_boardVars

(* One user with two personas, one with none.                              *)
OfFirst == (p1 :> u1) @@ (p2 :> u1)

Jobs == Permutations({j1, j2})

(* A search by title alone, one of everything, one of another generation.  *)
ThreeWants == {
    [title |-> "accounting", place |-> NoPlace, contracts |-> {}, salary |-> 0, years |-> 20],
    [title |-> "sales", place |-> "Lyon", contracts |-> {"FREELANCE", "INTERNSHIP"},
     salary |-> 45000, years |-> NoYear],
    [title |-> "sales", place |-> "Lille", contracts |-> {"FULL_TIME", "INDEPENDENT"},
     salary |-> 0, years |-> 3]}
================================================================================
