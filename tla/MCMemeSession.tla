--------------------------- MODULE MCMemeSession ---------------------------
(* Instances of MemeSession for TLC. *)
EXTENDS MemeSession

CONSTANTS m1, m2, m3, d1

MCMessages == {m1, m2, m3}
MCDeletes == {d1}

(* No tool; a look that falls back on research; research after a look and  *)
(* after a search; a refresh after research; research twice.               *)
MCCalls == {<<>>, <<"stored">>, <<"stored", "research">>, <<"web", "research">>,
            <<"research", "refresh">>, <<"research", "research">>}

MCCost == [t \in Tools |-> IF t = "research" THEN 3 ELSE 1]

MCScenarios == {{"coingecko", "dexcheck", "model"}, {"coingecko", "search"},
                {"elsewhere", "leave"}, {"database"}, {"crash"}}
=============================================================================
