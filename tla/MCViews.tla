------------------------------ MODULE MCViews ------------------------------
(***************************************************************************)
(* Three foremen, three chiefs, four plants in two factories, two months.    *)
(* Foreman F1 works two plants of one chief, F2 two plants of two chiefs, so   *)
(* that averages over plants differ from pooled sums; F3's assignment ended    *)
(* with the first month, F2 has one plant the less since the second.           *)
(***************************************************************************)
EXTENDS Views

W(f, p, sh, until) == [foreman |-> f, plant |-> p, shift |-> sh, from |-> 1, until |-> until]
W1 == W("F1", "P1", "V1", 2)
W2 == W("F1", "P2", "V1", 2)
W3 == W("F2", "P3", "V1", 1)
W4 == W("F2", "P1", "V2", 2)
W5 == W("F3", "P4", "V2", 1)

MCWorkers    == <<W1, W2, W3, W4, W5>>
MCWeight     == [k \in {"GSF", "AGIR_GITME"} |-> IF k = "GSF" THEN 2 ELSE 1]
MCFactory    == [p \in {"P1", "P2", "P3", "P4"} |-> IF p = "P4" THEN "FB" ELSE "FA"]
MCPlantChief == [p \in {"P1", "P2", "P3", "P4"} |->
                   IF p \in {"P1", "P2"} THEN "C1" ELSE IF p = "P3" THEN "C2" ELSE "C3"]
MCSequence   == [p \in {"P1", "P2", "P3", "P4"} |->
                   CASE p = "P1" -> 2 [] p = "P2" -> 1 [] p = "P3" -> 3 [] p = "P4" -> 4]

MCForemanId  == [f \in {"F1", "F2", "F3"} |-> CASE f = "F1" -> 2 [] f = "F2" -> 1 [] f = "F3" -> 3]

\* The score stored of a record is that of another rule; there may be none.
Reading(status, n, d, stored, issues) ==
    [status |-> status, num |-> n, den |-> d, stored |-> stored, issues |-> issues]
Ok(n, d)       == Reading("COMPLETE", n, d, 100, {})
Unscored(n, d) == Reading("COMPLETE", n, d, NotScored, {})
Again(n, d)    == Reading("COMPLETE", n, d, 90, {"REPROCESSED"})
Absent         == Reading("ABSENT", 0, 0, NotScored, {})
Missing        == Reading("MISSING", 0, 0, NotScored, {"MISSING"})

\* Readings of a worker: GSF and AGIR_GITME of the first month, then of the second.
Good    == <<Ok(20, 20), Ok(5, 10), Ok(10, 10), Ok(8, 10)>>
Poor    == <<Ok(6, 10), Ok(30, 10), Ok(4, 10), Ok(50, 10)>>
Uneven  == <<Ok(27, 30), Ok(20, 10), Ok(4, 8), Ok(0, 10)>>
Partial == <<Absent, Ok(5, 10), Unscored(11, 10), Missing>>
Nothing == <<Absent, Absent, Missing, Absent>>

Db(profile, bonus) ==
    [rows  |-> [c \in Cells |-> profile[c[1]][2 * (c[3] - 1) + (IF c[2] = "GSF" THEN 1 ELSE 2)]],
     bonus |-> [f \in Foremen |-> IF f = "F2" THEN bonus ELSE 0]]

MCStarts ==
    {Db(<<a, b, Poor, d, Partial>>, 25) : a \in {Good, Uneven}, b \in {Uneven, Partial}, d \in {Poor, Nothing}}
    \cup {Db(<<Good, Uneven, Good, Nothing, Partial>>, 25), Db(<<Good, Partial, Good, Good, Good>>, 0)}

Change(cells, reading, bonus) ==
    [rows |-> [c \in cells |-> reading], bonus |-> [f \in DOMAIN bonus |-> bonus[f]]]

MCChanges ==
    {Change({<<1, "AGIR_GITME", 1>>, <<1, "AGIR_GITME", 2>>}, Missing, <<>>),
     Change({<<3, "GSF", 2>>}, Again(1, 10), <<>>),
     Change({}, Absent, [f \in {"F1"} |-> 20])}

All == [from |-> 1, to |-> 2, plants |-> NoFilter, factories |-> NoFilter, chiefs |-> NoFilter,
        shifts |-> NoFilter, kpis |-> NoFilter, foremen |-> NoFilter]
Second  == [All EXCEPT !.from = 2]
InP1    == [All EXCEPT !.plants = {"P1"}]
NoPlant == [All EXCEPT !.plants = {}]
InFA    == [Second EXCEPT !.factories = {"FA"}]
Backwards == [All EXCEPT !.from = 2, !.to = 1]
OnV1    == [All EXCEPT !.shifts = {"V1"}]

R(page, id, f, arg) == [page |-> page, id |-> id, F |-> f, arg |-> arg, scope |-> NoFilter]
By(r, scope) == [r EXCEPT !.scope = scope]

MCRequests ==
    {R("foreman", f, fl, 0) : f \in {"F1", "F2", "F3"}, fl \in {All, InP1, NoPlant}}
    \cup {R("foreman_kpis", f, fl, 0) : f \in {"F1", "F2"}, fl \in {All, InFA}}
    \cup {R("foreman_trend", f, All, b) : f \in {"F1", "F2"}, b \in {"year", "month"}}
    \cup {R("chief", c, All, 0) : c \in {"C1", "C2"}} \cup {R("chief", "C1", OnV1, 0)}
    \cup {R("comparison", "C1", fl, 0) : fl \in {All, [Second EXCEPT !.chiefs = {"C2"}]}}
    \cup {R("chief_foremen", "C1", InP1, 0), R("chief_kpis", "C1", InP1, 0)}
    \cup {R("chief_trend", c, All, "year") : c \in {"C1", "C3"}}
    \cup {R("plant_summary", p, All, 0) : p \in {"P1", "P3"}}
    \cup {R("plant_kpis", "P1", OnV1, 0), R("plant_shifts", "P1", All, 0),
          R("plant_chiefs", "P3", All, 0), R("plant_foremen", "P1", All, 1)}
    \cup {R("snapshot", None, fl, n) : fl \in {All, Second}, n \in {1, 3}}
    \cup {R("ranking", None, InP1, -2), R("distribution", None, NoPlant, 0),
          R("trend_ranking", None, Second, 2), R("plant_ranking", None, InP1, 4),
          R("trend", None, InP1, "month"), R("kpi", "GSF", All, 0), R("kpi", "AGIR_GITME", InP1, 0)}
    \cup {R("foreman_detail", f, All, k) : f \in {"F2", "F3"}, k \in {"GSF", "AGIR_GITME"}}
    \cup {R("monthly_report", f, All, 2) : f \in {"F1", "F2", "F3"}}
    \cup {R("kpi_summary", None, InP1, 0), R("shift_comparison", None, OnV1, 0), R("summary", None, Second, 0)}
    \cup {R("leaders", None, fl, 0) : fl \in {All, InP1}}
    \cup {R("report", None, All, t) : t \in {"COMPANY_SUMMARY", "CRITICAL_PERFORMANCE",
             "PLANT_COMPARISON", "SHIFT_COMPARISON", "MISSING_DATA"}}
    \cup {By(R("leaders", None, All, 0), {"P1", "P2"}), By(R("foreman", "F1", InFA, 0), {"P2", "P4"}),
          By(R("distribution", None, InP1, 0), {"P2"})}
    \cup {By(R("report", None, fl, "PLANT_COMPARISON"), {"P1", "P2", "P3"}) : fl \in {All, InP1, InFA}}
    \cup {By(R("report", None, InFA, "FOREMAN_PERFORMANCE"), {"P1", "P2"}), By(R("plant_shifts", "P1", NoPlant, 0), {"P1"}),
          By(R("chief_foremen", "C1", Backwards, 0), {"P2"}), By(R("foreman_kpis", "F3", All, 0), {"P1"})}
    \cup {R("report", None, InP1, t) : t \in {"FOREMAN_PERFORMANCE", "KPI_ANALYSIS"}}

Entities == Foremen \cup Plants \cup Chiefs \cup Shifts \cup Kpis
Rows(e) == CASE e \in {"F1", "P1", "C1", "V1", "GSF"} -> 1 [] e \in {"F2", "P2", "C2", "V2", "AGIR_GITME"} -> 2
             [] e \in {"F3", "P3", "C3"} -> 3 [] OTHER -> 4
MCOrders == {[e \in Entities |-> Rows(e)], [e \in Entities |-> -Rows(e)]}
=============================================================================
