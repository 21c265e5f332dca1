---------------------- MODULE GeneralPerformanceProofs ----------------------
(***************************************************************************)
(* Proofs about the two parts of a foreman's general performance: the      *)
(* works of Operational Impact+, whose bonus is added, for any works,      *)
(* requests, bodies of requests and foremen (module ContributionWork); and *)
(* the score of the records it is added to, for any plants, days,          *)
(* readings, weights and levels (module Scoring).                          *)
(***************************************************************************)
EXTENDS ContributionWork, Scoring, SumProofs, SequenceTheorems, TLAPS

-----------------------------------------------------------------------------
(* The row a request makes of what it has read.                            *)

LEMMA RowDomain == ASSUME NEW r \in Row PROVE DOMAIN r = Columns
  BY DEF Row, Columns, Named

\* A function over the columns is a row if each column has a value of its type.
LEMMA RowOf ==
  ASSUME NEW r, r = [c \in Columns |-> r[c]],
         r["status"] \in {"DRAFT", "PUBLISHED"}, r["complete"] \in BOOLEAN,
         r["date"] \in Nat, r["end"] \in Nat, r["impact"] \in Impacts, r["lasting"] \in BOOLEAN,
         r["duration"] \in (Nat \X Nat) \union {NoDuration},
         r["saving"] \in Nat \union {NoMinutes}, r["monthly"] \in Nat \union {NoMinutes},
         r["publishedAt"] \in 0 .. MaxRequests, r["score"] \in 1 .. 5
  PROVE  r \in Row
  <1>1. r = [status |-> r["status"], complete |-> r["complete"], date |-> r["date"], end |-> r["end"],
             impact |-> r["impact"], lasting |-> r["lasting"], duration |-> r["duration"],
             saving |-> r["saving"], monthly |-> r["monthly"],
             publishedAt |-> r["publishedAt"], score |-> r["score"]]
    BY DEF Columns, Named
  <1>2. QED
    BY <1>1 DEF Row

LEMMA RowColumns ==
  ASSUME NEW r \in Row
  PROVE  /\ r.status \in {"DRAFT", "PUBLISHED"} /\ r.complete \in BOOLEAN
         /\ r.date \in Nat /\ r.end \in Nat /\ r.impact \in Impacts /\ r.lasting \in BOOLEAN
         /\ r.duration \in (Nat \X Nat) \union {NoDuration}
         /\ r.saving \in Nat \union {NoMinutes} /\ r.monthly \in Nat \union {NoMinutes}
         /\ r.publishedAt \in 0 .. MaxRequests /\ r.score \in 1 .. 5
  BY DEF Row

\* A row whose columns are each taken from one of two rows.
LEMMA Mixed ==
  ASSUME NEW r \in Row, NEW q \in Row, NEW C
  PROVE  [c \in Columns |-> IF c \in C THEN q[c] ELSE r[c]] \in Row
<1> DEFINE m == [c \in Columns |-> IF c \in C THEN q[c] ELSE r[c]]
<1>1. \A c \in Columns : m[c] \in {q[c], r[c]}
  OBVIOUS
<1>2. m = [c \in Columns |-> m[c]]
  OBVIOUS
<1>3. \A c \in {"status", "complete", "date", "end", "impact", "lasting", "duration", "saving",
                "monthly", "publishedAt", "score"} : c \in Columns
  BY DEF Columns, Named
<1> HIDE DEF m
<1>4. m \in Row
  BY <1>1, <1>2, <1>3, RowOf, RowColumns
<1>5. QED
  BY <1>4 DEF m

LEMMA MergedRow ==
  ASSUME NEW r \in Row, NEW P \in Payloads
  PROVE  /\ Merged(r, P) \in Row
         /\ \A c \in Columns : Merged(r, P)[c] = IF c \in DOMAIN P THEN P[c] ELSE r[c]
<1>1. Merged(Blank, P) \in Row
  BY ContributionAssumption
<1>2. Merged(r, P) = [c \in Columns |-> IF c \in DOMAIN P THEN Merged(Blank, P)[c] ELSE r[c]]
  BY DEF Merged
<1>3. QED
  BY <1>1, <1>2, Mixed DEF Merged

\* Setting one column leaves the others alone.
LEMMA SetSaving ==
  ASSUME NEW r \in Row, NEW m \in Nat \union {NoMinutes}
  PROVE  /\ [r EXCEPT !.saving = m] \in Row
         /\ \A c \in Columns \ {"saving"} : [r EXCEPT !.saving = m][c] = r[c]
  BY RowDomain DEF Row

LEMMA SetMonthly ==
  ASSUME NEW r \in Row, NEW m \in Nat \union {NoMinutes}
  PROVE  /\ [r EXCEPT !.monthly = m] \in Row
         /\ \A c \in Columns \ {"monthly"} : [r EXCEPT !.monthly = m][c] = r[c]
  BY RowDomain DEF Row

LEMMA SetTime ==
  ASSUME NEW r \in Row, NEW n \in 0 .. MaxRequests
  PROVE  /\ [r EXCEPT !.publishedAt = n] \in Row /\ [r EXCEPT !.publishedAt = n].publishedAt = n
         /\ \A c \in Columns \ {"publishedAt"} : [r EXCEPT !.publishedAt = n][c] = r[c]
  BY RowDomain DEF Row

LEMMA SetScore ==
  ASSUME NEW r \in Row, NEW n \in 1 .. 5
  PROVE  /\ [r EXCEPT !.score = n] \in Row /\ [r EXCEPT !.score = n].score = n
         /\ \A c \in Columns \ {"score"} : [r EXCEPT !.score = n][c] = r[c]
  BY RowDomain DEF Row

LEMMA SavingsRow ==
  ASSUME NEW r \in Row, NEW s \in Nat \union {NoMinutes}, NEW m \in Nat \union {NoMinutes}
  PROVE  /\ WithSavings(r, s, m) \in Row
         /\ \A c \in Columns \ {"saving", "monthly"} : WithSavings(r, s, m)[c] = r[c]
<1>1. [r EXCEPT !.saving = s] \in Row /\ \A c \in Columns \ {"saving"} : [r EXCEPT !.saving = s][c] = r[c]
  BY SetSaving
<1>2. ASSUME NEW q \in Row
      PROVE  /\ [q EXCEPT !.monthly = m] \in Row
             /\ \A c \in Columns \ {"monthly"} : [q EXCEPT !.monthly = m][c] = q[c]
  BY SetMonthly
<1>3. QED
  BY <1>1, <1>2 DEF WithSavings

LEMMA DerivedRow ==
  ASSUME NEW r \in Row, NEW P
  PROVE  /\ Derived(r, P) \in Row
         /\ \A c \in Columns \ {"saving", "monthly"} : Derived(r, P)[c] = r[c]
<1>1. Saving(r.duration) \in Nat \union {NoMinutes}
  <2>1. CASE r.duration = NoDuration
    BY <2>1 DEF Saving
  <2>2. CASE r.duration # NoDuration
    <3>1. PICK a \in Nat, b \in Nat : r.duration = <<a, b>>
      BY <2>2, RowColumns
    <3>2. r.duration[1] \in Nat /\ r.duration[2] \in Nat
      BY <3>1
    <3>3. QED
      BY <2>2, <3>2 DEF Saving
  <2>3. QED
    BY <2>1, <2>2
<1>2. \A s \in Nat \union {NoMinutes} : Monthly(s) \in Nat \union {NoMinutes}
  BY DEF Monthly, Repeats
<1>3. r.saving \in Nat \union {NoMinutes} /\ r.monthly \in Nat \union {NoMinutes}
  BY RowColumns
<1> DEFINE s == IF Given(P, "saving") THEN r.saving ELSE Saving(r.duration)
           m == IF Given(P, "monthly") THEN r.monthly ELSE Monthly(s)
<1>4. s \in Nat \union {NoMinutes}
  BY <1>1, <1>3
<1>5. m \in Nat \union {NoMinutes}
  BY <1>2, <1>3, <1>4
<1>6. Derived(r, P) = WithSavings(r, s, m)
  BY DEF Derived
<1> HIDE DEF s, m
<1>7. QED
  BY <1>4, <1>5, <1>6, SavingsRow

\* A request changes the columns it names, the savings, and, when it publishes,
\* the time of publication.
LEMMA EditedRow ==
  ASSUME NEW r \in Row, NEW P \in Payloads, NEW n \in 1 .. MaxRequests
  PROVE  /\ Edited(r, P, n) \in Row
         /\ \A c \in Named \ {"saving", "monthly"} : Edited(r, P, n)[c] = Merged(r, P)[c]
         /\ Edited(r, P, n).publishedAt = IF Publishing(r, P) THEN n ELSE r.publishedAt
         /\ Edited(r, P, n).score = r.score
<1> DEFINE d == Derived(Merged(r, P), P)
<1>1. d \in Row /\ \A c \in Columns \ {"saving", "monthly"} : d[c] = Merged(r, P)[c]
  BY MergedRow, DerivedRow
<1>2. "publishedAt" \in Columns \ {"saving", "monthly"} /\ "score" \in Columns \ {"saving", "monthly"}
      /\ Named \ {"saving", "monthly"} \subseteq Columns \ {"saving", "monthly", "publishedAt"}
  BY DEF Columns, Named
<1>3. "publishedAt" \notin DOMAIN P /\ "score" \notin DOMAIN P
  BY ContributionAssumption DEF Named
<1>4. d.publishedAt = r.publishedAt /\ d.score = r.score
  BY <1>1, <1>2, <1>3, MergedRow
<1>5. Edited(r, P, n) = IF Publishing(r, P) THEN [d EXCEPT !.publishedAt = n] ELSE d
  BY DEF Edited
<1> HIDE DEF d
<1>6. /\ [d EXCEPT !.publishedAt = n] \in Row /\ [d EXCEPT !.publishedAt = n].publishedAt = n
      /\ \A c \in Columns \ {"publishedAt"} : [d EXCEPT !.publishedAt = n][c] = d[c]
  BY <1>1, SetTime
<1>7. "score" \in Columns \ {"publishedAt"}
  BY DEF Columns, Named
<1>8. QED
  BY <1>1, <1>2, <1>4, <1>5, <1>6, <1>7

\* The score looks at the impact, the marks, the monthly saving and the gains.
LEMMA ScoreOf ==
  ASSUME NEW r \in Row, NEW q \in Row, NEW G,
         r.impact = q.impact, r.lasting = q.lasting, r.monthly = q.monthly
  PROVE  Score(r, G) = Score(q, G) /\ Score(r, G) \in 1 .. 5
  BY DEF Score, Points, Measurable

-----------------------------------------------------------------------------
(* The foremen and gains a request brings.                                 *)

LEMMA RolesOf ==
  ASSUME NEW F \in SUBSET Foremen
  PROVE  /\ WithRoles(F) \subseteq Link
         /\ ForemenOf(WithRoles(F)) = F
         /\ (\E l \in WithRoles(F) : l.role = "LEAD") <=> Cardinality(WithRoles(F)) = 1
<1> DEFINE role == IF Cardinality(F) = 1 THEN "LEAD" ELSE "CONTRIBUTOR"
           link == [f \in F |-> [foreman |-> f, role |-> role]]
           L == WithRoles(F)
<1>1. IsFiniteSet(F)
  BY FS_Subset, ContributionAssumption
<1>2. L = {link[f] : f \in F} /\ role \in Roles
  BY DEF WithRoles, Roles
<1>3. \A f \in F : link[f].foreman = f /\ link[f].role = role /\ link[f] \in Link
  BY <1>2 DEF Link
<1> HIDE DEF link, role, L
<1>4. L \subseteq Link /\ ForemenOf(L) = F
  BY <1>2, <1>3 DEF ForemenOf
<1>5. \A l \in L : l.role = role
  BY <1>2, <1>3
<1>6. Cardinality(L) = 1 <=> Cardinality(F) = 1
  <2>1. IsFiniteSet(L)
    <3>1. link \in Surjection(F, L)
      BY <1>2 DEF Surjection, link
    <3>2. QED
      BY <1>1, <3>1, FS_Surjection
  <2>2. ASSUME NEW f, F = {f} PROVE L = {link[f]}
    BY <1>2, <2>2
  <2>3. ASSUME NEW l, L = {l} PROVE F = {l.foreman}
    BY <1>2, <1>3, <2>3
  <2>4. QED
    BY <1>1, <2>1, <2>2, <2>3, FS_Singleton
<1>7. (\E l \in L : l.role = "LEAD") <=> Cardinality(F) = 1
  <2>1. Cardinality(F) = 1 => \E f : f \in F
    BY <1>1, FS_Singleton
  <2>2. QED
    BY <1>2, <1>5, <2>1 DEF role
<1>8. QED
  BY <1>4, <1>6, <1>7 DEF L

LEMMA NewRows ==
  ASSUME NEW P \in Payloads, NEW n \in 1 .. MaxRequests
  PROVE  /\ NewLinks(P) \subseteq Link /\ NewGains(P, n) \subseteq Gains
         /\ "foremen" \in DOMAIN P => ForemenOf(NewLinks(P)) = P.foremen
         /\ "foremen" \notin DOMAIN P => NewLinks(P) = {}
         /\ "gains" \notin DOMAIN P => NewGains(P, n) = {}
         /\ (\E l \in NewLinks(P) : l.role = "LEAD") <=> Cardinality(NewLinks(P)) = 1
<1>1. CASE "foremen" \in DOMAIN P
  <2>1. P.foremen \in SUBSET Foremen /\ NewLinks(P) = WithRoles(P.foremen)
    BY <1>1, ContributionAssumption DEF NewLinks
  <2>2. QED
    BY <1>1, <2>1, RolesOf DEF NewGains, Gains
<1>2. CASE "foremen" \notin DOMAIN P
  BY <1>2, FS_EmptySet DEF NewLinks, NewGains, Gains
<1>3. QED
  BY <1>1, <1>2

-----------------------------------------------------------------------------
(* What an active request writes.                                          *)

LEMMA NewRow ==
  ASSUME IInv, NEW e \in Editors, Active(e)
  PROVE  /\ target[e] \in Works /\ payload[e] \in Payloads /\ seen[e] \in Row
         /\ number[e] \in 1 .. MaxRequests /\ requests \in 0 .. MaxRequests
         /\ number[e] <= requests /\ New(e) \in Row
         /\ New(e).score = seen[e].score
         /\ \A c \in Named \ {"saving", "monthly"} : New(e)[c] = Merged(seen[e], payload[e])[c]
         /\ \A c \in Named \ {"saving", "monthly"} :
              New(e)[c] = IF c \in DOMAIN payload[e] THEN payload[e][c] ELSE seen[e][c]
         /\ New(e).publishedAt = IF Publishing(seen[e], payload[e]) THEN number[e] ELSE seen[e].publishedAt
<1>1. /\ target[e] \in Works /\ payload[e] \in Payloads /\ seen[e] \in Row
      /\ number[e] \in 1 .. MaxRequests /\ requests \in 0 .. MaxRequests /\ number[e] <= requests
  BY ContributionAssumption DEF IInv, EditorShape, WorkHangsTogether, TypeOK
<1>2. Named \subseteq Columns
  BY DEF Columns
<1>3. QED
  BY <1>1, <1>2, EditedRow, MergedRow DEF New

LEMMA OverwrittenRow ==
  ASSUME IInv, NEW e \in Editors, Active(e), NEW r \in Row
  PROVE  /\ Overwritten(r, e) \in Row
         /\ \A c \in Columns : Overwritten(r, e)[c] = IF c \in Changed(e) THEN New(e)[c] ELSE r[c]
         /\ Overwritten(r, e).score = r.score
         /\ Changed(e) = {} => Overwritten(r, e) = r
<1>1. New(e) \in Row
  BY NewRow
<1>2. Overwritten(r, e) \in Row
  BY <1>1, Mixed DEF Overwritten
<1>3. \A c \in Columns : Overwritten(r, e)[c] = IF c \in Changed(e) THEN New(e)[c] ELSE r[c]
  BY DEF Overwritten
<1>4. "score" \in Columns /\ "score" \notin Changed(e)
  BY DEF Columns, Changed
<1>5. Changed(e) = {} => Overwritten(r, e) = [c \in Columns |-> r[c]]
  BY DEF Overwritten
<1>6. r = [c \in Columns |-> r[c]]
  BY RowDomain DEF Row
<1>7. QED
  BY <1>2, <1>3, <1>4, <1>5, <1>6

-----------------------------------------------------------------------------
(* What a step may do to a request, and to a work.                         *)

\* A request that is on its way before and after a step is the same request.
LEMMA EditorsStay ==
  ASSUME IInv, [Next]_vars, NEW d \in Editors, Active(d), pc'[d] # "idle"
  PROVE  /\ target'[d] = target[d] /\ payload'[d] = payload[d]
         /\ number'[d] = number[d] /\ seen'[d] = seen[d]
         /\ quiet'[d] => quiet[d]
         /\ \/ pc'[d] = pc[d] /\ dropped'[d] = dropped[d] /\ score'[d] = score[d]
            \/ Drop(d) \/ Flush(d)
<1> DEFINE Same == /\ target'[d] = target[d] /\ payload'[d] = payload[d]
                   /\ number'[d] = number[d] /\ seen'[d] = seen[d]
                   /\ quiet'[d] => quiet[d]
                   /\ \/ pc'[d] = pc[d] /\ dropped'[d] = dropped[d] /\ score'[d] = score[d]
                      \/ Drop(d) \/ Flush(d)
<1> /\ pc \in [Editors -> {"idle", "loaded", "dropped", "flushed"}]
    /\ target \in [Editors -> Works \union {NoTarget}]
    /\ payload \in [Editors -> Payloads \union {<<>>}] /\ number \in [Editors -> 0 .. requests]
    /\ seen \in [Editors -> Row \union {NoWork}]
    /\ dropped \in [Editors -> [links : SUBSET Link, gains : SUBSET Gains]]
    /\ score \in [Editors -> 0 .. 5] /\ quiet \in [Editors -> BOOLEAN]
  BY DEF IInv, WorkHangsTogether, TypeOK
<1>1. ASSUME NEW w \in Works, NEW P \in Payloads, Create(w, P) PROVE Same
  BY <1>1 DEF Create, editorVars
<1>2. ASSUME NEW w \in Works, Delete(w) PROVE Same
  BY <1>2 DEF Delete, editorVars
<1>3. ASSUME NEW e \in Editors, NEW w \in Works, NEW P \in Payloads, Load(e, w, P) PROVE Same
  <2>1. d # e
    BY <1>3 DEF Load, Active
  <2>2. QED
    BY <1>3, <2>1 DEF Load
<1>4. ASSUME NEW e \in Editors, Drop(e) PROVE Same
  BY <1>4 DEF Drop
<1>5. ASSUME NEW e \in Editors, Flush(e) PROVE Same
  BY <1>5 DEF Flush
<1>6. ASSUME NEW e \in Editors, Leave(e), \A c \in Editors : quiet'[c] => quiet[c] PROVE Same
  <2>1. d # e
    BY <1>6 DEF Leave
  <2>2. QED
    BY <1>6, <2>1 DEF Leave
<1>7. ASSUME NEW e \in Editors, Commit(e) PROVE Same
  BY <1>6, <1>7 DEF Commit
<1>8. ASSUME NEW e \in Editors, CommitNothing(e) \/ RollBack(e) PROVE Same
  BY <1>6, <1>8 DEF CommitNothing, RollBack
<1>9. CASE UNCHANGED vars
  BY <1>9 DEF vars, editorVars
<1>10. QED
  BY <1>1, <1>2, <1>3, <1>4, <1>5, <1>7, <1>8, <1>9 DEF Next

\* What it writes is settled when it reads.
LEMMA NewStays ==
  ASSUME NEW d, payload'[d] = payload[d], number'[d] = number[d], seen'[d] = seen[d]
  PROVE  New(d)' = New(d) /\ Changed(d)' = Changed(d)
  BY DEF New, Changed

\* The rows of a work change by a creation, a deletion or a commit.
LEMMA WorkStep ==
  ASSUME IInv, [Next]_vars, NEW w \in Works
  PROVE  \/ work'[w] = work[w] /\ links'[w] = links[w] /\ gains'[w] = gains[w] /\ strained'[w] = strained[w]
         \/ \E P \in Payloads : Create(w, P)
         \/ Delete(w)
         \/ \E e \in Editors : Commit(e) /\ target[e] = w
<1> /\ work \in [Works -> Row \union {NoWork}]
    /\ links \in [Works -> SUBSET Link] /\ gains \in [Works -> SUBSET Gains]
    /\ strained \in [Works -> SUBSET Concerns]
  BY DEF IInv, WorkHangsTogether, TypeOK
<1>1. ASSUME NEW v \in Works, NEW P \in Payloads, Create(v, P), v # w
      PROVE  /\ work'[w] = work[w] /\ links'[w] = links[w] /\ gains'[w] = gains[w]
             /\ strained'[w] = strained[w]
  BY <1>1 DEF Create
<1>2. ASSUME NEW v \in Works, Delete(v), v # w
      PROVE  /\ work'[w] = work[w] /\ links'[w] = links[w] /\ gains'[w] = gains[w]
             /\ strained'[w] = strained[w]
  BY <1>2 DEF Delete, Cascaded
<1>3. ASSUME NEW e \in Editors, Commit(e), target[e] # w
      PROVE  /\ work'[w] = work[w] /\ links'[w] = links[w] /\ gains'[w] = gains[w]
             /\ strained'[w] = strained[w]
  BY <1>3 DEF Commit
<1>4. ASSUME NEW e \in Editors,
             \/ \E v \in Works, P \in Payloads : Load(e, v, P)
             \/ Drop(e) \/ Flush(e) \/ CommitNothing(e) \/ RollBack(e)
      PROVE  UNCHANGED <<work, links, gains, strained>>
  BY <1>4 DEF Load, Drop, Flush, CommitNothing, RollBack, tables
<1>5. CASE UNCHANGED vars
  BY <1>5 DEF vars, tables
<1>6. QED
  BY <1>1, <1>2, <1>3, <1>4, <1>5 DEF Next

\* A record is written by the request of its number, as it ends.
LEMMA Records ==
  ASSUME [Next]_vars
  PROVE  \/ requests' = requests /\ audited' = audited
         \/ requests' = requests + 1 /\ audited' \subseteq audited \union {requests + 1}
         \/ \E d \in Editors : /\ Active(d) /\ Leave(d) /\ requests' = requests
                               /\ audited' \subseteq audited \union {number[d]}
<1>1. ASSUME NEW w \in Works, NEW P \in Payloads, Create(w, P)
      PROVE  requests' = requests + 1 /\ audited' \subseteq audited \union {requests + 1}
  BY <1>1 DEF Create, record_audit
<1>2. ASSUME NEW w \in Works, Delete(w)
      PROVE  requests' = requests + 1 /\ audited' \subseteq audited \union {requests + 1}
  BY <1>2 DEF Delete, record_audit
<1>3. ASSUME NEW e \in Editors, NEW w \in Works, NEW P \in Payloads, Load(e, w, P)
      PROVE  requests' = requests + 1 /\ audited' \subseteq audited \union {requests + 1}
  BY <1>3 DEF Load, tables
<1>4. ASSUME NEW e \in Editors, Drop(e) \/ Flush(e)
      PROVE  requests' = requests /\ audited' = audited
  BY <1>4 DEF Drop, Flush, tables
<1>5. ASSUME NEW e \in Editors, Commit(e) \/ CommitNothing(e) \/ RollBack(e)
      PROVE  /\ Active(e) /\ Leave(e) /\ requests' = requests
             /\ audited' \subseteq audited \union {number[e]}
  <2>1. CASE Commit(e)
    BY <2>1 DEF Commit, record_audit, Active
  <2>2. CASE CommitNothing(e)
    BY <2>2 DEF CommitNothing, record_audit, Active
  <2>3. CASE RollBack(e)
    BY <2>3 DEF RollBack, tables, Active
  <2>4. QED
    BY <1>5, <2>1, <2>2, <2>3
<1>6. CASE UNCHANGED vars
  BY <1>6 DEF vars, tables
<1>7. QED
  BY <1>1, <1>2, <1>3, <1>4, <1>5, <1>6 DEF Next

\* A new work has what its status asks for.
LEMMA CreateRow ==
  ASSUME IInv, NEW w \in Works, NEW P \in Payloads, Create(w, P)
  PROVE  /\ requests + 1 \in 1 .. MaxRequests
         /\ work'[w] \in Row /\ InOrder(work'[w])
         /\ work'[w].publishedAt <= requests + 1
         /\ links'[w] = NewLinks(P) /\ gains'[w] = NewGains(P, requests + 1)
         /\ work'[w].score = Score(work'[w], gains'[w])
         /\ work'[w].status = "PUBLISHED" =>
              work'[w].publishedAt # 0 /\ MayPublish(work'[w], ForemenOf(links'[w]))
<1> DEFINE new == Edited(Blank, P, requests + 1)
           G == NewGains(P, requests + 1)
<1>1. requests + 1 \in 1 .. MaxRequests
  BY ContributionAssumption DEF Create, IInv, WorkHangsTogether, TypeOK
<1>2. Blank \in Row /\ Blank.publishedAt = 0 /\ Blank.status = "DRAFT"
  BY ContributionAssumption DEF Blank, Row, Impacts
<1>3. /\ new \in Row /\ new.publishedAt = IF Publishing(Blank, P) THEN requests + 1 ELSE 0
      /\ new.status = Merged(Blank, P).status
  BY <1>1, <1>2, EditedRow DEF Named
<1>4. new.status = "PUBLISHED" => Publishing(Blank, P)
  <2>1. Merged(Blank, P).status = IF "status" \in DOMAIN P THEN P.status ELSE "DRAFT"
    BY <1>2, MergedRow DEF Columns, Named
  <2>2. QED
    BY <1>2, <1>3, <2>1 DEF Publishing
<1>5. Score(new, G) \in 1 .. 5
  BY <1>3, ScoreOf
<1>6. /\ work'[w] = [new EXCEPT !.score = Score(new, G)]
      /\ links'[w] = NewLinks(P) /\ gains'[w] = G
      /\ InOrder(new) /\ (new.status = "PUBLISHED" => MayPublish(new, ForemenOf(NewLinks(P))))
  BY DEF Create, IInv, WorkHangsTogether, TypeOK
<1> DEFINE k == Score(new, G)
<1> HIDE DEF new, G, k
<1>a. /\ [new EXCEPT !.score = k] \in Row /\ [new EXCEPT !.score = k].score = k
      /\ \A c \in Columns \ {"score"} : [new EXCEPT !.score = k][c] = new[c]
  BY <1>3, <1>5, SetScore DEF k
<1>7. /\ work'[w] \in Row /\ work'[w].score = Score(new, G)
      /\ work'[w].status = new.status /\ work'[w].complete = new.complete
      /\ work'[w].date = new.date /\ work'[w].end = new.end
      /\ work'[w].impact = new.impact /\ work'[w].lasting = new.lasting
      /\ work'[w].monthly = new.monthly /\ work'[w].publishedAt = new.publishedAt
  BY <1>6, <1>a DEF Columns, Named, k
<1>8. Score(work'[w], G) = Score(new, G)
  BY <1>3, <1>7, ScoreOf
<1>9. InOrder(work'[w]) /\ (work'[w].status = "PUBLISHED" => MayPublish(work'[w], ForemenOf(links'[w])))
  <2>1. InOrder(work'[w])
    BY <1>6, <1>7 DEF InOrder
  <2>2. new.complete \in BOOLEAN /\ work'[w].complete \in BOOLEAN
    BY <1>3, <1>7, RowColumns
  <2>3. QED
    BY <1>6, <1>7, <2>1, <2>2 DEF MayPublish
<1>10. work'[w].publishedAt <= requests + 1
  BY <1>1, <1>3, <1>7
<1>11. work'[w].status = "PUBLISHED" => work'[w].publishedAt # 0
  BY <1>1, <1>3, <1>4, <1>7
<1>12. QED
  BY <1>1, <1>6, <1>7, <1>8, <1>9, <1>10, <1>11 DEF G

\* A commit leaves a row that it has overwritten, with its score.
LEMMA CommitRow ==
  ASSUME IInv, NEW e \in Editors, Commit(e)
  PROVE  /\ Active(e) /\ target[e] \in Works /\ work[target[e]] \in Row
         /\ Overwritten(work[target[e]], e) \in Row
         /\ work'[target[e]] \in Row /\ work'[target[e]].score = NewScore(e)
         /\ \A c \in Columns \ {"score"} : work'[target[e]][c] = Overwritten(work[target[e]], e)[c]
         /\ InOrder(work'[target[e]])
         /\ links'[target[e]] = (links[target[e]] \ dropped[e].links) \union NewLinks(payload[e])
         /\ gains'[target[e]] = (gains[target[e]] \ dropped[e].gains)
                                  \union NewGains(payload[e], number[e])
         /\ strained'[target[e]] = (strained[target[e]] \ Settled(e)) \union Unsettled(e)
<1> DEFINE w == target[e]
           new == Overwritten(work[w], e)
<1>1. Active(e) /\ pc[e] = "flushed"
  BY DEF Commit, Active
<1>2. w \in Works /\ work[w] \in Row
  <2>1. w \in Works
    BY <1>1, NewRow
  <2>2. work[w] # NoWork
    BY <1>1 DEF IInv, FlushedShape
  <2>3. QED
    BY <2>1, <2>2 DEF IInv, WorkHangsTogether, TypeOK
<1>3. new \in Row
  BY <1>1, <1>2, OverwrittenRow
<1>4. NewScore(e) \in 1 .. 5
  <2>1. score[e] \in 1 .. 5 /\ work[w].score \in 1 .. 5
    BY <1>1, <1>2, RowColumns DEF IInv, FlushedShape
  <2>2. QED
    BY <2>1 DEF NewScore
<1>5. /\ work'[w] = [new EXCEPT !.score = NewScore(e)]
      /\ links'[w] = (links[w] \ dropped[e].links) \union NewLinks(payload[e])
      /\ gains'[w] = (gains[w] \ dropped[e].gains) \union NewGains(payload[e], number[e])
      /\ strained'[w] = (strained[w] \ Settled(e)) \union Unsettled(e)
  BY <1>2 DEF Commit, IInv, WorkHangsTogether, TypeOK
<1>6. InOrder(new)
  BY <1>1 DEF IInv, FlushedShape
<1> HIDE DEF new
<1>a. /\ [new EXCEPT !.score = NewScore(e)] \in Row
      /\ [new EXCEPT !.score = NewScore(e)].score = NewScore(e)
      /\ \A c \in Columns \ {"score"} : [new EXCEPT !.score = NewScore(e)][c] = new[c]
  BY <1>3, <1>4, SetScore
<1>7. /\ work'[w] \in Row /\ work'[w].score = NewScore(e)
      /\ \A c \in Columns \ {"score"} : work'[w][c] = new[c]
  BY <1>5, <1>a
<1>8. InOrder(work'[w])
  BY <1>6, <1>7 DEF InOrder, Columns, Named
<1>9. QED
  BY <1>1, <1>2, <1>3, <1>5, <1>7, <1>8 DEF new

-----------------------------------------------------------------------------
(* Types.                                                                  *)

LEMMA TypeLeave ==
  ASSUME TypeOK, NEW e \in Editors, Leave(e), requests' = requests
  PROVE  /\ pc' \in [Editors -> {"idle", "loaded", "dropped", "flushed"}]
         /\ target' \in [Editors -> Works \union {NoTarget}]
         /\ payload' \in [Editors -> Payloads \union {<<>>}]
         /\ number' \in [Editors -> 0 .. requests']
         /\ seen' \in [Editors -> Row \union {NoWork}]
         /\ dropped' \in [Editors -> [links : SUBSET Link, gains : SUBSET Gains]]
         /\ score' \in [Editors -> 0 .. 5]
<1>1. Nothing \in [links : SUBSET Link, gains : SUBSET Gains]
  BY DEF Nothing
<1>2. 0 \in 0 .. requests
  BY ContributionAssumption DEF TypeOK
<1>3. QED
  BY <1>1, <1>2 DEF TypeOK, Leave

LEMMA TypeRecord ==
  ASSUME TypeOK, NEW n \in 1 .. requests', requests' \in requests .. MaxRequests, record_audit(n)
  PROVE  audited' \subseteq 1 .. requests'
  BY ContributionAssumption DEF TypeOK, record_audit

LEMMA TypeStep == ASSUME IInv, [Next]_vars PROVE TypeOK'
<1>t. TypeOK /\ requests \in 0 .. MaxRequests /\ MaxRequests \in Nat
  BY ContributionAssumption DEF IInv, WorkHangsTogether, TypeOK
<1>1. ASSUME NEW w \in Works, NEW P \in Payloads, Create(w, P) PROVE TypeOK'
  <2>1. /\ requests' = requests + 1 /\ requests + 1 \in 1 .. MaxRequests
        /\ work'[w] \in Row /\ NewLinks(P) \subseteq Link /\ NewGains(P, requests + 1) \subseteq Gains
    BY <1>1, CreateRow, NewRows DEF Create
  <2>2. work' \in [Works -> Row \union {NoWork}]
    BY <1>1, <1>t, <2>1 DEF Create, TypeOK
  <2>3. /\ links' \in [Works -> SUBSET Link] /\ gains' \in [Works -> SUBSET Gains]
        /\ strained' \in [Works -> SUBSET Concerns]
    BY <1>1, <1>t, <2>1 DEF Create, TypeOK
  <2>4. number' \in [Editors -> 0 .. requests']
    BY <1>1, <1>t, <2>1 DEF Create, TypeOK, editorVars
  <2>5. audited' \subseteq 1 .. requests'
    BY <1>1, <1>t, <2>1, TypeRecord DEF Create
  <2>6. QED
    BY <1>1, <1>t, <2>1, <2>2, <2>3, <2>4, <2>5 DEF Create, TypeOK, editorVars
<1>2. ASSUME NEW w \in Works, Delete(w) PROVE TypeOK'
  <2>1. requests' = requests + 1 /\ requests + 1 \in 1 .. MaxRequests
    BY <1>2, <1>t DEF Delete
  <2>2. /\ work' \in [Works -> Row \union {NoWork}]
        /\ links' \in [Works -> SUBSET Link] /\ gains' \in [Works -> SUBSET Gains]
    BY <1>2, <1>t DEF Delete, Cascaded, TypeOK
  <2>3. number' \in [Editors -> 0 .. requests'] /\ quiet' \in [Editors -> BOOLEAN]
    BY <1>2, <1>t, <2>1 DEF Delete, TypeOK, editorVars
  <2>4. audited' \subseteq 1 .. requests'
    BY <1>2, <1>t, <2>1, TypeRecord DEF Delete
  <2>5. QED
    BY <1>2, <1>t, <2>1, <2>2, <2>3, <2>4 DEF Delete, TypeOK, editorVars
<1>3. ASSUME NEW e \in Editors, NEW w \in Works, NEW P \in Payloads, Load(e, w, P) PROVE TypeOK'
  <2>1. requests' = requests + 1 /\ requests + 1 \in 1 .. MaxRequests
    BY <1>3, <1>t DEF Load
  <2>2. audited' \subseteq 1 .. requests' /\ number' \in [Editors -> 0 .. requests']
    BY <1>3, <1>t, <2>1 DEF Load, TypeOK, tables
  <2>3. QED
    BY <1>3, <1>t, <2>1, <2>2 DEF Load, TypeOK, tables
<1>4. ASSUME NEW e \in Editors, Drop(e) PROVE TypeOK'
  <2>1. Active(e) /\ target[e] \in Works
    BY <1>4, NewRow DEF Drop, Active
  <2>2. Found(e) \in [links : SUBSET Link, gains : SUBSET Gains]
    BY <1>t, <2>1 DEF Found, TypeOK
  <2>3. QED
    BY <1>4, <1>t, <2>2 DEF Drop, TypeOK, tables
<1>5. ASSUME NEW e \in Editors, Flush(e) PROVE TypeOK'
  <2>1. New(e) \in Row
    BY <1>5, NewRow DEF Flush, Active
  <2>2. \A G : Score(New(e), G) \in 0 .. 5
    BY <2>1, ScoreOf
  <2>3. score' \in [Editors -> 0 .. 5]
    BY <1>5, <1>t, <2>2 DEF Flush, TypeOK
  <2>4. QED
    BY <1>5, <1>t, <2>3 DEF Flush, TypeOK, tables
<1>6. ASSUME NEW e \in Editors, Commit(e) PROVE TypeOK'
  <2>1. target[e] \in Works /\ work'[target[e]] \in Row /\ Active(e)
    BY <1>6, CommitRow
  <2>2. /\ NewLinks(payload[e]) \subseteq Link /\ NewGains(payload[e], number[e]) \subseteq Gains
        /\ number[e] \in 1 .. requests
    BY <2>1, NewRow, NewRows
  <2>3. work' \in [Works -> Row \union {NoWork}]
    BY <1>6, <1>t, <2>1 DEF Commit, TypeOK
  <2>4. links' \in [Works -> SUBSET Link] /\ gains' \in [Works -> SUBSET Gains]
    BY <1>6, <1>t, <2>2 DEF Commit, TypeOK
  <2>5. Settled(e) \subseteq Concerns /\ Unsettled(e) \subseteq Concerns
    BY DEF Settled, Unsettled, Concerns
  <2>6. strained' \in [Works -> SUBSET Concerns] /\ quiet' \in [Editors -> BOOLEAN]
    BY <1>6, <1>t, <2>5 DEF Commit, TypeOK
  <2>7. audited' \subseteq 1 .. requests' /\ requests' = requests
    BY <1>6, <1>t, <2>2 DEF Commit, record_audit, TypeOK
  <2>8. QED
    BY <1>6, <1>t, <2>3, <2>4, <2>6, <2>7, TypeLeave DEF Commit, TypeOK
<1>7. ASSUME NEW e \in Editors, CommitNothing(e) \/ RollBack(e) PROVE TypeOK'
  <2>1. Active(e)
    BY <1>7 DEF CommitNothing, RollBack, Active
  <2>2. number[e] \in 1 .. requests
    BY <2>1, NewRow
  <2>3. audited' \subseteq 1 .. requests' /\ requests' = requests
    <3>1. audited' \subseteq audited \union {number[e]} /\ requests' = requests
      BY <1>7 DEF CommitNothing, RollBack, record_audit, tables
    <3>2. QED
      BY <1>t, <2>2, <3>1 DEF TypeOK
  <2>4. quiet' \in [Editors -> BOOLEAN]
    BY <1>7, <1>t DEF CommitNothing, RollBack, TypeOK
  <2>5. QED
    BY <1>7, <1>t, <2>3, <2>4, TypeLeave DEF CommitNothing, RollBack, TypeOK, tables
<1>8. CASE UNCHANGED vars
  BY <1>8, <1>t DEF vars, tables, editorVars, TypeOK
<1>9. QED
  BY <1>1, <1>2, <1>3, <1>4, <1>5, <1>6, <1>7, <1>8 DEF Next

-----------------------------------------------------------------------------
(* The rows of a work fit together.                                        *)

\* A request that nobody has disturbed leaves the work it has computed.
LEMMA QuietCommit ==
  ASSUME IInv, NEW e \in Editors, Commit(e), quiet[e]
  PROVE  /\ work[target[e]] = seen[e]
         /\ \A c \in Columns \ {"score"} : work'[target[e]][c] = New(e)[c]
         /\ links'[target[e]] = IF "foremen" \in DOMAIN payload[e] THEN NewLinks(payload[e])
                                ELSE links[target[e]]
         /\ work'[target[e]].score = Score(work'[target[e]], gains'[target[e]])
<1> DEFINE w == target[e]
<1>1. /\ Active(e) /\ w \in Works /\ pc[e] = "flushed" /\ work'[w] \in Row
      /\ payload[e] \in Payloads /\ number[e] \in 1 .. MaxRequests
      /\ New(e) \in Row /\ New(e).score = seen[e].score /\ seen[e] \in Row
  BY CommitRow, NewRow DEF Commit
<1>2. /\ work[w] = seen[e] /\ dropped[e] = Found(e)
      /\ score[e] = Score(New(e), gains'[w])
  BY <1>1, CommitRow DEF IInv, QuietShape
<1>3. \A c \in Columns \ {"score"} : work'[w][c] = New(e)[c]
  BY <1>1, <1>2, CommitRow, OverwrittenRow DEF Changed
<1>4. links'[w] = IF "foremen" \in DOMAIN payload[e] THEN NewLinks(payload[e]) ELSE links[w]
  <2>1. dropped[e].links = IF "foremen" \in DOMAIN payload[e] THEN links[w] ELSE {}
    BY <1>2 DEF Found
  <2>2. "foremen" \notin DOMAIN payload[e] => NewLinks(payload[e]) = {}
    BY DEF NewLinks
  <2>3. links'[w] = (links[w] \ dropped[e].links) \union NewLinks(payload[e])
    BY CommitRow
  <2>4. QED
    BY <2>1, <2>2, <2>3
<1>5. work'[w].score = score[e]
  BY <1>2, CommitRow DEF NewScore
<1>6. /\ work'[w].impact = New(e).impact /\ work'[w].lasting = New(e).lasting
      /\ work'[w].monthly = New(e).monthly
  BY <1>3 DEF Columns, Named
<1>7. Score(work'[w], gains'[w]) = Score(New(e), gains'[w])
  BY <1>1, <1>6, ScoreOf
<1>8. QED
  BY <1>2, <1>3, <1>4, <1>5, <1>7

\* What a commit leaves strained.
LEMMA Strains ==
  ASSUME IInv, NEW e \in Editors, Commit(e)
  PROVE  /\ ~quiet[e] => strained'[target[e]] = Concerns
         /\ quiet[e] /\ "foremen" \notin DOMAIN payload[e] =>
              ("links" \in strained'[target[e]] <=> "links" \in strained[target[e]])
         /\ quiet[e] /\ "required" \notin strained'[target[e]] =>
              New(e).status = "PUBLISHED" /\ "status" \in DOMAIN payload[e]
<1>1. strained[target[e]] \subseteq Concerns
  BY CommitRow DEF IInv, WorkHangsTogether, TypeOK
<1>2. strained'[target[e]] = (strained[target[e]] \ Settled(e)) \union Unsettled(e)
  BY CommitRow
<1>3. ~quiet[e] => strained'[target[e]] = Concerns
  BY <1>1, <1>2 DEF Unsettled, Settled
<1>4. quiet[e] /\ "foremen" \notin DOMAIN payload[e] =>
        "links" \notin Settled(e) /\ "links" \notin Unsettled(e)
  BY DEF Settled, Unsettled, Concerns
<1>5. quiet[e] /\ "required" \in Settled(e) => New(e).status = "PUBLISHED" /\ "status" \in DOMAIN payload[e]
  BY DEF Settled
<1>6. quiet[e] /\ "required" \notin Settled(e) => "required" \in Unsettled(e)
  BY DEF Unsettled
<1>7. QED
  BY <1>2, <1>3, <1>4, <1>5, <1>6

LEMMA DatesStep == ASSUME IInv, [Next]_vars PROVE DatesInOrder'
<1> SUFFICES ASSUME NEW w \in Works, work'[w] # NoWork PROVE InOrder(work'[w])
  BY DEF DatesInOrder, InOrder
<1>1. CASE \E P \in Payloads : Create(w, P)
  BY <1>1, CreateRow
<1>2. CASE \E e \in Editors : Commit(e) /\ target[e] = w
  BY <1>2, CommitRow
<1>3. CASE work'[w] = work[w]
  BY <1>3 DEF IInv, WorkHangsTogether, DatesInOrder
<1>4. CASE Delete(w)
  BY <1>4 DEF Delete, IInv, WorkHangsTogether, TypeOK
<1>5. QED
  BY <1>1, <1>2, <1>3, <1>4, WorkStep

LEMMA ScoreStep == ASSUME IInv, [Next]_vars PROVE ScoreCurrent'
<1> SUFFICES ASSUME NEW w \in Works, work'[w] # NoWork, "score" \notin strained'[w]
             PROVE  work'[w].score = Score(work'[w], gains'[w])
  BY DEF ScoreCurrent, Score, Points, Measurable
<1>1. CASE \E P \in Payloads : Create(w, P)
  BY <1>1, CreateRow
<1>2. ASSUME NEW e \in Editors, Commit(e), target[e] = w
      PROVE  work'[w].score = Score(work'[w], gains'[w])
  <2>1. quiet[e]
    BY <1>2, Strains DEF Concerns
  <2>2. QED
    BY <1>2, <2>1, QuietCommit
<1>3. CASE work'[w] = work[w] /\ gains'[w] = gains[w] /\ strained'[w] = strained[w]
  BY <1>3 DEF IInv, WorkHangsTogether, ScoreCurrent
<1>4. CASE Delete(w)
  BY <1>4 DEF Delete, IInv, WorkHangsTogether, TypeOK
<1>5. QED
  BY <1>1, <1>2, <1>3, <1>4, WorkStep

LEMMA LeaderStep == ASSUME IInv, [Next]_vars PROVE LeaderIsAlone'
<1> DEFINE Led(L) == (\E l \in L : l.role = "LEAD") <=> Cardinality(L) = 1
<1> SUFFICES ASSUME NEW w \in Works, "links" \notin strained'[w] PROVE Led(links'[w])
  BY DEF LeaderIsAlone
<1>h. ASSUME "links" \notin strained[w] PROVE Led(links[w])
  BY <1>h DEF IInv, WorkHangsTogether, LeaderIsAlone
<1>n. ASSUME NEW P \in Payloads PROVE Led(NewLinks(P))
  <2>1. CASE "foremen" \in DOMAIN P
    BY <2>1, RolesOf, ContributionAssumption DEF NewLinks
  <2>2. CASE "foremen" \notin DOMAIN P
    BY <2>2, FS_EmptySet DEF NewLinks
  <2>3. QED
    BY <2>1, <2>2
<1> HIDE DEF Led
<1>1. CASE \E P \in Payloads : Create(w, P)
  BY <1>1, <1>n, CreateRow
<1>2. ASSUME NEW e \in Editors, Commit(e), target[e] = w PROVE Led(links'[w])
  <2>1. quiet[e]
    BY <1>2, Strains DEF Concerns
  <2>2. CASE "foremen" \in DOMAIN payload[e]
    BY <1>2, <1>n, <2>1, <2>2, QuietCommit, CommitRow, NewRow
  <2>3. CASE "foremen" \notin DOMAIN payload[e]
    BY <1>2, <1>h, <2>1, <2>3, QuietCommit, Strains
  <2>4. QED
    BY <2>2, <2>3
<1>3. CASE links'[w] = links[w] /\ strained'[w] = strained[w]
  BY <1>3, <1>h
<1>4. CASE Delete(w)
  <2>1. links'[w] = {}
    BY <1>4 DEF Delete, Cascaded, IInv, WorkHangsTogether, TypeOK
  <2>2. QED
    BY <2>1, FS_EmptySet DEF Led
<1>5. QED
  BY <1>1, <1>2, <1>3, <1>4, WorkStep

LEMMA GoneStep == ASSUME IInv, [Next]_vars PROVE GoneIsGone'
<1> SUFFICES ASSUME NEW w \in Works, work'[w] = NoWork PROVE links'[w] = {} /\ gains'[w] = {}
  BY DEF GoneIsGone
<1>1. ~ \E P \in Payloads : Create(w, P)
  BY CreateRow, ContributionAssumption
<1>2. ~ \E e \in Editors : Commit(e) /\ target[e] = w
  BY CommitRow, ContributionAssumption
<1>3. CASE work'[w] = work[w] /\ links'[w] = links[w] /\ gains'[w] = gains[w]
  BY <1>3 DEF IInv, WorkHangsTogether, GoneIsGone
<1>4. CASE Delete(w)
  BY <1>4 DEF Delete, Cascaded, IInv, WorkHangsTogether, TypeOK
<1>5. QED
  BY <1>1, <1>2, <1>3, <1>4, WorkStep

-----------------------------------------------------------------------------
(* Publication.                                                            *)

\* The time of publication is written exactly when the status is.
LEMMA PublishTime ==
  ASSUME IInv, NEW e \in Editors, Commit(e)
  PROVE  /\ work'[target[e]].publishedAt \in {number[e], work[target[e]].publishedAt}
         /\ work'[target[e]].status = "PUBLISHED" =>
              \/ work'[target[e]].publishedAt = number[e]
              \/ /\ work[target[e]].status = "PUBLISHED"
                 /\ work'[target[e]].publishedAt = work[target[e]].publishedAt
<1> DEFINE w == target[e]
<1>1. /\ Active(e) /\ payload[e] \in Payloads /\ seen[e] \in Row /\ work[w] \in Row
      /\ number[e] \in 1 .. MaxRequests /\ seen[e].publishedAt < number[e]
      /\ seen[e].publishedAt \in 0 .. MaxRequests
  BY CommitRow, NewRow, RowColumns DEF IInv, EditorShape
<1>2. "status" \in Columns \ {"score"} /\ "publishedAt" \in Columns \ {"score"}
      /\ "status" \in Named \ {"saving", "monthly"}
  BY DEF Columns, Named
<1>3. /\ work'[w].status = IF "status" \in Changed(e) THEN New(e).status ELSE work[w].status
      /\ work'[w].publishedAt = IF "publishedAt" \in Changed(e) THEN New(e).publishedAt
                                ELSE work[w].publishedAt
  BY <1>1, <1>2, CommitRow, OverwrittenRow
<1>4. /\ "status" \in Changed(e) <=> New(e).status # seen[e].status
      /\ "publishedAt" \in Changed(e) <=> New(e).publishedAt # seen[e].publishedAt
  BY <1>2 DEF Changed
<1>5. /\ New(e).publishedAt = IF Publishing(seen[e], payload[e]) THEN number[e] ELSE seen[e].publishedAt
      /\ New(e).status = IF "status" \in DOMAIN payload[e] THEN payload[e].status ELSE seen[e].status
  BY <1>1, <1>2, NewRow
<1>6. "publishedAt" \in Changed(e) <=> Publishing(seen[e], payload[e])
  BY <1>1, <1>4, <1>5
<1>7. New(e).status = "PUBLISHED" /\ "status" \in Changed(e) => Publishing(seen[e], payload[e])
  BY <1>4, <1>5 DEF Publishing
<1>8. QED
  BY <1>3, <1>5, <1>6, <1>7

LEMMA TimeStep == ASSUME IInv, [Next]_vars PROVE TimeShape'
<1> SUFFICES ASSUME NEW w \in Works, work'[w] # NoWork PROVE work'[w].publishedAt <= requests'
  BY DEF TimeShape
<1>r. requests' \in {requests, requests + 1} /\ requests \in Nat
  BY Records DEF IInv, WorkHangsTogether, TypeOK
<1>w. work[w] # NoWork => work[w] \in Row /\ work[w].publishedAt <= requests /\ work[w].publishedAt \in Nat
  BY RowColumns DEF IInv, TimeShape, WorkHangsTogether, TypeOK
<1>1. ASSUME NEW P \in Payloads, Create(w, P) PROVE work'[w].publishedAt <= requests'
  BY <1>1, CreateRow DEF Create
<1>2. ASSUME NEW e \in Editors, Commit(e), target[e] = w PROVE work'[w].publishedAt <= requests'
  <2>1. work[w] \in Row /\ number[e] \in 1 .. requests /\ work[w] # NoWork
    BY <1>2, CommitRow, NewRow, ContributionAssumption
  <2>2. work'[w].publishedAt \in {number[e], work[w].publishedAt}
    BY <1>2, PublishTime
  <2>3. QED
    BY <1>r, <1>w, <2>1, <2>2
<1>3. CASE work'[w] = work[w]
  BY <1>3, <1>r, <1>w
<1>4. CASE Delete(w)
  BY <1>4 DEF Delete, IInv, WorkHangsTogether, TypeOK
<1>5. QED
  BY <1>1, <1>2, <1>3, <1>4, WorkStep

LEMMA PublishedStep == ASSUME IInv, [Next]_vars PROVE PublishedComplete'
<1> DEFINE Whole(w) == MayPublish(work'[w], ForemenOf(links'[w]))
<1> SUFFICES ASSUME NEW w \in Works, work'[w] # NoWork, work'[w].status = "PUBLISHED"
             PROVE  work'[w].publishedAt # 0 /\ ("required" \notin strained'[w] => Whole(w))
  BY DEF PublishedComplete, MayPublish, InOrder, ForemenOf
<1>1. ASSUME NEW P \in Payloads, Create(w, P)
      PROVE  work'[w].publishedAt # 0 /\ Whole(w)
  BY <1>1, CreateRow
<1>2. ASSUME NEW e \in Editors, Commit(e), target[e] = w
      PROVE  work'[w].publishedAt # 0 /\ ("required" \notin strained'[w] => Whole(w))
  <2>1. /\ number[e] \in 1 .. MaxRequests /\ work[w] # NoWork /\ payload[e] \in Payloads
        /\ seen[e] \in Row /\ Active(e) /\ work'[w] \in Row
    BY <1>2, CommitRow, NewRow, ContributionAssumption
  <2>2. work'[w].publishedAt # 0
    <3>1. work[w].status = "PUBLISHED" => work[w].publishedAt # 0
      BY <2>1, <1>2, CommitRow DEF IInv, PublishedComplete
    <3>2. QED
      BY <1>2, <2>1, <3>1, PublishTime
  <2>3. ASSUME "required" \notin strained'[w] PROVE Whole(w)
    <3>1. quiet[e]
      BY <1>2, <2>3, Strains DEF Concerns
    <3>2. New(e).status = "PUBLISHED" /\ "status" \in DOMAIN payload[e]
      BY <1>2, <2>3, <3>1, Strains
    <3>3. payload[e].status = "PUBLISHED"
      BY <2>1, <3>2, NewRow DEF Named
    <3>4. MayPublish(Merged(seen[e], payload[e]), ForemenAfter(e))
      BY <2>1, <3>1, <3>2, <3>3 DEF IInv, QuietShape
    <3>5. /\ work'[w].complete = Merged(seen[e], payload[e]).complete
          /\ work'[w].date = Merged(seen[e], payload[e]).date
          /\ work'[w].end = Merged(seen[e], payload[e]).end
      BY <1>2, <2>1, <3>1, QuietCommit, NewRow DEF Columns, Named
    <3>6. ForemenOf(links'[w]) = ForemenAfter(e)
      BY <1>2, <2>1, <3>1, QuietCommit, NewRows DEF ForemenAfter
    <3>7. work'[w].complete \in BOOLEAN /\ Merged(seen[e], payload[e]).complete \in BOOLEAN
      BY <2>1, MergedRow, RowColumns
    <3>8. QED
      BY <3>4, <3>5, <3>6, <3>7 DEF MayPublish, InOrder
  <2>4. QED
    BY <2>2, <2>3
<1>3. CASE work'[w] = work[w] /\ links'[w] = links[w] /\ strained'[w] = strained[w]
  BY <1>3 DEF IInv, PublishedComplete
<1>4. CASE Delete(w)
  BY <1>4 DEF Delete, IInv, WorkHangsTogether, TypeOK
<1>5. QED
  BY <1>1, <1>2, <1>3, <1>4, WorkStep

-----------------------------------------------------------------------------
(* Requests on their way.                                                  *)

LEMMA Arrives ==
  ASSUME IInv, [Next]_vars, NEW e \in Editors, ~Active(e), pc'[e] # "idle"
  PROVE  \E w \in Works, P \in Payloads : Load(e, w, P)
<1> /\ pc \in [Editors -> {"idle", "loaded", "dropped", "flushed"}] /\ pc[e] = "idle"
  BY DEF IInv, WorkHangsTogether, TypeOK, Active
<1>1. ASSUME NEW d \in Editors, Drop(d) \/ Flush(d) PROVE FALSE
  BY <1>1 DEF Drop, Flush
<1>2. ASSUME NEW d \in Editors, Leave(d) PROVE FALSE
  BY <1>2 DEF Leave
<1>3. ASSUME NEW d \in Editors, Commit(d) \/ CommitNothing(d) \/ RollBack(d) PROVE FALSE
  BY <1>2, <1>3 DEF Commit, CommitNothing, RollBack
<1>4. ASSUME NEW d \in Editors, NEW w \in Works, NEW P \in Payloads, Load(d, w, P)
      PROVE  Load(e, w, P)
  <2>1. d = e
    BY <1>4 DEF Load
  <2>2. QED
    BY <1>4, <2>1
<1>5. ASSUME NEW w \in Works, NEW P \in Payloads, Create(w, P) PROVE FALSE
  BY <1>5 DEF Create, editorVars
<1>6. ASSUME NEW w \in Works, Delete(w) PROVE FALSE
  BY <1>6 DEF Delete, editorVars
<1>7. ~UNCHANGED vars
  BY DEF vars, editorVars
<1>8. QED
  BY <1>1, <1>3, <1>4, <1>5, <1>6, <1>7 DEF Next

LEMMA EditorStep == ASSUME IInv, [Next]_vars PROVE EditorShape'
<1>r. requests' \in {requests, requests + 1} /\ requests \in Nat /\ audited \subseteq 1 .. requests
  BY Records DEF IInv, WorkHangsTogether, TypeOK
<1>0. ASSUME NEW e \in Editors, ~Active(e), pc'[e] # "idle"
      PROVE  /\ target'[e] \in Works /\ payload'[e] \in Payloads /\ seen'[e] \in Row
             /\ number'[e] = requests + 1 /\ requests' = requests + 1 /\ audited' = audited
             /\ seen'[e].publishedAt < number'[e]
             /\ dropped'[e].links = {} /\ dropped'[e].gains = {}
  <2>1. PICK w \in Works, P \in Payloads : Load(e, w, P)
    BY <1>0, Arrives
  <2>2. work[w] \in Row /\ work[w].publishedAt <= requests /\ work[w].publishedAt \in 0 .. MaxRequests
    BY <2>1, RowColumns DEF Load, IInv, WorkHangsTogether, TypeOK, TimeShape
  <2>3. dropped[e] = Nothing
    BY <1>0 DEF IInv, EditorShape
  <2>4. target'[e] = w /\ payload'[e] = P /\ seen'[e] = work[w] /\ number'[e] = requests + 1
    BY <2>1 DEF Load, IInv, WorkHangsTogether, TypeOK
  <2>5. dropped' = dropped /\ requests' = requests + 1 /\ audited' = audited
    BY <2>1 DEF Load, tables
  <2>6. QED
    BY <1>r, <2>2, <2>3, <2>4, <2>5 DEF Nothing
<1>1. ASSUME NEW e \in Editors, Active(e), pc'[e] # "idle"
      PROVE  /\ target'[e] \in Works /\ payload'[e] \in Payloads /\ seen'[e] \in Row
             /\ number'[e] \in 1 .. requests' /\ number'[e] \notin audited'
             /\ seen'[e].publishedAt < number'[e]
             /\ dropped'[e].links = {} \/ "foremen" \in DOMAIN payload'[e]
             /\ dropped'[e].gains = {} \/ "gains" \in DOMAIN payload'[e]
  <2>1. /\ target[e] \in Works /\ payload[e] \in Payloads /\ seen[e] \in Row
        /\ number[e] \in 1 .. requests /\ number[e] \notin audited
        /\ seen[e].publishedAt < number[e]
        /\ dropped[e].links = {} \/ "foremen" \in DOMAIN payload[e]
        /\ dropped[e].gains = {} \/ "gains" \in DOMAIN payload[e]
    BY <1>1 DEF IInv, EditorShape
  <2>2. /\ target'[e] = target[e] /\ payload'[e] = payload[e] /\ number'[e] = number[e]
        /\ seen'[e] = seen[e]
        /\ dropped'[e] = dropped[e] \/ dropped'[e] = Found(e)
    <3>1. /\ target'[e] = target[e] /\ payload'[e] = payload[e] /\ number'[e] = number[e]
          /\ seen'[e] = seen[e]
          /\ dropped'[e] = dropped[e] \/ Drop(e) \/ Flush(e)
      BY <1>1, EditorsStay
    <3>2. Drop(e) \/ Flush(e) => dropped'[e] = Found(e) \/ dropped'[e] = dropped[e]
      BY DEF Drop, Flush, IInv, WorkHangsTogether, TypeOK
    <3>3. QED
      BY <3>1, <3>2
  <2>3. number[e] \notin audited'
    <3>1. ASSUME NEW d \in Editors, Active(d), Leave(d) PROVE number[d] # number[e]
      <4>1. d # e
        BY <1>1, <3>1 DEF Leave, IInv, WorkHangsTogether, TypeOK
      <4>2. QED
        BY <1>1, <3>1, <4>1 DEF IInv, EditorShape
    <3>2. number[e] # requests + 1
      BY <1>r, <2>1
    <3>3. QED
      BY <2>1, <3>1, <3>2, Records
  <2>4. number[e] \in 1 .. requests'
    BY <1>r, <2>1
  <2>5. QED
    BY <2>1, <2>2, <2>3, <2>4 DEF Found
<1>2. ASSUME NEW e \in Editors, pc'[e] = "idle" PROVE dropped'[e] = Nothing
  <2> /\ pc \in [Editors -> {"idle", "loaded", "dropped", "flushed"}]
      /\ dropped \in [Editors -> [links : SUBSET Link, gains : SUBSET Gains]]
    BY DEF IInv, WorkHangsTogether, TypeOK
  <2>1. ~Active(e) => dropped[e] = Nothing
    BY DEF IInv, EditorShape
  <2>2. ASSUME NEW d \in Editors, Leave(d) PROVE dropped'[e] = Nothing
    <3>1. d = e \/ (pc[e] = pc'[e] /\ dropped[e] = dropped'[e])
      BY <2>2 DEF Leave
    <3>2. QED
      BY <1>2, <2>1, <2>2, <3>1 DEF Leave, Active
  <2>3. ASSUME NEW d \in Editors, Commit(d) \/ CommitNothing(d) \/ RollBack(d)
        PROVE  dropped'[e] = Nothing
    BY <2>2, <2>3 DEF Commit, CommitNothing, RollBack
  <2>4. ASSUME NEW d \in Editors, Drop(d) \/ Flush(d) PROVE dropped'[e] = Nothing
    BY <1>2, <2>1, <2>4 DEF Drop, Flush, Active
  <2>5. ASSUME NEW d \in Editors, NEW w \in Works, NEW P \in Payloads, Load(d, w, P)
        PROVE  dropped'[e] = Nothing
    BY <1>2, <2>1, <2>5 DEF Load, Active
  <2>6. ASSUME NEW w \in Works, NEW P \in Payloads, Create(w, P)
        PROVE  dropped'[e] = Nothing
    BY <1>2, <2>1, <2>6 DEF Create, editorVars, Active
  <2>7. ASSUME NEW w \in Works, Delete(w) PROVE dropped'[e] = Nothing
    BY <1>2, <2>1, <2>7 DEF Delete, editorVars, Active
  <2>8. ASSUME UNCHANGED vars PROVE dropped'[e] = Nothing
    BY <1>2, <2>1, <2>8 DEF vars, editorVars, Active
  <2>9. QED
    BY <2>3, <2>4, <2>5, <2>6, <2>7, <2>8 DEF Next
<1>3. ASSUME NEW d \in Editors, NEW e \in Editors, pc'[d] # "idle", pc'[e] # "idle",
             number'[d] = number'[e]
      PROVE  d = e
  <2>1. CASE Active(d) /\ Active(e)
    <3>1. number'[d] = number[d] /\ number'[e] = number[e]
      BY <1>3, <2>1, EditorsStay
    <3>2. QED
      BY <1>3, <2>1, <3>1 DEF IInv, EditorShape
  <2>2. CASE Active(d) /\ ~Active(e)
    <3>1. number'[e] = requests + 1 /\ number[d] \in 1 .. requests
      BY <1>3, <2>2, <1>0 DEF IInv, EditorShape
    <3>2. number'[d] = number[d]
      BY <1>3, <2>2, EditorsStay
    <3>3. number[d] # requests + 1
      BY <1>r, <3>1
    <3>4. QED
      BY <1>3, <3>1, <3>2, <3>3
  <2>3. CASE ~Active(d) /\ Active(e)
    <3>1. number'[d] = requests + 1 /\ number[e] \in 1 .. requests
      BY <1>3, <2>3, <1>0 DEF IInv, EditorShape
    <3>2. number'[e] = number[e]
      BY <1>3, <2>3, EditorsStay
    <3>3. number[e] # requests + 1
      BY <1>r, <3>1
    <3>4. QED
      BY <1>3, <3>1, <3>2, <3>3
  <2>4. CASE ~Active(d) /\ ~Active(e)
    <3>1. PICK w \in Works, P \in Payloads : Load(d, w, P)
      BY <1>3, <2>4, Arrives
    <3>2. QED
      BY <1>3, <2>4, <3>1 DEF Load, Active, IInv, WorkHangsTogether, TypeOK
  <2>5. QED
    BY <2>1, <2>2, <2>3, <2>4
<1>4. ASSUME NEW e \in Editors, pc'[e] # "idle"
      PROVE  /\ target'[e] \in Works /\ payload'[e] \in Payloads /\ seen'[e] \in Row
             /\ number'[e] \in (1 .. requests') \ audited'
             /\ seen'[e].publishedAt < number'[e]
             /\ dropped'[e].links = {} \/ "foremen" \in DOMAIN payload'[e]
             /\ dropped'[e].gains = {} \/ "gains" \in DOMAIN payload'[e]
  <2>1. CASE Active(e)
    BY <1>1, <1>4, <2>1
  <2>2. CASE ~Active(e)
    BY <1>0, <1>4, <1>r, <2>2
  <2>3. QED
    BY <2>1, <2>2
<1>5. QED
  BY <1>2, <1>3, <1>4 DEF EditorShape, Active

\* Who has flushed after a step had flushed before, or does it now.
LEMMA Flushes ==
  ASSUME IInv, [Next]_vars, NEW d \in Editors, pc'[d] = "flushed"
  PROVE  /\ Active(d) /\ target'[d] = target[d] /\ payload'[d] = payload[d]
         /\ New(d)' = New(d) /\ Changed(d)' = Changed(d)
         /\ \/ Flush(d)
            \/ pc[d] = "flushed" /\ score'[d] = score[d] /\ dropped'[d] = dropped[d]
<1>1. Active(d)
  <2>1. ASSUME NEW w \in Works, NEW P \in Payloads, Load(d, w, P) PROVE FALSE
    BY <2>1 DEF Load, IInv, WorkHangsTogether, TypeOK
  <2>2. QED
    BY <2>1, Arrives
<1>2. /\ target'[d] = target[d] /\ payload'[d] = payload[d]
      /\ number'[d] = number[d] /\ seen'[d] = seen[d]
      /\ \/ pc'[d] = pc[d] /\ dropped'[d] = dropped[d] /\ score'[d] = score[d]
         \/ Drop(d) \/ Flush(d)
  BY <1>1, EditorsStay
<1>3. ~Drop(d)
  BY DEF Drop, IInv, WorkHangsTogether, TypeOK
<1>4. QED
  BY <1>1, <1>2, <1>3, NewStays

LEMMA FlushedStep == ASSUME IInv, [Next]_vars PROVE FlushedShape'
<1> DEFINE Over(r, e) == [c \in Columns |-> IF c \in Changed(e)' THEN New(e)'[c] ELSE r[c]]
<1>1. ASSUME NEW d \in Editors, pc'[d] = "flushed"
      PROVE  /\ work'[target'[d]] # NoWork /\ score'[d] \in 1 .. 5
             /\ InOrder(Over(work'[target'[d]], d))
  <2> DEFINE w == target[d]
  <2>1. /\ Active(d) /\ target'[d] = w /\ w \in Works /\ New(d) \in Row
        /\ \A r : Over(r, d) = Overwritten(r, d)
    BY <1>1, Flushes, NewRow DEF Overwritten
  <2> HIDE DEF Over
  <2>2. CASE Flush(d)
    <3>1. work' = work /\ work[w] # NoWork /\ InOrder(Overwritten(work[w], d))
      BY <2>2 DEF Flush, Admissible, tables
    <3>2. score'[d] \in 1 .. 5
      BY <2>1, <2>2, ScoreOf DEF Flush, IInv, WorkHangsTogether, TypeOK
    <3>3. QED
      BY <2>1, <3>1, <3>2
  <2>3. CASE pc[d] = "flushed" /\ score'[d] = score[d]
    <3>1. /\ work[w] # NoWork /\ InOrder(Overwritten(work[w], d)) /\ score'[d] \in 1 .. 5
          /\ work[w] \in Row
      BY <2>1, <2>3 DEF IInv, FlushedShape, WorkHangsTogether, TypeOK
    <3>2. CASE work'[w] = work[w]
      BY <2>1, <3>1, <3>2
    <3>3. ~(\E P \in Payloads : Create(w, P)) /\ ~Delete(w)
      BY <2>3 DEF Create, Delete
    <3>4. ASSUME NEW e \in Editors, Commit(e), target[e] = w
          PROVE  work'[w] # NoWork /\ InOrder(Over(work'[w], d))
      <4>1. e # d
        BY <1>1, <3>4 DEF Commit, Leave, IInv, WorkHangsTogether, TypeOK
      <4>2. /\ work'[w] \in Row /\ InOrder(work'[w]) /\ Active(e) /\ pc[e] = "flushed"
            /\ \A c \in Columns \ {"score"} : work'[w][c] = Overwritten(work[w], e)[c]
        BY <3>4, CommitRow DEF Commit
      <4>3. CASE Changed(d) = {}
        BY <2>1, <4>2, <4>3, OverwrittenRow, ContributionAssumption
      <4>4. CASE Changed(e) = {}
        <5>1. Overwritten(work[w], e) = work[w]
          BY <3>1, <4>2, <4>4, OverwrittenRow
        <5>2. work'[w].date = work[w].date /\ work'[w].end = work[w].end
          BY <4>2, <5>1 DEF Columns, Named
        <5>3. "date" \in Columns /\ "end" \in Columns
          BY DEF Columns, Named
        <5>4. /\ Overwritten(work'[w], d).date = Overwritten(work[w], d).date
              /\ Overwritten(work'[w], d).end = Overwritten(work[w], d).end
          BY <5>2, <5>3 DEF Overwritten
        <5>5. QED
          BY <2>1, <3>1, <4>2, <5>4, ContributionAssumption DEF InOrder
      <4>5. QED
        BY <2>3, <3>4, <4>1, <4>2, <4>3, <4>4 DEF IInv, FlushedShape
    <3>5. QED
      BY <2>1, <3>1, <3>2, <3>3, <3>4, WorkStep
  <2>4. QED
    BY <1>1, <2>2, <2>3, Flushes
<1>2. ASSUME NEW d \in Editors, NEW e \in Editors, pc'[d] = "flushed", pc'[e] = "flushed",
             target'[d] = target'[e], d # e
      PROVE  Changed(d)' = {} \/ Changed(e)' = {}
  <2>1. /\ target[d] = target[e] /\ Changed(d)' = Changed(d) /\ Changed(e)' = Changed(e)
        /\ Flush(d) \/ pc[d] = "flushed"
        /\ Flush(e) \/ pc[e] = "flushed"
    BY <1>2, Flushes
  <2>2. ASSUME NEW a \in Editors, NEW b \in Editors, Flush(a), pc[b] = "flushed",
               a # b, target[a] = target[b]
        PROVE  Changed(a) = {} \/ Changed(b) = {}
    BY <2>2 DEF Flush, Locked, Others
  <2>3. ~(Flush(d) /\ Flush(e))
    BY <1>2 DEF Flush, IInv, WorkHangsTogether, TypeOK
  <2>4. CASE pc[d] = "flushed" /\ pc[e] = "flushed"
    BY <1>2, <2>1, <2>4 DEF IInv, FlushedShape
  <2>5. QED
    BY <1>2, <2>1, <2>2, <2>3, <2>4
<1>3. QED
  BY <1>1, <1>2 DEF FlushedShape, Overwritten

LEMMA QuietStep == ASSUME IInv, [Next]_vars PROVE QuietShape'
<1> SUFFICES ASSUME NEW e \in Editors, pc'[e] # "idle", quiet'[e]
             PROVE  /\ work'[target'[e]] = seen'[e]
                    /\ pc'[e] # "loaded" => dropped'[e] = Found(e)'
                    /\ pc'[e] = "flushed" =>
                         score'[e] = Score(New(e)', (gains'[target'[e]] \ dropped'[e].gains)
                                                       \union NewGains(payload'[e], number'[e]))
                    /\ "status" \in DOMAIN payload'[e] /\ payload'[e].status = "PUBLISHED" =>
                         MayPublish(Merged(seen'[e], payload'[e]), ForemenAfter(e)')
  BY DEF QuietShape, Active, Score, Points, Measurable, MayPublish, InOrder, Merged, NewGains
<1>1. CASE ~Active(e)
  <2>1. PICK w \in Works, P \in Payloads : Load(e, w, P)
    BY <1>1, Arrives
  <2>2. /\ target'[e] = w /\ payload'[e] = P /\ seen'[e] = work[w] /\ pc'[e] = "loaded"
        /\ work' = work /\ links' = links
    BY <2>1 DEF Load, tables, IInv, WorkHangsTogether, TypeOK
  <2>3. ForemenAfter(e)' = IF "foremen" \in DOMAIN P THEN P.foremen ELSE ForemenOf(links[w])
    BY <2>2 DEF ForemenAfter, ForemenOf
  <2>4. "status" \in DOMAIN P /\ P.status = "PUBLISHED" =>
          MayPublish(Merged(work[w], P), ForemenAfter(e)')
    BY <2>1, <2>3 DEF Load
  <2>5. QED
    BY <2>2, <2>4
<1>2. CASE Active(e)
  <2> DEFINE w == target[e]
  <2>1. /\ target'[e] = w /\ payload'[e] = payload[e] /\ number'[e] = number[e]
        /\ seen'[e] = seen[e] /\ quiet[e] /\ w \in Works
        /\ \/ pc'[e] = pc[e] /\ dropped'[e] = dropped[e] /\ score'[e] = score[e]
           \/ Drop(e) \/ Flush(e)
    BY <1>2, EditorsStay, NewRow
  <2>2. New(e)' = New(e)
    BY <2>1, NewStays
  <2>3. work'[w] = work[w] /\ links'[w] = links[w] /\ gains'[w] = gains[w]
    <3>1. ~(\E P \in Payloads : Create(w, P))
      BY DEF Create
    <3>2. ~Delete(w)
      BY DEF Delete, IInv, WorkHangsTogether, TypeOK
    <3>3. ~(\E d \in Editors : Commit(d) /\ target[d] = w)
      BY DEF Commit, IInv, WorkHangsTogether, TypeOK
    <3>4. QED
      BY <2>1, <3>1, <3>2, <3>3, WorkStep
  <2>4. /\ work[w] = seen[e]
        /\ pc[e] # "loaded" => dropped[e] = Found(e)
        /\ pc[e] = "flushed" =>
             score[e] = Score(New(e), (gains[w] \ dropped[e].gains) \union NewGains(payload[e], number[e]))
        /\ "status" \in DOMAIN payload[e] /\ payload[e].status = "PUBLISHED" =>
             MayPublish(Merged(seen[e], payload[e]), ForemenAfter(e))
    BY <1>2, <2>1 DEF IInv, QuietShape
  <2>5. Found(e)' = Found(e) /\ ForemenAfter(e)' = ForemenAfter(e)
    BY <2>1, <2>3 DEF Found, ForemenAfter, ForemenOf
  <2>6. CASE pc'[e] = pc[e] /\ dropped'[e] = dropped[e] /\ score'[e] = score[e]
    BY <2>1, <2>2, <2>3, <2>4, <2>5, <2>6
  <2>7. CASE Drop(e)
    <3>1. pc'[e] = "dropped" /\ dropped'[e] = Found(e)
      BY <2>7 DEF Drop, IInv, WorkHangsTogether, TypeOK
    <3>2. QED
      BY <2>1, <2>3, <2>4, <2>5, <3>1
  <2>8. CASE Flush(e)
    <3>1. /\ pc[e] = "dropped" /\ dropped'[e] = dropped[e]
          /\ score'[e] = Score(New(e), (gains[w] \ dropped[e].gains) \union NewGains(payload[e], number[e]))
      BY <2>8 DEF Flush, IInv, WorkHangsTogether, TypeOK
    <3>2. QED
      BY <2>1, <2>2, <2>3, <2>4, <2>5, <3>1
  <2>9. QED
    BY <2>1, <2>6, <2>7, <2>8
<1>3. QED
  BY <1>1, <1>2

\* The foremen a request brings are new to the work but for the rows it has
\* deleted, and no two requests that have flushed bring the same one.
LEMMA LinkStep == ASSUME IInv, [Next]_vars PROVE LinkShape'
<1> DEFINE Brings(e) == ForemenOf(NewLinks(payload[e]))
           Once(L) == \A k, l \in L : k.foreman = l.foreman => k = l
           Clear(L, e) == \A l \in L \ dropped[e].links : l.foreman \notin Brings(e)
<1>1. ASSUME NEW P \in Payloads PROVE Once(NewLinks(P))
  <2>1. CASE "foremen" \in DOMAIN P
    BY <2>1 DEF NewLinks, WithRoles
  <2>2. CASE "foremen" \notin DOMAIN P
    BY <2>2 DEF NewLinks
  <2>3. QED
    BY <2>1, <2>2
<1>2. ASSUME NEW e \in Editors, pc[e] = "flushed" PROVE Clear(links[target[e]], e)
  BY <1>2 DEF IInv, LinkShape, Conflicting
<1>3. ASSUME NEW d \in Editors, NEW e \in Editors, d # e, pc[d] = "flushed", pc[e] = "flushed",
             target[d] = target[e]
      PROVE  Brings(d) \intersect Brings(e) = {}
  BY <1>3 DEF IInv, LinkShape
<1>4. ASSUME NEW w \in Works PROVE Once(links'[w])
  <2>1. Once(links[w])
    BY DEF IInv, LinkShape
  <2>2. CASE links'[w] = links[w]
    BY <2>1, <2>2
  <2>3. ASSUME NEW P \in Payloads, Create(w, P) PROVE Once(links'[w])
    BY <1>1, <2>3, CreateRow
  <2>4. CASE Delete(w)
    BY <2>4 DEF Delete, Cascaded, IInv, WorkHangsTogether, TypeOK
  <2>5. ASSUME NEW e \in Editors, Commit(e), target[e] = w PROVE Once(links'[w])
    <3>1. /\ links'[w] = (links[w] \ dropped[e].links) \union NewLinks(payload[e])
          /\ payload[e] \in Payloads /\ pc[e] = "flushed"
      BY <2>5, CommitRow, NewRow DEF Commit
    <3>2. Once(NewLinks(payload[e])) /\ Clear(links[w], e)
      BY <1>1, <1>2, <2>5, <3>1
    <3>3. \A l \in NewLinks(payload[e]) : l.foreman \in Brings(e)
      BY DEF ForemenOf
    <3> HIDE DEF Brings
    <3>4. QED
      BY <2>1, <3>1, <3>2, <3>3
  <2>6. QED
    BY <2>2, <2>3, <2>4, <2>5, WorkStep
<1>5. ASSUME NEW d \in Editors, pc'[d] = "flushed" PROVE Conflicting(d)' = {}
  <2> DEFINE w == target[d]
  <2>0. /\ Active(d) /\ target'[d] = w /\ payload'[d] = payload[d]
        /\ \/ Flush(d)
           \/ pc[d] = "flushed" /\ dropped'[d] = dropped[d]
    BY <1>5, Flushes
  <2>1. /\ Active(d) /\ target'[d] = w /\ payload'[d] = payload[d] /\ w \in Works
        /\ \/ Flush(d)
           \/ pc[d] = "flushed" /\ dropped'[d] = dropped[d]
    <3>1. w \in Works
      BY <2>0, NewRow
    <3>2. QED
      BY <2>0, <3>1
  <2>2. CASE Flush(d)
    <3>1. links' = links /\ dropped' = dropped /\ Conflicting(d) = {}
      BY <2>2 DEF Flush, Admissible, tables
    <3>2. QED
      BY <2>1, <3>1 DEF Conflicting
  <2>3. CASE pc[d] = "flushed" /\ dropped'[d] = dropped[d]
    <3>1. Clear(links[w], d)
      BY <1>2, <2>3
    <3>2. Clear(links'[w], d)
      <4>1. ~(\E P \in Payloads : Create(w, P)) /\ ~Delete(w)
        BY <2>3 DEF Create, Delete
      <4>2. ASSUME NEW e \in Editors, Commit(e), target[e] = w PROVE Clear(links'[w], d)
        <5>1. e # d
          BY <1>5, <4>2 DEF Commit, Leave, IInv, WorkHangsTogether, TypeOK
        <5>2. /\ links'[w] = (links[w] \ dropped[e].links) \union NewLinks(payload[e])
              /\ pc[e] = "flushed"
          BY <4>2, CommitRow DEF Commit
        <5>3. Brings(d) \intersect Brings(e) = {}
          BY <1>3, <2>3, <4>2, <5>1, <5>2
        <5>4. \A l \in NewLinks(payload[e]) : l.foreman \in Brings(e)
          BY DEF ForemenOf
        <5> HIDE DEF Brings
        <5>5. QED
          BY <3>1, <5>2, <5>3, <5>4
      <4>3. QED
        BY <2>1, <3>1, <4>1, <4>2, WorkStep
    <3>3. QED
      BY <2>1, <2>3, <3>2 DEF Conflicting
  <2>4. QED
    BY <2>1, <2>2, <2>3
<1>6. ASSUME NEW d \in Editors, NEW e \in Editors, pc'[d] = "flushed", pc'[e] = "flushed",
             target'[d] = target'[e], d # e
      PROVE  Brings(d) \intersect Brings(e) = {} /\ payload'[d] = payload[d] /\ payload'[e] = payload[e]
  <2>1. /\ target[d] = target[e] /\ payload'[d] = payload[d] /\ payload'[e] = payload[e]
        /\ Active(d) /\ Active(e)
        /\ Flush(d) \/ pc[d] = "flushed"
        /\ Flush(e) \/ pc[e] = "flushed"
    BY <1>6, Flushes
  <2>2. ASSUME NEW a \in Editors, NEW b \in Editors, Flush(a), pc[b] = "flushed",
               a # b, target[a] = target[b]
        PROVE  Brings(a) \intersect Brings(b) = {}
    BY <2>2 DEF Flush, Others
  <2>3. ~(Flush(d) /\ Flush(e))
    BY <1>6 DEF Flush, IInv, WorkHangsTogether, TypeOK
  <2> HIDE DEF Brings
  <2>4. QED
    BY <1>3, <1>6, <2>1, <2>2, <2>3
<1>7. QED
  BY <1>4, <1>5, <1>6 DEF LinkShape

-----------------------------------------------------------------------------
(* The factorial of a number is a multiple of every number up to it.       *)

\* The factorial is what its definition says.
LEMMA FactorialIs ==
  /\ factorial[0] = 1
  /\ \A n \in Nat : n # 0 => factorial[n] = n * factorial[n - 1]
<1> DEFINE R(g) == g = [n \in Nat |-> IF n = 0 THEN 1 ELSE n * g[n - 1]]
           c    == [n \in Nat |-> n]
<1>1. \A n \in Nat : c[n] = n
  OBVIOUS
<1> HIDE DEF c
<1>2. PICK g : g = [n \in Nat |-> IF n = 0 THEN 1 ELSE c[n] * g[n - 1]]
  BY RunningProduct
<1>3. R(g)
  BY <1>1, <1>2
<1>4. factorial = CHOOSE f : R(f)
  BY DEF factorial
<1>5. R(factorial)
  BY <1>3, <1>4
<1>6. \A n \in Nat : factorial[n] = IF n = 0 THEN 1 ELSE n * factorial[n - 1]
  BY <1>5
<1>7. QED
  BY <1>6

\* It is a natural number.
LEMMA FactorialNat == \A n \in Nat : factorial[n] \in Nat
<1> DEFINE Bad == {n \in Nat : factorial[n] \notin Nat}
<1>1. SUFFICES ASSUME Bad # {} PROVE FALSE
  OBVIOUS
<1>2. PICK n \in Bad : \A k \in Bad : n <= k
  <2>1. Bad \subseteq Nat
    OBVIOUS
  <2> HIDE DEF Bad
  <2>2. QED
    BY <1>1, <2>1, SmallestNumber
<1>3. n # 0
  BY FactorialIs
<1>4. n - 1 \in Nat /\ factorial[n - 1] \in Nat
  BY <1>2, <1>3
<1>5. factorial[n] = n * factorial[n - 1]
  BY <1>3, FactorialIs
<1>6. QED
  BY <1>4, <1>5

\* Every number up to n divides the factorial of n.
LEMMA FactorialDivides ==
  \A n \in Nat : \A k \in 1 .. n : \E m \in Nat : factorial[n] = k * m
<1> DEFINE Bad == {n \in Nat : \E k \in 1 .. n : \A m \in Nat : factorial[n] # k * m}
<1>1. SUFFICES ASSUME Bad # {} PROVE FALSE
  OBVIOUS
<1>2. PICK n \in Bad : \A k \in Bad : n <= k
  <2>1. Bad \subseteq Nat
    OBVIOUS
  <2> HIDE DEF Bad
  <2>2. QED
    BY <1>1, <2>1, SmallestNumber
<1>3. PICK k \in 1 .. n : \A m \in Nat : factorial[n] # k * m
  OBVIOUS
<1>4. n # 0
  BY <1>3
<1>5. n - 1 \in Nat /\ ~(n <= n - 1)
  BY <1>4
<1>6. /\ n - 1 \in Nat /\ n - 1 \notin Bad /\ factorial[n - 1] \in Nat
      /\ factorial[n] = n * factorial[n - 1]
  <2>1. n - 1 \notin Bad
    BY <1>2, <1>5
  <2>2. QED
    BY <2>1, <1>4, <1>5, FactorialIs, FactorialNat
<1>7. k # n
  BY <1>3, <1>6
<1>8. PICK m \in Nat : factorial[n - 1] = k * m
  <2>1. k \in 1 .. n - 1
    BY <1>7
  <2>2. \A j \in 1 .. n - 1 : \E m \in Nat : factorial[n - 1] = j * m
    BY <1>6
  <2>3. QED
    BY <2>1, <2>2
<1>9. factorial[n] = k * (n * m) /\ n * m \in Nat
  BY <1>6, <1>8
<1>10. QED
  BY <1>3, <1>9

-----------------------------------------------------------------------------
(* The shares of a saving.                                                 *)

\* A work has as many participants as foremen.
LEMMA ParticipantsAre ==
  ASSUME IInv, NEW w \in Works
  PROVE  /\ IsFiniteSet(ForemenOf(links[w])) /\ ForemenOf(links[w]) \subseteq Foremen
         /\ Participants(w) = Cardinality(ForemenOf(links[w]))
         /\ Participants(w) \in 0 .. Cardinality(Foremen)
         /\ ForemenOf(links[w]) # {} => Participants(w) # 0
<1> DEFINE L == links[w]
           F == ForemenOf(L)
           name == [l \in L |-> l.foreman]
<1>1. L \subseteq Link /\ \A k, l \in L : k.foreman = l.foreman => k = l
  BY DEF IInv, WorkHangsTogether, TypeOK, LinkShape
<1>2. F \subseteq Foremen /\ IsFiniteSet(F)
  <2>1. F \subseteq Foremen
    BY <1>1 DEF ForemenOf, Link
  <2>2. QED
    BY <2>1, FS_Subset, ContributionAssumption
<1>3. name \in Injection(L, F) /\ name \in Surjection(L, F)
  <2>1. name \in [L -> F] /\ \A f \in F : \E l \in L : name[l] = f
    BY DEF ForemenOf
  <2>2. \A k, l \in L : name[k] = name[l] => k = l
    BY <1>1
  <2> HIDE DEF name, F
  <2>3. QED
    BY <2>1, <2>2 DEF Injection, Surjection, IsInjective
<1>4. Cardinality(L) = Cardinality(F)
  <2> HIDE DEF L, F, name
  <2>1. QED
    BY <1>2, <1>3, FS_Injection
<1>5. Cardinality(F) \in Nat /\ Cardinality(Foremen) \in Nat /\ Cardinality(F) <= Cardinality(Foremen)
  BY <1>2, FS_Subset, FS_CardinalityType, ContributionAssumption
<1>6. F # {} => Cardinality(F) # 0
  BY <1>2, FS_EmptySet
<1>7. QED
  BY <1>2, <1>4, <1>5, <1>6 DEF Participants

\* What a foreman is credited is a sum over all works somebody shares.
LEMMA SharesOfWork ==
  ASSUME IInv, NEW w \in Works, work[w] # NoWork, ForemenOf(links[w]) # {}
  PROVE  /\ Minutes(w) * factorial[Cardinality(Foremen)] \in Nat
         /\ (Minutes(w) * factorial[Cardinality(Foremen)]) \div Participants(w) \in Nat
         /\ Participants(w) * ((Minutes(w) * factorial[Cardinality(Foremen)]) \div Participants(w))
              = Minutes(w) * factorial[Cardinality(Foremen)]
<1> DEFINE n == Cardinality(Foremen)
           p == Participants(w)
           min == Minutes(w)
           s == factorial[n]
<1>1. n \in Nat /\ p \in 1 .. n
  BY ParticipantsAre, FS_CardinalityType, ContributionAssumption
<1>2. min \in Nat
  <2>1. work[w] \in Row
    BY DEF IInv, WorkHangsTogether, TypeOK
  <2>2. QED
    BY <2>1, RowColumns DEF Minutes
<1> HIDE DEF n, p, min
<1>3. PICK m \in Nat : s = p * m
  BY <1>1, FactorialDivides
<1>4. s \in Nat
  BY <1>1, FactorialNat
<1>5. min * s = p * (min * m) /\ min * m \in Nat
  BY <1>1, <1>2, <1>3
<1>6. (min * s) \div p = min * m
  <2> DEFINE q == min * m
  <2>1. q \in Nat /\ min * s = p * q
    BY <1>5
  <2> HIDE DEF q
  <2>2. (p * q) \div p = q
    BY <1>1, <2>1
  <2>3. QED
    BY <2>1, <2>2 DEF q
<1>7. min * s \in Nat
  BY <1>2, <1>4
<1>8. (min * s) \div p \in Nat /\ p * ((min * s) \div p) = min * s
  BY <1>5, <1>6
<1> HIDE DEF s
<1>9. QED
  BY <1>7, <1>8 DEF n, p, min, s

\* The sums of the model are totals of functions.
LEMMA TimeSavingIs ==
  ASSUME NEW f, NEW scale, NEW D, D \subseteq Works, PublishedOf(f) \subseteq D
  PROVE  TimeSaving(f, scale)
           = Total([w \in D |-> (Minutes(w) * scale) \div Participants(w)], PublishedOf(f))
<1> DEFINE F == PublishedOf(f)
           h == [w \in D |-> (Minutes(w) * scale) \div Participants(w)]
           R(g) == g = [s \in SUBSET F |->
                          IF s = {} THEN 0
                          ELSE ((Minutes(CHOOSE x \in s : TRUE) * scale)
                                  \div Participants(CHOOSE x \in s : TRUE))
                               + g[s \ {CHOOSE x \in s : TRUE}]]
<1>1. TimeSaving(f, scale) = (CHOOSE g : R(g))[F]
  BY DEF TimeSaving, MapThenSumSet, MapThenFoldSet
<1>2. \A s \in SUBSET F : s # {} =>
        h[Chosen(s)] = (Minutes(CHOOSE x \in s : TRUE) * scale) \div Participants(CHOOSE x \in s : TRUE)
  BY ChosenIn DEF Chosen
<1> HIDE DEF h
<1>3. \A g : R(g) <=> Adds(g, h, F)
  BY <1>2 DEF Adds, Chosen
<1>4. IsFiniteSet(F)
  BY FS_Subset, ContributionAssumption
<1>5. \E g : R(g)
  <2> HIDE DEF F, R
  <2>1. QED
    BY <1>3, <1>4, AddsExists
<1>6. R(CHOOSE g : R(g))
  <2> HIDE DEF F, R
  <2>1. QED
    BY <1>5
<1>7. QED
  <2> HIDE DEF F, R
  <2>1. Adds(CHOOSE g : R(g), h, F)
    BY <1>3, <1>6
  <2>2. (CHOOSE g : R(g))[F] = Total(h, F)
    BY <2>1, <1>4, TotalIs
  <2>3. TimeSaving(f, scale) = Total(h, F)
    BY <2>2, <1>1
  <2>4. QED
    BY <2>3 DEF h, F

\* All foremen together are credited with the savings of the works they share.
LEMMA SharesAre ==
  ASSUME IInv
  PROVE  LET scale == factorial[Cardinality(Foremen)]
             U     == UNION {PublishedOf(f) : f \in Foremen}
         IN  Total([f \in Foremen |-> TimeSaving(f, scale)], Foremen)
               = Total([w \in U |-> Minutes(w) * scale], U)
<1> DEFINE scale == factorial[Cardinality(Foremen)]
           U == UNION {PublishedOf(f) : f \in Foremen}
           share == [w \in U |-> (Minutes(w) * scale) \div Participants(w)]
           m == [t \in Foremen \X U |-> IF t[2] \in PublishedOf(t[1]) THEN share[t[2]] ELSE 0]
           row(f) == [w \in U |-> m[<<f, w>>]]
           column(w) == [f \in Foremen |-> m[<<f, w>>]]
<1>1. U \subseteq Works /\ IsFiniteSet(U) /\ IsFiniteSet(Foremen)
  <2>1. U \subseteq Works
    BY DEF PublishedOf
  <2> HIDE DEF U
  <2>2. QED
    BY <2>1, FS_Subset, ContributionAssumption
<1>2. \A w \in U : /\ work[w] # NoWork /\ ForemenOf(links[w]) # {}
                   /\ \A f \in Foremen : w \in PublishedOf(f) <=> f \in ForemenOf(links[w])
  BY DEF PublishedOf
<1> HIDE DEF U
<1>3. ASSUME NEW w \in U
      PROVE  /\ Minutes(w) * scale \in Nat /\ share[w] \in Nat
             /\ Participants(w) * share[w] = Minutes(w) * scale
             /\ Participants(w) = Cardinality(ForemenOf(links[w])) /\ Participants(w) \in Nat
             /\ ForemenOf(links[w]) \subseteq Foremen /\ IsFiniteSet(ForemenOf(links[w]))
  <2>1. w \in Works /\ work[w] # NoWork /\ ForemenOf(links[w]) # {}
    BY <1>1, <1>2
  <2>2. /\ Participants(w) = Cardinality(ForemenOf(links[w]))
        /\ Participants(w) \in Nat
        /\ ForemenOf(links[w]) \subseteq Foremen /\ IsFiniteSet(ForemenOf(links[w]))
    BY <2>1, ParticipantsAre, FS_CardinalityType
  <2>3. share[w] = (Minutes(w) * scale) \div Participants(w)
    OBVIOUS
  <2> HIDE DEF share
  <2>4. QED
    BY <2>1, <2>2, <2>3, SharesOfWork
<1> HIDE DEF share
<1>4. \A f \in Foremen : \A w \in U :
        /\ row(f)[w] = IF w \in PublishedOf(f) THEN share[w] ELSE 0
        /\ column(w)[f] = IF f \in ForemenOf(links[w]) THEN share[w] ELSE 0
        /\ m[<<f, w>>] = row(f)[w] /\ m[<<f, w>>] = column(w)[f]
  BY <1>2
<1>5. m \in [Foremen \X U -> Nat]
  BY <1>3
<1> HIDE DEF m
<1>6. ASSUME NEW f \in Foremen PROVE Total(row(f), U) = TimeSaving(f, scale)
  <2>1. PublishedOf(f) \subseteq U /\ U \cap PublishedOf(f) = PublishedOf(f)
    BY DEF U
  <2>2. Total(row(f), U) = Total(share, U \cap PublishedOf(f))
    <3>1. \A w \in U : share[w] \in Nat /\ row(f)[w] = IF w \in PublishedOf(f) THEN share[w] ELSE 0
      BY <1>3, <1>4
    <3> HIDE DEF row
    <3>2. QED
      BY <1>1, <3>1, TotalWithin
  <2>3. TimeSaving(f, scale) = Total(share, PublishedOf(f))
    BY <1>1, <2>1, TimeSavingIs DEF share
  <2>4. QED
    BY <2>1, <2>2, <2>3
<1>7. ASSUME NEW w \in U PROVE Total(column(w), Foremen) = Minutes(w) * scale
  <2> DEFINE F == ForemenOf(links[w])
             all == [f \in Foremen |-> share[w]]
  <2>1. F \subseteq Foremen /\ IsFiniteSet(F) /\ Foremen \cap F = F
    BY <1>3
  <2>2. Total(column(w), Foremen) = Total(all, Foremen \cap F)
    <3>1. \A f \in Foremen : all[f] \in Nat /\ column(w)[f] = IF f \in F THEN all[f] ELSE 0
      BY <1>3, <1>4
    <3> HIDE DEF column, all
    <3>2. QED
      BY <1>1, <3>1, TotalWithin
  <2>3. Total(all, F) = Cardinality(F) * share[w]
    <3>1. \A f \in F : all[f] = share[w]
      BY <2>1
    <3> HIDE DEF all, F
    <3>2. QED
      BY <1>3, <2>1, <3>1, TotalConstant
  <2>4. QED
    BY <1>3, <2>1, <2>2, <2>3
<1>8. Total([f \in Foremen |-> Total(row(f), U)], Foremen) = Total([w \in U |-> Total(column(w), Foremen)], U)
  BY <1>1, <1>5, Exchange
<1>9. [f \in Foremen |-> Total(row(f), U)] = [f \in Foremen |-> TimeSaving(f, scale)]
  BY <1>6
<1>10. [w \in U |-> Total(column(w), Foremen)] = [w \in U |-> Minutes(w) * scale]
  BY <1>7
<1>11. QED
  BY <1>8, <1>9, <1>10 DEF U

-----------------------------------------------------------------------------
(* Theorems about the works.                                               *)

LEMMA InitInv == ASSUME Init PROVE IInv
<1> USE ContributionAssumption DEF Init
<1>1. Nothing \in [links : SUBSET Link, gains : SUBSET Gains]
  BY DEF Nothing
<1>2. TypeOK
  BY <1>1 DEF TypeOK
<1>3. DatesInOrder /\ ScoreCurrent /\ GoneIsGone /\ PublishedComplete /\ TimeShape
  BY DEF DatesInOrder, ScoreCurrent, GoneIsGone, PublishedComplete, TimeShape
<1>4. LeaderIsAlone
  BY FS_EmptySet DEF LeaderIsAlone
<1>5. EditorShape /\ FlushedShape /\ QuietShape
  BY DEF EditorShape, FlushedShape, QuietShape, Active
<1>6. LinkShape
  BY DEF LinkShape
<1>7. QED
  BY <1>2, <1>3, <1>4, <1>5, <1>6 DEF IInv, WorkHangsTogether

\* The inductive invariant holds of every state: in particular a request nobody
\* has disturbed still works on the work as it is, and of the requests that have
\* flushed for one work at most one has written its row.
THEOREM InvariantCorrect == Spec => []IInv
<1>1. Init => IInv
  BY InitInv
<1>2. IInv /\ [Next]_vars => IInv'
  BY TypeStep, DatesStep, ScoreStep, LeaderStep, GoneStep, PublishedStep, EditorStep, TimeStep,
     FlushedStep, QuietStep, LinkStep DEF IInv, WorkHangsTogether
<1>3. QED
  BY <1>1, <1>2, PTL DEF Spec

\* However requests for one work overlap, its dates are in order, its score and
\* its leader are those of its columns, gains and foremen unless it is strained,
\* and nothing of a deleted work is left.
THEOREM WorkHangsTogetherCorrect == Spec => []WorkHangsTogether
<1>1. IInv => WorkHangsTogether
  BY DEF IInv
<1>2. QED
  BY <1>1, InvariantCorrect, PTL

\* A published work has a time of publication, and what a publication needs
\* unless it was edited by a request that did not check it or was disturbed.
THEOREM PublishedCompleteCorrect == Spec => []PublishedComplete
<1>1. IInv => PublishedComplete
  BY DEF IInv
<1>2. QED
  BY <1>1, InvariantCorrect, PTL

\* Whoever exchanges the foremen of works at the same time, all of the saving of
\* each published work is credited to its foremen, and nothing twice.
THEOREM SharesAddUpCorrect == Spec => []SharesAddUp
<1>1. ASSUME IInv PROVE SharesAddUp
  <2> DEFINE scale == factorial[Cardinality(Foremen)]
             U == UNION {PublishedOf(f) : f \in Foremen}
             credit == [f \in Foremen |-> TimeSaving(f, scale)]
             saving == [w \in U |-> Minutes(w) * scale]
             C(g) == g = [s \in SUBSET Foremen |->
                            IF s = {} THEN 0
                            ELSE TimeSaving(CHOOSE x \in s : TRUE, scale) + g[s \ {CHOOSE x \in s : TRUE}]]
             W(g) == g = [s \in SUBSET U |->
                            IF s = {} THEN 0
                            ELSE Minutes(CHOOSE x \in s : TRUE) * scale + g[s \ {CHOOSE x \in s : TRUE}]]
  <2>1. SharesAddUp <=> (CHOOSE g : C(g))[Foremen] = (CHOOSE g : W(g))[U]
    BY DEF SharesAddUp, MapThenSumSet, MapThenFoldSet
  <2>2. /\ \A s \in SUBSET Foremen : s # {} =>
             credit[Chosen(s)] = TimeSaving(CHOOSE x \in s : TRUE, scale)
        /\ \A s \in SUBSET U : s # {} =>
             saving[Chosen(s)] = Minutes(CHOOSE x \in s : TRUE) * scale
    <3> HIDE DEF U, scale
    <3>1. QED
      BY ChosenIn DEF Chosen
  <2> HIDE DEF credit, saving, scale
  <2>3. IsFiniteSet(Foremen) /\ IsFiniteSet(U)
    <3>1. U \subseteq Works
      BY DEF PublishedOf
    <3> HIDE DEF U
    <3>2. QED
      BY <3>1, FS_Subset, ContributionAssumption
  <2> HIDE DEF U
  <2>4. \A g : (C(g) <=> Adds(g, credit, Foremen)) /\ (W(g) <=> Adds(g, saving, U))
    BY <2>2 DEF Adds, Chosen
  <2>5. (\E g : C(g)) /\ (\E g : W(g))
    <3> HIDE DEF C, W
    <3>1. QED
      BY <2>3, <2>4, AddsExists
  <2>6. C(CHOOSE g : C(g)) /\ W(CHOOSE g : W(g))
    <3> HIDE DEF C, W
    <3>1. QED
      BY <2>5
  <2> HIDE DEF C, W
  <2>7. Adds(CHOOSE g : C(g), credit, Foremen) /\ Adds(CHOOSE g : W(g), saving, U)
    BY <2>4, <2>6
  <2>8. /\ (CHOOSE g : C(g))[Foremen] = Total(credit, Foremen)
        /\ (CHOOSE g : W(g))[U] = Total(saving, U)
    BY <2>3, <2>7, TotalIs
  <2>9. Total(credit, Foremen) = Total(saving, U)
    BY <1>1, SharesAre DEF credit, saving, scale, U
  <2>10. QED
    BY <2>1, <2>8, <2>9
<1>2. QED
  BY <1>1, InvariantCorrect, PTL

LEMMA NamedChangeStep ==
  ASSUME IInv, [Next]_vars, NEW w \in Works, work[w] # NoWork, work'[w] # NoWork,
         NEW c \in Named \ {"saving", "monthly"}, work'[w][c] # work[w][c]
  PROVE  \E e \in Editors : /\ Commit(e) /\ target[e] = w /\ pc'[e] = "idle"
                            /\ c \in DOMAIN payload[e] /\ work'[w][c] = payload[e][c]
                            /\ payload[e][c] # seen[e][c]
<1>1. ~(\E P \in Payloads : Create(w, P)) /\ ~Delete(w)
  BY DEF Create, Delete, IInv, WorkHangsTogether, TypeOK
<1>2. PICK e \in Editors : Commit(e) /\ target[e] = w
  BY <1>1, WorkStep
<1>3. c \in Columns \ {"score"}
  BY DEF Columns, Named
<1>4. c \in Changed(e) /\ work'[w][c] = New(e)[c]
  BY <1>2, <1>3, CommitRow, OverwrittenRow
<1>5. New(e)[c] # seen[e][c]
  BY <1>4 DEF Changed
<1>6. New(e)[c] = IF c \in DOMAIN payload[e] THEN payload[e][c] ELSE seen[e][c]
  BY <1>2, CommitRow, NewRow
<1>7. pc'[e] = "idle"
  BY <1>2 DEF Commit, Leave, IInv, WorkHangsTogether, TypeOK
<1>8. QED
  BY <1>2, <1>4, <1>5, <1>6, <1>7

LEMMA AuditStep ==
  ASSUME IInv, [Next]_vars, NEW w \in Works,
         \/ links'[w] # links[w] \/ gains'[w] # gains[w]
         \/ work'[w] # work[w] /\ NoWork \in {work[w], work'[w]}
         \/ /\ NoWork \notin {work[w], work'[w]}
            /\ \E c \in Named \ {"saving", "monthly"} : work'[w][c] # work[w][c]
  PROVE  audited' # audited
<1>1. requests + 1 \notin audited
  BY DEF IInv, WorkHangsTogether, TypeOK
<1>2. CASE \E P \in Payloads : Create(w, P)
  BY <1>1, <1>2 DEF Create, record_audit
<1>3. CASE Delete(w)
  BY <1>1, <1>3 DEF Delete, record_audit
<1>4. ASSUME NEW e \in Editors, Commit(e), target[e] = w PROVE audited' # audited
  <2>1. /\ Active(e) /\ work[w] # NoWork /\ work'[w] # NoWork /\ payload[e] \in Payloads
        /\ number[e] \in 1 .. MaxRequests
    BY <1>4, CommitRow, NewRow, ContributionAssumption
  <2>2. number[e] \notin audited
    BY <2>1 DEF IInv, EditorShape
  <2>3. Noted(e)
    <3>1. CASE \E c \in Named \ {"saving", "monthly"} : work'[w][c] # work[w][c]
      <4>1. PICK c \in Named \ {"saving", "monthly"} : work'[w][c] # work[w][c]
        BY <3>1
      <4>2. c \in Columns \ {"score"}
        BY DEF Columns, Named
      <4>3. c \in Changed(e)
        BY <1>4, <2>1, <4>1, <4>2, CommitRow, OverwrittenRow
      <4>4. New(e)[c] # seen[e][c]
        BY <4>3 DEF Changed
      <4>5. New(e)[c] = IF c \in DOMAIN payload[e] THEN payload[e][c] ELSE seen[e][c]
        BY <2>1, NewRow
      <4>6. QED
        BY <4>4, <4>5 DEF Noted
    <3>2. CASE links'[w] # links[w]
      <4>1. NewLinks(payload[e]) # {} \/ dropped[e].links # {}
        BY <1>4, <3>2, CommitRow
      <4>2. "foremen" \in DOMAIN payload[e]
        BY <2>1, <4>1 DEF IInv, EditorShape, NewLinks
      <4>3. QED
        BY <4>2 DEF Noted
    <3>3. CASE gains'[w] # gains[w]
      <4>1. NewGains(payload[e], number[e]) # {} \/ dropped[e].gains # {}
        BY <1>4, <3>3, CommitRow
      <4>2. "gains" \in DOMAIN payload[e]
        BY <2>1, <4>1 DEF IInv, EditorShape, NewGains
      <4>3. QED
        BY <4>2 DEF Noted
    <3>4. QED
      BY <2>1, <3>1, <3>2, <3>3
  <2>4. QED
    BY <1>4, <2>2, <2>3 DEF Commit, record_audit
<1>5. QED
  BY <1>2, <1>3, <1>4, WorkStep

\* A request changes no column of a work that it does not name, and nothing a
\* person can enter changes without an audit record.
THEOREM ChangesAreAccountedCorrect == Spec => ChangesAreAccounted
<1>1. IInv /\ [Next]_vars =>
        [\A w \in Works : work[w] # NoWork /\ work'[w] # NoWork =>
           \A c \in Named \ {"saving", "monthly"} :
             work'[w][c] # work[w][c] =>
               \E e \in Editors : target[e] = w /\ pc'[e] = "idle"
                                  /\ c \in DOMAIN payload[e] /\ work'[w][c] = payload[e][c]]_vars
  BY NamedChangeStep
<1>2. IInv /\ [Next]_vars =>
        [\A w \in Works :
           (\/ links'[w] # links[w] \/ gains'[w] # gains[w]
            \/ work'[w] # work[w] /\ NoWork \in {work[w], work'[w]}
            \/ /\ NoWork \notin {work[w], work'[w]}
               /\ \E c \in Named \ {"saving", "monthly"} : work'[w][c] # work[w][c])
           => audited' # audited]_vars
  BY AuditStep
<1>3. QED
  BY <1>1, <1>2, InvariantCorrect, PTL DEF Spec, ChangesAreAccounted, OnlyNamedChange, EveryChangeAudited

-----------------------------------------------------------------------------
(* Rounding down and the logarithm keep the order of numbers.              *)

\* The logarithm is what its definition says: its steps go down by halves.
Halves(g, n) == g = [m \in 0 .. n |-> IF m < 2000 THEN m - 1000 ELSE 1000 + g[m \div 2]]

LEMMA HalvesUnique ==
  ASSUME NEW n \in Nat, NEW m \in Nat, n <= m, NEW g, NEW h, Halves(g, n), Halves(h, m)
  PROVE  \A i \in 0 .. n : g[i] = h[i]
<1> DEFINE Bad == {i \in 0 .. n : g[i] # h[i]}
<1>1. SUFFICES ASSUME Bad # {} PROVE FALSE
  OBVIOUS
<1>2. PICK i \in Bad : \A k \in Bad : i <= k
  <2>1. Bad \subseteq Nat
    OBVIOUS
  <2> HIDE DEF Bad
  <2>2. QED
    BY <1>1, <2>1, SmallestNumber
<1>3. /\ \A k \in 0 .. n : g[k] = IF k < 2000 THEN k - 1000 ELSE 1000 + g[k \div 2]
      /\ \A k \in 0 .. n : h[k] = IF k < 2000 THEN k - 1000 ELSE 1000 + h[k \div 2]
  BY DEF Halves
<1>4. i >= 2000
  BY <1>3
<1>5. i \div 2 \in 0 .. n /\ i \div 2 < i
  BY <1>4
<1>6. g[i \div 2] = h[i \div 2]
  BY <1>2, <1>5
<1>7. g[i] = h[i]
  BY <1>3, <1>4, <1>6
<1>8. QED
  BY <1>7

LEMMA HalvesExists == \A n \in Nat : \E g : Halves(g, n)
<1> DEFINE Bad == {n \in Nat : ~\E g : Halves(g, n)}
<1>1. SUFFICES ASSUME Bad # {} PROVE FALSE
  OBVIOUS
<1>2. PICK n \in Bad : \A k \in Bad : n <= k
  <2>1. Bad \subseteq Nat
    OBVIOUS
  <2> HIDE DEF Bad
  <2>2. QED
    BY <1>1, <2>1, SmallestNumber
<1>3. n # 0
  <2>1. Halves([i \in 0 .. 0 |-> -1000], 0)
    BY DEF Halves
  <2>2. QED
    BY <2>1
<1>4. PICK g : Halves(g, n - 1)
  <2>1. n - 1 \in Nat /\ n - 1 \notin Bad
    BY <1>2, <1>3
  <2>2. QED
    BY <2>1
<1> DEFINE h == [i \in 0 .. n |-> IF i # n THEN g[i] ELSE IF n < 2000 THEN n - 1000 ELSE 1000 + g[n \div 2]]
<1>5. \A i \in 0 .. n : h[i] = IF i < 2000 THEN i - 1000 ELSE 1000 + h[i \div 2]
  <2>1. \A i \in 0 .. n - 1 : g[i] = IF i < 2000 THEN i - 1000 ELSE 1000 + g[i \div 2]
    BY <1>4 DEF Halves
  <2>2. ASSUME NEW i \in 0 .. n, i >= 2000
        PROVE  i \div 2 \in 0 .. n /\ i \div 2 # n /\ h[i \div 2] = g[i \div 2]
    BY <2>2
  <2>3. ASSUME NEW i \in 0 .. n, i # n PROVE h[i] = IF i < 2000 THEN i - 1000 ELSE 1000 + h[i \div 2]
    <3>1. i \in 0 .. n - 1 /\ h[i] = g[i]
      BY <2>3
    <3> HIDE DEF h
    <3>2. QED
      BY <2>1, <2>2, <3>1
  <2>4. h[n] = IF n < 2000 THEN n - 1000 ELSE 1000 + h[n \div 2]
    <3>1. h[n] = IF n < 2000 THEN n - 1000 ELSE 1000 + g[n \div 2]
      OBVIOUS
    <3> HIDE DEF h
    <3>2. QED
      BY <2>2, <3>1
  <2> HIDE DEF h
  <2>5. QED
    BY <2>3, <2>4
<1>6. h = [i \in 0 .. n |-> h[i]]
  OBVIOUS
<1> HIDE DEF h
<1>7. Halves(h, n)
  <2> DEFINE step(m) == IF m < 2000 THEN m - 1000 ELSE 1000 + h[m \div 2]
  <2>1. \A i \in 0 .. n : h[i] = step(i)
    BY <1>5
  <2>2. Halves(h, n) <=> h = [i \in 0 .. n |-> step(i)]
    BY DEF Halves
  <2> HIDE DEF step
  <2>3. QED
    BY <1>6, <2>1, <2>2
<1>8. QED
  BY <1>7

LEMMA Log2Is == \A m \in Nat : Log2[m] = IF m < 2000 THEN m - 1000 ELSE 1000 + Log2[m \div 2]
<1> DEFINE R(g)  == g = [m \in Nat |-> IF m < 2000 THEN m - 1000 ELSE 1000 + g[m \div 2]]
           at(n) == (CHOOSE g : Halves(g, n))
           G     == [n \in Nat |-> at(n)[n]]
<1>1. \A n \in Nat : Halves(at(n), n)
  BY HalvesExists
<1> HIDE DEF at
<1>2. ASSUME NEW n \in Nat PROVE at(n)[n] = IF n < 2000 THEN n - 1000 ELSE 1000 + G[n \div 2]
  <2>1. n \in 0 .. n /\ n \div 2 \in Nat /\ n \div 2 \in 0 .. n \div 2 /\ n \div 2 <= n
    OBVIOUS
  <2>2. at(n)[n] = IF n < 2000 THEN n - 1000 ELSE 1000 + at(n)[n \div 2]
    BY <1>1, <2>1 DEF Halves
  <2>3. at(n \div 2)[n \div 2] = at(n)[n \div 2]
    BY <1>1, <2>1, HalvesUnique
  <2>4. G[n \div 2] = at(n)[n \div 2]
    BY <2>1, <2>3
  <2> HIDE DEF G
  <2>5. QED
    BY <2>2, <2>4
<1>3. \E g : R(g)
  <2>1. G = [n \in Nat |-> at(n)[n]]
    OBVIOUS
  <2> HIDE DEF G
  <2>2. R(G)
    BY <1>2, <2>1
  <2>3. QED
    BY <2>2
<1>4. Log2 = CHOOSE g : R(g)
  BY DEF Log2
<1>5. R(Log2)
  BY <1>3, <1>4
<1>6. QED
  <2> HIDE DEF G
  <2>1. QED
    BY <1>5

\* It is never below -1, and not below 0 from 1 on.
LEMMA Log2Range == \A m \in Nat : Log2[m] \in Int /\ Log2[m] >= -1000 /\ (m >= 1000 => Log2[m] >= 0)
<1> DEFINE Bad == {m \in Nat : ~(Log2[m] \in Int /\ Log2[m] >= -1000 /\ (m >= 1000 => Log2[m] >= 0))}
<1>1. SUFFICES ASSUME Bad # {} PROVE FALSE
  OBVIOUS
<1>2. PICK m \in Bad : \A k \in Bad : m <= k
  <2>1. Bad \subseteq Nat
    OBVIOUS
  <2> HIDE DEF Bad
  <2>2. QED
    BY <1>1, <2>1, SmallestNumber
<1>3. m >= 2000
  BY Log2Is
<1>4. m \div 2 \in Nat /\ m \div 2 < m /\ m \div 2 >= 1000
  BY <1>3
<1>5. Log2[m \div 2] \in Int /\ Log2[m \div 2] >= 0
  BY <1>2, <1>4
<1>6. Log2[m] = 1000 + Log2[m \div 2]
  BY <1>3, Log2Is
<1>7. QED
  BY <1>5, <1>6

LEMMA Log2KeepsOrder == \A n \in Nat : \A m \in 0 .. n : Log2[m] <= Log2[n]
<1> DEFINE Bad == {n \in Nat : ~\A m \in 0 .. n : Log2[m] <= Log2[n]}
<1>1. SUFFICES ASSUME Bad # {} PROVE FALSE
  OBVIOUS
<1>2. PICK n \in Bad : \A k \in Bad : n <= k
  <2>1. Bad \subseteq Nat
    OBVIOUS
  <2> HIDE DEF Bad
  <2>2. QED
    BY <1>1, <2>1, SmallestNumber
<1>3. PICK m \in 0 .. n : ~(Log2[m] <= Log2[n])
  OBVIOUS
<1>4. n >= 2000
  BY <1>3, Log2Is
<1>5. n \div 2 \in Nat /\ n \div 2 < n /\ n \div 2 >= 1000 /\ n \div 2 \notin Bad
  BY <1>2, <1>4
<1>6. Log2[n] = 1000 + Log2[n \div 2] /\ Log2[n \div 2] \in Int /\ Log2[n \div 2] >= 0
  BY <1>4, <1>5, Log2Is, Log2Range
<1>7. m >= 2000
  <2>1. m < 2000 => Log2[m] = m - 1000
    BY Log2Is
  <2>2. QED
    BY <1>3, <1>6, <2>1
<1>8. m \div 2 \in 0 .. n \div 2 /\ m \div 2 \in Nat
  BY <1>7
<1>9. Log2[m \div 2] <= Log2[n \div 2]
  BY <1>5, <1>8
<1>10. Log2[m] = 1000 + Log2[m \div 2] /\ Log2[m \div 2] \in Int
  BY <1>7, <1>8, Log2Is, Log2Range
<1>11. QED
  BY <1>3, <1>6, <1>9, <1>10

-----------------------------------------------------------------------------
(* The formulas: in their range, in order, and 100 at the target.          *)

LEMMA CappedIs ==
  ASSUME NEW a \in Int
  PROVE  Capped(a) \in Nat /\ Capped(a) >= a /\ \A b \in Int : a <= b => Capped(a) <= Capped(b)
  BY DEF Capped, Larger

LEMMA AbsIs == \A n \in Int : Abs(n) \in Nat
  BY DEF Abs

LEMMA RatioIs ==
  ASSUME NEW r \in Nat, NEW good \in Nat, NEW bad \in Nat
  PROVE  /\ RatioPiecewise(r, good, bad) \in Int
         /\ r <= 1000 => RatioPiecewise(r, good, bad) >= 10000
         /\ r > 1000 => RatioPiecewise(r, good, bad) <= 10000
<1>1. CASE r <= 1000
  <2>1. 1000 - r \in Nat /\ good * (1000 - r) \in Nat
    BY <1>1
  <2>2. 0 <= (good * (1000 - r)) \div 10 /\ (good * (1000 - r)) \div 10 \in Int
    BY <2>1, DivAtLeast, DivBounds
  <2>3. RatioPiecewise(r, good, bad) = 10000 + (good * (1000 - r)) \div 10
    BY <1>1 DEF RatioPiecewise
  <2>4. QED
    BY <1>1, <2>2, <2>3
<1>2. CASE r > 1000
  <2>1. Log2[r] \in Nat /\ bad * Log2[r] \in Nat
    <3>1. Log2[r] \in Nat
      BY <1>2, Log2Range
    <3>2. QED
      BY <3>1
  <2>2. 0 <= (bad * Log2[r]) \div 10 /\ (bad * Log2[r]) \div 10 \in Int
    BY <2>1, DivAtLeast, DivBounds
  <2>3. RatioPiecewise(r, good, bad) = 10000 - (bad * Log2[r]) \div 10
    BY <1>2 DEF RatioPiecewise
  <2>4. QED
    BY <1>2, <2>2, <2>3
<1>3. QED
  BY <1>1, <1>2

LEMMA RatioOrder ==
  ASSUME NEW q \in Nat, NEW r \in Nat, q <= r, NEW good \in Nat, NEW bad \in Nat
  PROVE  RatioPiecewise(q, good, bad) >= RatioPiecewise(r, good, bad)
<1>1. CASE r <= 1000
  <2>1. good * (1000 - r) <= good * (1000 - q) /\ good * (1000 - r) \in Int /\ good * (1000 - q) \in Int
    BY <1>1
  <2>2. (good * (1000 - r)) \div 10 <= (good * (1000 - q)) \div 10
    BY <2>1, DivKeepsOrder
  <2>3. (good * (1000 - r)) \div 10 \in Int /\ (good * (1000 - q)) \div 10 \in Int
    BY <2>1, DivBounds
  <2>4. QED
    BY <1>1, <2>2, <2>3 DEF RatioPiecewise
<1>2. CASE q <= 1000 /\ r > 1000
  BY <1>2, RatioIs
<1>3. CASE q > 1000 /\ r > 1000
  <2>1. Log2[q] \in Nat /\ Log2[r] \in Nat /\ Log2[q] <= Log2[r]
    BY <1>3, Log2Range, Log2KeepsOrder
  <2>2. bad * Log2[q] <= bad * Log2[r] /\ bad * Log2[q] \in Int /\ bad * Log2[r] \in Int
    BY <2>1
  <2>3. (bad * Log2[q]) \div 10 <= (bad * Log2[r]) \div 10
    BY <2>2, DivKeepsOrder
  <2>4. (bad * Log2[q]) \div 10 \in Int /\ (bad * Log2[r]) \div 10 \in Int
    BY <2>2, DivBounds
  <2>5. QED
    BY <1>3, <2>3, <2>4 DEF RatioPiecewise
<1>4. QED
  BY <1>1, <1>2, <1>3

\* What a deviation from the target is worth, below it and above it.
Gain(a, t, base, good) == (good * (((t - a) * 1000) \div base)) \div 10
Loss(a, t, base, bad) == (bad * Log2[1000 + ((a - t) * 1000) \div base]) \div 10

LEMMA GainIs ==
  ASSUME NEW a \in Nat, NEW t \in Nat, a <= t, NEW base \in Nat \ {0}, NEW good \in Nat
  PROVE  /\ Gain(a, t, base, good) \in Nat
         /\ \A c \in Nat : c <= a => Gain(a, t, base, good) <= Gain(c, t, base, good)
<1> DEFINE q(c) == ((t - c) * 1000) \div base
<1>1. ASSUME NEW c \in Nat, c <= t PROVE q(c) \in Nat
  <2>1. (t - c) * 1000 \in Nat /\ 0 * base <= (t - c) * 1000
    BY <1>1
  <2>2. QED
    BY <2>1, DivAtLeast, DivBounds
<1>2. ASSUME NEW c \in Nat, c <= a PROVE q(a) <= q(c)
  <2>1. (t - a) * 1000 <= (t - c) * 1000 /\ (t - a) * 1000 \in Int /\ (t - c) * 1000 \in Int
    BY <1>2
  <2>2. QED
    BY <2>1, DivKeepsOrder
<1> HIDE DEF q
<1>3. ASSUME NEW c \in Nat, c <= t PROVE good * q(c) \in Nat /\ (good * q(c)) \div 10 \in Nat
  <2>1. good * q(c) \in Nat
    BY <1>1, <1>3
  <2>2. QED
    BY <2>1, DivAtLeast, DivBounds
<1>4. ASSUME NEW c \in Nat, c <= a PROVE (good * q(a)) \div 10 <= (good * q(c)) \div 10
  <2>1. good * q(a) <= good * q(c)
    <3>1. q(a) \in Nat /\ q(c) \in Nat /\ q(a) <= q(c)
      BY <1>1, <1>2, <1>4
    <3>2. QED
      BY <3>1
  <2>2. good * q(a) \in Nat /\ good * q(c) \in Nat
    BY <1>3, <1>4
  <2>3. QED
    BY <2>1, <2>2, DivKeepsOrder
<1>5. \A c : Gain(c, t, base, good) = (good * q(c)) \div 10
  BY DEF Gain, q
<1>6. QED
  BY <1>3, <1>4, <1>5

\* The logarithm is of a number from 1 on.
LEMMA LossIs ==
  ASSUME NEW a \in Nat, NEW t \in Nat, a > t, NEW base \in Nat \ {0}, NEW bad \in Nat
  PROVE  /\ Loss(a, t, base, bad) \in Nat
         /\ \A c \in Nat : c >= a => Loss(a, t, base, bad) <= Loss(c, t, base, bad)
<1> DEFINE q(c) == ((c - t) * 1000) \div base
           log(c) == Log2[1000 + q(c)]
<1>1. ASSUME NEW c \in Nat, c > t PROVE q(c) \in Nat
  <2>1. (c - t) * 1000 \in Nat /\ 0 * base <= (c - t) * 1000
    BY <1>1
  <2>2. QED
    BY <2>1, DivAtLeast, DivBounds
<1>2. ASSUME NEW c \in Nat, c >= a PROVE q(a) <= q(c)
  <2>1. (a - t) * 1000 <= (c - t) * 1000 /\ (a - t) * 1000 \in Int /\ (c - t) * 1000 \in Int
    BY <1>2
  <2>2. QED
    BY <2>1, DivKeepsOrder
<1> HIDE DEF q
<1>3. ASSUME NEW c \in Nat, c > t PROVE log(c) \in Nat
  <2>1. 1000 + q(c) \in Nat /\ 1000 + q(c) >= 1000
    BY <1>1, <1>3
  <2>2. QED
    BY <2>1, Log2Range
<1>4. ASSUME NEW c \in Nat, c >= a PROVE log(a) <= log(c)
  <2>1. q(a) \in Nat /\ q(c) \in Nat /\ q(a) <= q(c)
    BY <1>1, <1>2, <1>4
  <2>2. 1000 + q(c) \in Nat /\ 1000 + q(a) \in 0 .. 1000 + q(c)
    BY <2>1
  <2>3. QED
    BY <2>2, Log2KeepsOrder
<1> HIDE DEF log
<1>5. ASSUME NEW c \in Nat, c > t PROVE bad * log(c) \in Nat /\ (bad * log(c)) \div 10 \in Nat
  <2>1. bad * log(c) \in Nat
    BY <1>3, <1>5
  <2>2. QED
    BY <2>1, DivAtLeast, DivBounds
<1>6. ASSUME NEW c \in Nat, c >= a PROVE (bad * log(a)) \div 10 <= (bad * log(c)) \div 10
  <2>1. bad * log(a) <= bad * log(c)
    <3>1. log(a) \in Nat /\ log(c) \in Nat /\ log(a) <= log(c)
      BY <1>3, <1>4, <1>6
    <3>2. QED
      BY <3>1
  <2>2. bad * log(a) \in Nat /\ bad * log(c) \in Nat
    BY <1>5, <1>6
  <2>3. QED
    BY <2>1, <2>2, DivKeepsOrder
<1>7. \A c : Loss(c, t, base, bad) = (bad * log(c)) \div 10
  BY DEF Loss, log, q
<1>8. QED
  BY <1>5, <1>6, <1>7

LEMMA HybridOrder ==
  ASSUME NEW a \in Nat, NEW b \in Nat, a <= b, NEW t \in Nat, NEW floor \in Nat \ {0},
         NEW good \in Nat, NEW bad \in Nat
  PROVE  /\ Hybrid(a, t, floor, good, bad) \in Int
         /\ a <= t => Hybrid(a, t, floor, good, bad) >= 10000
         /\ Hybrid(a, t, floor, good, bad) >= Hybrid(b, t, floor, good, bad)
<1> DEFINE base == Larger(t, floor)
<1>1. base \in Nat \ {0}
  BY DEF Larger
<1>2. \A c : Hybrid(c, t, floor, good, bad) = IF c <= t THEN 10000 + Gain(c, t, base, good)
                                              ELSE 10000 - Loss(c, t, base, bad)
  BY DEF Hybrid, Gain, Loss
<1> HIDE DEF base
<1>3. CASE b <= t
  <2>1. /\ Gain(b, t, base, good) <= Gain(a, t, base, good)
        /\ Gain(a, t, base, good) \in Nat /\ Gain(b, t, base, good) \in Nat
    <3>1. a <= t
      BY <1>3
    <3>2. Gain(a, t, base, good) \in Nat
      BY <1>1, <3>1, GainIs
    <3>3. Gain(b, t, base, good) \in Nat /\ Gain(b, t, base, good) <= Gain(a, t, base, good)
      BY <1>1, <1>3, GainIs
    <3>4. QED
      BY <3>2, <3>3
  <2>2. QED
    BY <1>2, <1>3, <2>1
<1>4. CASE a <= t /\ b > t
  <2>1. Gain(a, t, base, good) \in Nat /\ Loss(b, t, base, bad) \in Nat
    BY <1>1, <1>4, GainIs, LossIs
  <2>2. QED
    BY <1>2, <1>4, <2>1
<1>5. CASE a > t
  <2>1. /\ Loss(a, t, base, bad) <= Loss(b, t, base, bad)
        /\ Loss(a, t, base, bad) \in Nat /\ Loss(b, t, base, bad) \in Nat
    <3>1. b > t
      BY <1>5
    <3>2. QED
      BY <1>1, <1>5, <3>1, LossIs
  <2>2. b > t
    BY <1>5
  <2>3. QED
    BY <1>2, <1>5, <2>1, <2>2
<1>6. QED
  BY <1>3, <1>4, <1>5

LEMMA LinearIs ==
  ASSUME NEW a \in Nat, NEW t \in Nat \ {0}
  PROVE  /\ LinearBonus(a, t) \in Nat /\ LinearBonus(a, t) <= 10500
         /\ a >= t => LinearBonus(a, t) = 10500
         /\ \A b \in Nat : a <= b => LinearBonus(a, t) <= LinearBonus(b, t)
<1>1. ASSUME NEW b \in Nat PROVE (b * 10500) \div t \in Nat
  <2>1. b * 10500 \in Nat /\ 0 * t <= b * 10500
    OBVIOUS
  <2>2. QED
    BY <2>1, DivAtLeast, DivBounds
<1>2. a >= t => 10500 <= (a * 10500) \div t
  <2>1. a >= t => 10500 * t <= a * 10500
    OBVIOUS
  <2>2. a * 10500 \in Int
    OBVIOUS
  <2>3. QED
    BY <2>1, <2>2, DivAtLeast
<1>3. ASSUME NEW b \in Nat, a <= b PROVE (a * 10500) \div t <= (b * 10500) \div t
  <2>1. a * 10500 <= b * 10500 /\ a * 10500 \in Int /\ b * 10500 \in Int
    BY <1>3
  <2>2. QED
    BY <2>1, DivKeepsOrder
<1>4. QED
  BY <1>1, <1>2, <1>3 DEF LinearBonus, Smaller

\* The score of a plan as a function of the deviation.
PlanCurve(dev) ==
  Capped(IF Abs(dev) <= 500 THEN 10000 + dev
         ELSE IF dev > 0 THEN 10500 + (500 * Log2[2 * dev]) \div 1000
         ELSE 9500 - (1000 * Log2[2 * Abs(dev)]) \div 1000)

LEMMA PlanCurveOrder ==
  ASSUME NEW d \in Int, NEW e \in Int, d <= e
  PROVE  /\ PlanCurve(d) \in Nat /\ PlanCurve(d) <= PlanCurve(e)
         /\ d >= 0 => PlanCurve(d) >= 10000
<1> DEFINE raw(x) == IF Abs(x) <= 500 THEN 10000 + x
                     ELSE IF x > 0 THEN 10500 + (500 * Log2[2 * x]) \div 1000
                     ELSE 9500 - (1000 * Log2[2 * Abs(x)]) \div 1000
<1>1. ASSUME NEW x \in Int, x > 500
      PROVE  /\ Log2[2 * x] \in Nat /\ (500 * Log2[2 * x]) \div 1000 \in Nat
             /\ raw(x) = 10500 + (500 * Log2[2 * x]) \div 1000
  <2>1. Log2[2 * x] \in Nat
    BY <1>1, Log2Range
  <2>2. (500 * Log2[2 * x]) \div 1000 \in Nat
    <3>1. 500 * Log2[2 * x] \in Nat
      BY <2>1
    <3>2. QED
      BY <3>1, DivAtLeast, DivBounds
  <2>3. QED
    BY <1>1, <2>1, <2>2 DEF Abs
<1>2. ASSUME NEW x \in Int, x < -500
      PROVE  /\ Log2[2 * (-x)] \in Nat /\ (1000 * Log2[2 * (-x)]) \div 1000 \in Nat
             /\ raw(x) = 9500 - (1000 * Log2[2 * (-x)]) \div 1000
  <2>1. Log2[2 * (-x)] \in Nat
    <3>1. 2 * (-x) \in Nat /\ 2 * (-x) >= 1000
      BY <1>2
    <3>2. QED
      BY <3>1, Log2Range
  <2>2. (1000 * Log2[2 * (-x)]) \div 1000 \in Nat
    <3>1. 1000 * Log2[2 * (-x)] \in Nat
      BY <2>1
    <3>2. QED
      BY <3>1, DivAtLeast, DivBounds
  <2>3. Abs(x) = -x /\ ~(Abs(x) <= 500) /\ ~(x > 0)
    BY <1>2 DEF Abs
  <2>4. QED
    BY <2>1, <2>2, <2>3
<1>3. ASSUME NEW x \in Int, x <= 500, x >= -500 PROVE raw(x) = 10000 + x
  BY <1>3 DEF Abs
<1> HIDE DEF raw
<1>4. raw(d) \in Int /\ raw(e) \in Int /\ (d >= 0 => raw(d) >= 10000)
  BY <1>1, <1>2, <1>3
<1>5. raw(d) <= raw(e)
  <2>1. CASE d > 500
    <3>1. e > 500 /\ 2 * e \in Nat /\ 2 * d \in 0 .. 2 * e
      BY <2>1
    <3>2. Log2[2 * d] <= Log2[2 * e] /\ Log2[2 * d] \in Nat /\ Log2[2 * e] \in Nat
      <4>1. Log2[2 * d] <= Log2[2 * e]
        BY <3>1, Log2KeepsOrder
      <4>2. QED
        <5>1. Log2[2 * d] \in Nat
          <6>1. 2 * d \in Nat /\ 2 * d >= 1000
            BY <2>1
          <6>2. QED
            BY <6>1, Log2Range
        <5>2. Log2[2 * e] \in Nat
          <6>1. 2 * e \in Nat /\ 2 * e >= 1000
            BY <3>1
          <6>2. QED
            BY <6>1, Log2Range
        <5>3. QED
          BY <4>1, <5>1, <5>2
    <3>3. /\ 500 * Log2[2 * d] <= 500 * Log2[2 * e]
          /\ 500 * Log2[2 * d] \in Int /\ 500 * Log2[2 * e] \in Int
      BY <3>2
    <3>4. (500 * Log2[2 * d]) \div 1000 <= (500 * Log2[2 * e]) \div 1000
      BY <3>3, DivKeepsOrder
    <3>5. QED
      BY <1>1, <2>1, <3>1, <3>4
  <2>2. CASE e < -500
    <3>1. d < -500 /\ 2 * (-d) \in Nat /\ 2 * (-e) \in 0 .. 2 * (-d)
      BY <2>2
    <3>2. Log2[2 * (-e)] <= Log2[2 * (-d)] /\ Log2[2 * (-d)] \in Nat /\ Log2[2 * (-e)] \in Nat
      <4>1. Log2[2 * (-e)] <= Log2[2 * (-d)]
        BY <3>1, Log2KeepsOrder
      <4>2. QED
        <5>1. Log2[2 * (-d)] \in Nat
          <6>1. 2 * (-d) \in Nat /\ 2 * (-d) >= 1000
            BY <3>1
          <6>2. QED
            BY <6>1, Log2Range
        <5>2. Log2[2 * (-e)] \in Nat
          BY <1>2, <2>2
        <5>3. QED
          BY <4>1, <5>1, <5>2
    <3>3. /\ 1000 * Log2[2 * (-e)] <= 1000 * Log2[2 * (-d)]
          /\ 1000 * Log2[2 * (-e)] \in Int /\ 1000 * Log2[2 * (-d)] \in Int
      BY <3>2
    <3>4. (1000 * Log2[2 * (-e)]) \div 1000 <= (1000 * Log2[2 * (-d)]) \div 1000
      BY <3>3, DivKeepsOrder
    <3>5. QED
      BY <1>2, <2>2, <3>1, <3>4
  <2>3. CASE d <= 500 /\ e >= -500
    <3>1. d < -500 => raw(d) <= 9500
      BY <1>2
    <3>2. e > 500 => raw(e) >= 10500
      BY <1>1
    <3>3. d >= -500 => raw(d) = 10000 + d
      BY <1>3, <2>3
    <3>4. e <= 500 => raw(e) = 10000 + e
      BY <1>3, <2>3
    <3>5. QED
      BY <1>4, <2>3, <3>1, <3>2, <3>3, <3>4
  <2>4. QED
    BY <2>1, <2>2, <2>3
<1>6. PlanCurve(d) = Capped(raw(d)) /\ PlanCurve(e) = Capped(raw(e))
  BY DEF PlanCurve, raw
<1>7. QED
  BY <1>4, <1>5, <1>6, CappedIs

LEMMA PlanAchievementOrder ==
  ASSUME NEW d \in Nat \ {0}, NEW n \in Int, NEW m \in Int, n <= m
  PROVE  /\ PlanAchievement(d, n) \in Nat /\ PlanAchievement(d, n) <= PlanAchievement(d, m)
         /\ n >= d => PlanAchievement(d, n) >= 10000
<1> DEFINE dev(x) == ((x - d) * 10000) \div d
<1>1. \A x \in Int : (x - d) * 10000 \in Int /\ dev(x) \in Int
  BY DivBounds
<1>2. dev(n) <= dev(m)
  <2>1. (n - d) * 10000 <= (m - d) * 10000
    OBVIOUS
  <2>2. QED
    BY <1>1, <2>1, DivKeepsOrder
<1>3. n >= d => dev(n) >= 0
  <2>1. n >= d => 0 * d <= (n - d) * 10000
    OBVIOUS
  <2>2. QED
    BY <1>1, <2>1, DivAtLeast
<1>4. \A x : PlanAchievement(d, x) = PlanCurve(dev(x))
  BY DEF PlanAchievement, PlanCurve
<1> HIDE DEF dev
<1>5. /\ PlanCurve(dev(n)) \in Nat /\ PlanCurve(dev(n)) <= PlanCurve(dev(m))
      /\ dev(n) >= 0 => PlanCurve(dev(n)) >= 10000
  BY <1>1, <1>2, PlanCurveOrder
<1>6. QED
  BY <1>3, <1>4, <1>5

\* The rules of the three KPIs of which less is better: k is one of them, a
\* target of 0 is not one of ISKARTA.
Fits(k, t) ==
  k \in {"GSF", "ISKARTA", "INKITA"} /\ t \in Nat /\ (k = "ISKARTA" => t # 0)

LEMMA LowerIsBetterScores ==
  ASSUME NEW k, NEW a \in Nat, NEW b \in Nat, a <= b, NEW t, Fits(k, t)
  PROVE  /\ calculate_custom_score(k, a, t) \in Nat
         /\ calculate_custom_score(k, a, t) >= calculate_custom_score(k, b, t)
         /\ a <= t => calculate_custom_score(k, a, t) >= 10000
<1> USE DEF Fits
<1>1. ASSUME NEW x \in Int, NEW y \in Int, x >= y, a <= t => x >= 10000,
             calculate_custom_score(k, a, t) = Capped(x),
             calculate_custom_score(k, b, t) = Capped(y)
      PROVE  /\ calculate_custom_score(k, a, t) \in Nat
             /\ calculate_custom_score(k, a, t) >= calculate_custom_score(k, b, t)
             /\ a <= t => calculate_custom_score(k, a, t) >= 10000
  <2>1. Capped(x) \in Nat /\ Capped(y) \in Nat /\ Capped(x) >= x /\ Capped(y) <= Capped(x)
    BY <1>1, CappedIs
  <2>2. QED
    BY <1>1, <2>1
<1>2. CASE k = "GSF"
  <2>1. \A c : calculate_custom_score(k, c, t) = Capped(Hybrid(c, t, 5, 10, 16))
    BY <1>2 DEF calculate_custom_score
  <2>2. /\ Hybrid(a, t, 5, 10, 16) \in Int /\ Hybrid(b, t, 5, 10, 16) \in Int
        /\ a <= t => Hybrid(a, t, 5, 10, 16) >= 10000
        /\ Hybrid(a, t, 5, 10, 16) >= Hybrid(b, t, 5, 10, 16)
    BY HybridOrder
  <2>3. QED
    BY <1>1, <2>1, <2>2
<1>3. CASE k = "INKITA"
  <2>1. \A c : calculate_custom_score(k, c, t) = Capped(Hybrid(c, t, 50, 6, 10))
    BY <1>3 DEF calculate_custom_score
  <2>2. /\ Hybrid(a, t, 50, 6, 10) \in Int /\ Hybrid(b, t, 50, 6, 10) \in Int
        /\ a <= t => Hybrid(a, t, 50, 6, 10) >= 10000
        /\ Hybrid(a, t, 50, 6, 10) >= Hybrid(b, t, 50, 6, 10)
    BY HybridOrder
  <2>3. QED
    BY <1>1, <2>1, <2>2
<1>4. CASE k = "ISKARTA"
  <2> DEFINE q(c) == (c * 1000) \div t
  <2>1. \A c : calculate_custom_score(k, c, t) = Capped(RatioPiecewise(q(c), 12, 12))
    BY <1>4 DEF calculate_custom_score
  <2>2. t \in Nat \ {0}
    BY <1>4
  <2>3. \A c \in Nat : c * 1000 \in Nat /\ 0 * t <= c * 1000
    OBVIOUS
  <2>4. \A c \in Nat : q(c) \in Nat
    BY <2>2, <2>3, DivAtLeast, DivBounds
  <2>5. q(a) <= q(b)
    <3>1. a * 1000 <= b * 1000
      OBVIOUS
    <3>2. QED
      BY <2>2, <2>3, <3>1, DivKeepsOrder
  <2>6. a <= t => q(a) <= 1000
    <3>1. a <= t => a * 1000 <= 1000 * t
      OBVIOUS
    <3>2. QED
      BY <2>2, <2>3, <3>1, DivAtMost
  <2> HIDE DEF q
  <2>7. /\ RatioPiecewise(q(a), 12, 12) \in Int /\ RatioPiecewise(q(b), 12, 12) \in Int
        /\ a <= t => RatioPiecewise(q(a), 12, 12) >= 10000
        /\ RatioPiecewise(q(a), 12, 12) >= RatioPiecewise(q(b), 12, 12)
    <3>1. q(a) \in Nat /\ q(b) \in Nat
      BY <2>4
    <3>2. RatioPiecewise(q(a), 12, 12) \in Int
      BY <3>1, RatioIs
    <3>3. RatioPiecewise(q(b), 12, 12) \in Int
      BY <3>1, RatioIs
    <3>4. RatioPiecewise(q(a), 12, 12) >= RatioPiecewise(q(b), 12, 12)
      BY <2>5, <3>1, RatioOrder
    <3>5. ASSUME q(a) <= 1000 PROVE RatioPiecewise(q(a), 12, 12) >= 10000
      BY <3>1, <3>5, RatioIs
    <3>6. QED
      BY <2>6, <3>2, <3>3, <3>4, <3>5
  <2>8. QED
    BY <1>1, <2>1, <2>7
<1>5. QED
  BY <1>2, <1>3, <1>4

LEMMA OeeScores ==
  ASSUME NEW a \in Nat, NEW b \in Nat, a <= b, NEW t \in Nat \ {0}
  PROVE  /\ calculate_custom_score("OEE", a, t) \in Nat
         /\ calculate_custom_score("OEE", a, t) <= 10500
         /\ calculate_custom_score("OEE", a, t) <= calculate_custom_score("OEE", b, t)
         /\ a >= t => calculate_custom_score("OEE", a, t) = 10500
<1>1. \A c \in Nat : calculate_custom_score("OEE", c, t) = LinearBonus(c, t)
  <2>1. \A c : calculate_custom_score("OEE", c, t) = Capped(LinearBonus(c, t))
    BY DEF calculate_custom_score
  <2>2. \A c \in Nat : LinearBonus(c, t) \in Nat
    BY LinearIs
  <2>3. \A n \in Nat : Capped(n) = n
    BY DEF Capped, Larger
  <2>4. QED
    BY <2>1, <2>2, <2>3
<1>2. LinearBonus(a, t) \in Nat /\ LinearBonus(a, t) <= 10500
  BY LinearIs
<1>3. LinearBonus(a, t) <= LinearBonus(b, t)
  BY LinearIs
<1>4. a >= t => LinearBonus(a, t) = 10500
  BY LinearIs
<1>5. /\ calculate_custom_score("OEE", a, t) = LinearBonus(a, t)
      /\ calculate_custom_score("OEE", b, t) = LinearBonus(b, t)
  BY <1>1
<1>6. QED
  BY <1>2, <1>3, <1>4, <1>5

-----------------------------------------------------------------------------
(* Sums and means of records.                                              *)

LEMMA SumIs == \A f, S : SumOf(f, S) = Total(f, S)
  BY DEF SumOf, MapThenSumSet, MapThenFoldSet, Total, Adds, Chosen

LEMMA TotalTimes ==
  ASSUME NEW S, IsFiniteSet(S), NEW c \in Nat, NEW f, NEW h,
         \A x \in S : f[x] \in Nat /\ h[x] = c * f[x]
  PROVE  Total(h, S) = c * Total(f, S)
<1> DEFINE Bad == {T \in SUBSET S : ~(Total(h, T) = c * Total(f, T))}
<1>1. SUFFICES ASSUME Bad # {} PROVE FALSE
  OBVIOUS
<1>2. PICK X \in Bad : \A Y \in Bad : Y \subseteq X => Y = X
  <2> HIDE DEF Bad
  <2>1. Bad \subseteq SUBSET S
    BY DEF Bad
  <2>2. QED
    BY <2>1, <1>1, SmallestSet
<1>3. IsFiniteSet(X) /\ \A Y \in SUBSET X : IsFiniteSet(Y)
  BY FS_Subset
<1>4. X # {}
  <2>1. Total(h, {}) = 0 /\ Total(f, {}) = 0 /\ c * 0 = 0
    BY TotalEmpty
  <2>2. QED
    BY <2>1
<1>5. PICK y \in X : TRUE
  BY <1>4
<1>6. Total(h, X \ {y}) = c * Total(f, X \ {y})
  BY <1>2
<1>7. \A x \in S : f[x] \in Nat /\ h[x] \in Nat
  OBVIOUS
<1>8. /\ Total(f, X) = f[y] + Total(f, X \ {y})
      /\ Total(h, X) = h[y] + Total(h, X \ {y})
  BY <1>3, <1>7, TotalAny
<1>9. Total(f, X \ {y}) \in Nat /\ f[y] \in Nat /\ h[y] = c * f[y]
  BY TotalNat
<1>10. c * (f[y] + Total(f, X \ {y})) = c * f[y] + c * Total(f, X \ {y})
  BY <1>9
<1>11. QED
  BY <1>6, <1>8, <1>9, <1>10

\* Means, weighted by w, are in order when what they are means of is; and they
\* are not on the other side of a number on whose one side everything is.
LEMMA MeanOrder ==
  ASSUME NEW S, IsFiniteSet(S), S # {}, NEW w, \A x \in S : w[x] \in Nat \ {0}, NEW f, NEW h,
         \A x \in S : f[x] \in Nat /\ h[x] \in Nat /\ f[x] <= h[x]
  PROVE  /\ SumOf(w, S) \in Nat \ {0}
         /\ SumOf(f, S) \div SumOf(w, S) \in Nat
         /\ SumOf(f, S) \div SumOf(w, S) <= SumOf(h, S) \div SumOf(w, S)
<1>1. SumOf(w, S) \in Nat \ {0}
  BY SumIs, TotalPositive
<1>2. SumOf(f, S) \in Nat /\ SumOf(h, S) \in Nat /\ SumOf(f, S) <= SumOf(h, S)
  BY SumIs, TotalOrder
<1>3. 0 * SumOf(w, S) <= SumOf(f, S)
  BY <1>1, <1>2
<1>4. QED
  BY <1>1, <1>2, <1>3, DivKeepsOrder, DivAtLeast, DivBounds

LEMMA MeanLimits ==
  ASSUME NEW S, IsFiniteSet(S), S # {}, NEW w, \A x \in S : w[x] \in Nat \ {0}, NEW f,
         \A x \in S : f[x] \in Nat, NEW c \in Nat
  PROVE  /\ (\A x \in S : f[x] >= c * w[x]) => SumOf(f, S) \div SumOf(w, S) >= c
         /\ (\A x \in S : f[x] <= c * w[x]) => SumOf(f, S) \div SumOf(w, S) <= c
<1> DEFINE h == [x \in S |-> c * w[x]]
<1>1. \A x \in S : w[x] \in Nat /\ h[x] = c * w[x] /\ h[x] \in Nat
  OBVIOUS
<1>2. \A x \in S : h[x] = c * w[x]
  OBVIOUS
<1> HIDE DEF h
<1>3. Total(h, S) = c * Total(w, S)
  BY <1>1, TotalTimes
<1>4. Total(w, S) \in Nat \ {0} /\ Total(f, S) \in Nat
  BY TotalPositive, TotalNat
<1>5. ASSUME \A x \in S : f[x] >= c * w[x] PROVE Total(f, S) \div Total(w, S) >= c
  <2>1. \A x \in S : h[x] <= f[x]
    BY <1>1, <1>5
  <2>2. Total(h, S) <= Total(f, S)
    BY <1>1, <2>1, TotalOrder
  <2>3. QED
    BY <1>3, <1>4, <2>2, DivAtLeast
<1>6. ASSUME \A x \in S : f[x] <= c * w[x] PROVE Total(f, S) \div Total(w, S) <= c
  <2>1. \A x \in S : f[x] <= h[x]
    BY <1>1, <1>6
  <2>2. Total(f, S) <= Total(h, S)
    BY <1>1, <2>1, TotalOrder
  <2>3. QED
    BY <1>3, <1>4, <2>2, DivAtMost
<1>7. QED
  BY <1>5, <1>6, SumIs

-----------------------------------------------------------------------------
(* Scores of a period.                                                     *)

LEMMA ActualIsMean ==
  ASSUME NEW S, IsFiniteSet(S), NEW rec, \A c \in S : rec[c].num \in Nat
  PROVE  PeriodActual(rec, S) = SumOf([c \in S |-> rec[c].num * 10000], S)
                                  \div SumOf([c \in S |-> rec[c].den], S)
<1> DEFINE f == [c \in S |-> rec[c].num]
           h == [c \in S |-> rec[c].num * 10000]
<1>1. \A c \in S : f[c] \in Nat /\ h[c] = 10000 * f[c]
  OBVIOUS
<1>2. PeriodActual(rec, S) = (SumOf(f, S) * 10000) \div SumOf([c \in S |-> rec[c].den], S)
  BY DEF PeriodActual, NumSum, DenSum
<1> HIDE DEF f, h
<1>3. Total(h, S) = 10000 * Total(f, S)
  BY <1>1, TotalTimes
<1>4. Total(f, S) \in Nat
  BY <1>1, TotalNat
<1>5. SumOf(f, S) * 10000 = SumOf(h, S)
  BY <1>3, <1>4, SumIs
<1>6. SumOf(h, S) = SumOf([c \in S |-> rec[c].num * 10000], S)
  BY DEF h
<1>7. QED
  BY <1>2, <1>5, <1>6

\* One period with less and one with more of the same records.
LessAndMore(less, more, S) ==
  \A c \in S : /\ less[c].num \in Nat /\ more[c].num \in Nat /\ less[c].num <= more[c].num
               /\ less[c].den \in Nat \ {0} /\ less[c].target \in Nat
               /\ more[c].den = less[c].den /\ more[c].target = less[c].target

\* What was done and what was to be done in them.
LEMMA PeriodOrder ==
  ASSUME NEW S, IsFiniteSet(S), S # {}, NEW less, NEW more, LessAndMore(less, more, S)
  PROVE  /\ PeriodActual(less, S) \in Nat /\ PeriodActual(more, S) \in Nat
         /\ PeriodActual(less, S) <= PeriodActual(more, S)
         /\ PeriodTarget(less, S) \in Nat /\ PeriodTarget(more, S) = PeriodTarget(less, S)
         /\ (\A c \in S : less[c].target # 0) => PeriodTarget(less, S) # 0
         /\ (\A c \in S : less[c].num * 10000 <= less[c].target * less[c].den) =>
              PeriodActual(less, S) <= PeriodTarget(less, S)
         /\ (\A c \in S : more[c].num * 10000 >= more[c].target * more[c].den) =>
              PeriodActual(more, S) >= PeriodTarget(more, S)
<1> USE DEF LessAndMore
<1> DEFINE w == [c \in S |-> less[c].den]
           f == [c \in S |-> less[c].num * 10000]
           h == [c \in S |-> more[c].num * 10000]
           e == [c \in S |-> less[c].den * less[c].target]
<1>1. /\ [c \in S |-> more[c].den] = w
      /\ [c \in S |-> more[c].den * more[c].target] = e
  OBVIOUS
<1>2. /\ PeriodActual(less, S) = SumOf(f, S) \div SumOf(w, S)
      /\ PeriodActual(more, S) = SumOf(h, S) \div SumOf(w, S)
  <2>1. \A c \in S : less[c].num \in Nat /\ more[c].num \in Nat
    OBVIOUS
  <2> HIDE DEF w, f, h
  <2>2. PeriodActual(less, S) = SumOf(f, S) \div SumOf(w, S)
    BY <2>1, ActualIsMean DEF w, f
  <2>3. PeriodActual(more, S) = SumOf(h, S) \div SumOf([c \in S |-> more[c].den], S)
    BY <2>1, ActualIsMean DEF h
  <2>4. QED
    BY <1>1, <2>2, <2>3
<1>3. /\ PeriodTarget(less, S) = SumOf(e, S) \div SumOf(w, S)
      /\ PeriodTarget(more, S) = SumOf(e, S) \div SumOf(w, S)
  <2>1. PeriodTarget(less, S) = SumOf(e, S) \div SumOf(w, S)
    BY DEF PeriodTarget, ExpectedSum, DenSum
  <2>2. PeriodTarget(more, S) = SumOf([c \in S |-> more[c].den * more[c].target], S)
                                  \div SumOf([c \in S |-> more[c].den], S)
    BY DEF PeriodTarget, ExpectedSum, DenSum
  <2>3. QED
    BY <1>1, <2>1, <2>2
<1>4. \A c \in S : w[c] \in Nat \ {0}
  OBVIOUS
<1>5. \A c \in S : /\ f[c] \in Nat /\ h[c] \in Nat /\ f[c] <= h[c]
                   /\ e[c] \in Nat
  OBVIOUS
<1>6. (\A c \in S : less[c].target # 0) => \A c \in S : e[c] >= 1 * w[c]
  OBVIOUS
<1>7. (\A c \in S : less[c].num * 10000 <= less[c].target * less[c].den) => \A c \in S : f[c] <= e[c]
  OBVIOUS
<1>8. (\A c \in S : more[c].num * 10000 >= more[c].target * more[c].den) => \A c \in S : e[c] <= h[c]
  OBVIOUS
<1> HIDE DEF w, f, h, e
<1>9. /\ SumOf(f, S) \div SumOf(w, S) \in Nat
      /\ SumOf(f, S) \div SumOf(w, S) <= SumOf(h, S) \div SumOf(w, S)
  BY <1>4, <1>5, MeanOrder
<1>10. SumOf(h, S) \div SumOf(w, S) \in Nat /\ SumOf(e, S) \div SumOf(w, S) \in Nat
  <2>1. \A c \in S : h[c] <= h[c] /\ e[c] <= e[c]
    BY <1>5
  <2>2. SumOf(h, S) \div SumOf(w, S) \in Nat
    BY <1>4, <1>5, <2>1, MeanOrder
  <2>3. SumOf(e, S) \div SumOf(w, S) \in Nat
    BY <1>4, <1>5, <2>1, MeanOrder
  <2>4. QED
    BY <2>2, <2>3
<1>11. (\A c \in S : e[c] >= 1 * w[c]) => SumOf(e, S) \div SumOf(w, S) >= 1
  BY <1>4, <1>5, MeanLimits
<1>12. (\A c \in S : f[c] <= e[c]) => SumOf(f, S) \div SumOf(w, S) <= SumOf(e, S) \div SumOf(w, S)
  BY <1>4, <1>5, MeanOrder
<1>13. (\A c \in S : e[c] <= h[c]) => SumOf(e, S) \div SumOf(w, S) <= SumOf(h, S) \div SumOf(w, S)
  BY <1>4, <1>5, MeanOrder
<1>14. (\A c \in S : less[c].target # 0) => SumOf(e, S) \div SumOf(w, S) # 0
  BY <1>6, <1>10, <1>11
<1>15. (\A c \in S : less[c].num * 10000 <= less[c].target * less[c].den) =>
         SumOf(f, S) \div SumOf(w, S) <= SumOf(e, S) \div SumOf(w, S)
  BY <1>7, <1>12
<1>16. (\A c \in S : more[c].num * 10000 >= more[c].target * more[c].den) =>
         SumOf(e, S) \div SumOf(w, S) <= SumOf(h, S) \div SumOf(w, S)
  BY <1>8, <1>13
<1> DEFINE x == SumOf(f, S) \div SumOf(w, S)
           y == SumOf(h, S) \div SumOf(w, S)
           z == SumOf(e, S) \div SumOf(w, S)
<1>17. x \in Nat /\ y \in Nat /\ z \in Nat /\ x <= y
  BY <1>9, <1>10
<1>18. /\ PeriodActual(less, S) = x /\ PeriodActual(more, S) = y
       /\ PeriodTarget(less, S) = z /\ PeriodTarget(more, S) = z
  BY <1>2, <1>3
<1>19. /\ (\A c \in S : less[c].target # 0) => z # 0
       /\ (\A c \in S : less[c].num * 10000 <= less[c].target * less[c].den) => x <= z
       /\ (\A c \in S : more[c].num * 10000 >= more[c].target * more[c].den) => z <= y
  BY <1>14, <1>15, <1>16
<1> HIDE DEF x, y, z
<1>20. QED
  BY <1>17, <1>18, <1>19

\* The ratio of AGIR_GITME: less deviation, less of it.
LEMMA HeavyOrder ==
  ASSUME NEW S, IsFiniteSet(S), S # {}, NEW old, NEW new,
         \A c \in S : /\ IsReading("AGIR_GITME", old[c]) /\ IsReading("AGIR_GITME", new[c])
                      /\ NoWorse("AGIR_GITME", old[c], new[c])
  PROVE  /\ HeavyRatio(old, S) \in Nat /\ HeavyRatio(new, S) \in Nat
         /\ HeavyRatio(new, S) <= HeavyRatio(old, S)
         /\ (\A c \in S : OnTarget("AGIR_GITME", new[c])) => HeavyRatio(new, S) <= 1000
<1> DEFINE w == [c \in S |-> new[c].den]
           f == [c \in S |-> (Abs(new[c].num) * 10000000) \div new[c].target]
           h == [c \in S |-> (Abs(old[c].num) * 10000000) \div old[c].target]
<1>1. \A c \in S : /\ Abs(new[c].num) \in Nat /\ Abs(old[c].num) \in Nat
                   /\ Abs(new[c].num) <= Abs(old[c].num)
                   /\ new[c].target \in Nat \ {0} /\ old[c].target = new[c].target
                   /\ new[c].den \in Nat \ {0} /\ old[c].den = new[c].den
  BY AbsIs DEF IsReading, NoWorse, LowerIsBetter
<1>2. ASSUME NEW c \in S PROVE f[c] \in Nat /\ h[c] \in Nat /\ f[c] <= h[c]
  <2> DEFINE a == Abs(new[c].num) * 10000000
             b == Abs(old[c].num) * 10000000
             t == new[c].target
  <2>1. a \in Nat /\ b \in Nat /\ a <= b /\ t \in Nat \ {0} /\ 0 * t <= a /\ 0 * t <= b
    BY <1>1
  <2>2. f[c] = a \div t /\ h[c] = b \div t
    BY <1>1
  <2> HIDE DEF a, b, t, f, h
  <2>3. a \div t \in Nat
    BY <2>1, DivAtLeast, DivBounds
  <2>4. b \div t \in Nat
    BY <2>1, DivAtLeast, DivBounds
  <2>5. a \div t <= b \div t
    BY <2>1, DivKeepsOrder
  <2>6. QED
    BY <2>2, <2>3, <2>4, <2>5
<1>3. ASSUME NEW c \in S, OnTarget("AGIR_GITME", new[c]) PROVE f[c] <= 1000 * w[c]
  <2> DEFINE a == Abs(new[c].num)
             t == new[c].target
             d == new[c].den
  <2>1. a * 10000 <= t * d
    BY <1>3 DEF OnTarget
  <2>2. a \in Nat /\ t \in Nat \ {0} /\ d \in Nat \ {0}
    BY <1>1
  <2>3. f[c] = (a * 10000000) \div t /\ w[c] = d
    OBVIOUS
  <2> HIDE DEF a, t, d, f, w
  <2>4. a * 10000000 <= (1000 * d) * t
    BY <2>1, <2>2
  <2>5. a * 10000000 \in Int /\ 1000 * d \in Int
    BY <2>2
  <2>6. (a * 10000000) \div t <= 1000 * d
    BY <2>2, <2>4, <2>5, DivAtMost
  <2>7. QED
    BY <2>3, <2>6
<1>4. \A c \in S : w[c] \in Nat \ {0}
  BY <1>1
<1>5. HeavyRatio(new, S) = SumOf(f, S) \div SumOf(w, S)
  BY DEF HeavyRatio, DenSum
<1>6. HeavyRatio(old, S) = SumOf(h, S) \div SumOf(w, S)
  <2>1. [c \in S |-> old[c].den] = w
    BY <1>1
  <2>2. HeavyRatio(old, S) = SumOf(h, S) \div SumOf([c \in S |-> old[c].den], S)
    BY DEF HeavyRatio, DenSum
  <2>3. QED
    BY <2>1, <2>2
<1> HIDE DEF w, f, h
<1>7. /\ SumOf(f, S) \div SumOf(w, S) \in Nat
      /\ SumOf(f, S) \div SumOf(w, S) <= SumOf(h, S) \div SumOf(w, S)
  BY <1>2, <1>4, MeanOrder
<1>8. SumOf(h, S) \div SumOf(w, S) \in Nat
  <2>1. \A c \in S : h[c] <= h[c]
    BY <1>2
  <2>2. QED
    BY <1>2, <1>4, <2>1, MeanOrder
<1>9. (\A c \in S : f[c] <= 1000 * w[c]) => SumOf(f, S) \div SumOf(w, S) <= 1000
  BY <1>2, <1>4, MeanLimits
<1>10. QED
  BY <1>3, <1>5, <1>6, <1>7, <1>8, <1>9

\* The score of PLANA_UYUM: the more is done of what is planned, the more.
LEMMA PlanOrder ==
  ASSUME NEW S, IsFiniteSet(S), S # {}, NEW old, NEW new,
         \A c \in S : /\ IsReading("PLANA_UYUM", old[c]) /\ IsReading("PLANA_UYUM", new[c])
                      /\ NoWorse("PLANA_UYUM", old[c], new[c])
  PROVE  /\ PlanScore(old, S) \in Nat /\ PlanScore(new, S) \in Nat
         /\ PlanScore(old, S) <= PlanScore(new, S)
         /\ (\A c \in S : OnTarget("PLANA_UYUM", new[c])) => PlanScore(new, S) >= 10000
<1> DEFINE w == [c \in S |-> new[c].den]
           f == [c \in S |-> PlanAchievement(old[c].den, old[c].num) * old[c].den]
           h == [c \in S |-> PlanAchievement(new[c].den, new[c].num) * new[c].den]
<1>1. \A c \in S : /\ old[c].num \in Nat /\ new[c].num \in Nat /\ old[c].num <= new[c].num
                   /\ new[c].den \in Nat \ {0} /\ old[c].den = new[c].den
  BY DEF IsReading, NoWorse, LowerIsBetter
<1>2. ASSUME NEW c \in S
      PROVE  /\ f[c] \in Nat /\ h[c] \in Nat /\ f[c] <= h[c]
             /\ OnTarget("PLANA_UYUM", new[c]) => h[c] >= 10000 * w[c]
  <2> DEFINE d == new[c].den
             a == PlanAchievement(d, old[c].num)
             b == PlanAchievement(d, new[c].num)
  <2>1. d \in Nat \ {0} /\ old[c].num \in Int /\ new[c].num \in Int /\ old[c].num <= new[c].num
    BY <1>1
  <2>2. f[c] = a * d /\ h[c] = b * d /\ w[c] = d
    BY <1>1
  <2>3. OnTarget("PLANA_UYUM", new[c]) => new[c].num >= d
    BY DEF OnTarget
  <2> HIDE DEF d, f, h, w
  <2>4. a \in Nat /\ a <= b
    BY <2>1, PlanAchievementOrder
  <2>5. b \in Nat /\ (new[c].num >= d => b >= 10000)
    BY <2>1, PlanAchievementOrder
  <2> HIDE DEF a, b
  <2>6. a * d \in Nat /\ b * d \in Nat /\ a * d <= b * d
    BY <2>1, <2>4, <2>5
  <2>7. b >= 10000 => b * d >= 10000 * d
    BY <2>1, <2>5
  <2>8. QED
    BY <2>2, <2>3, <2>5, <2>6, <2>7
<1>3. \A c \in S : w[c] \in Nat \ {0}
  BY <1>1
<1>4. PlanScore(new, S) = SumOf(h, S) \div SumOf(w, S)
  BY DEF PlanScore, DenSum
<1>5. PlanScore(old, S) = SumOf(f, S) \div SumOf(w, S)
  <2>1. [c \in S |-> old[c].den] = w
    BY <1>1
  <2>2. PlanScore(old, S) = SumOf(f, S) \div SumOf([c \in S |-> old[c].den], S)
    BY DEF PlanScore, DenSum
  <2>3. QED
    BY <2>1, <2>2
<1> HIDE DEF w, f, h
<1>6. /\ SumOf(f, S) \div SumOf(w, S) \in Nat
      /\ SumOf(f, S) \div SumOf(w, S) <= SumOf(h, S) \div SumOf(w, S)
  <2>1. \A c \in S : f[c] \in Nat /\ h[c] \in Nat /\ f[c] <= h[c]
    BY <1>2
  <2>2. QED
    BY <1>3, <2>1, MeanOrder
<1>7. SumOf(h, S) \div SumOf(w, S) \in Nat
  <2>1. \A c \in S : h[c] <= h[c]
    BY <1>2
  <2>2. QED
    BY <1>2, <1>3, <2>1, MeanOrder
<1>8. (\A c \in S : h[c] >= 10000 * w[c]) => SumOf(h, S) \div SumOf(w, S) >= 10000
  BY <1>2, <1>3, MeanLimits
<1>9. QED
  BY <1>2, <1>4, <1>5, <1>6, <1>7, <1>8

\* All that is said about the scores of two periods of which the second is no
\* worse than the first.
AreReadings(k, rec, S) == \A c \in S : IsReading(k, rec[c])
NoneWorse(k, old, new, S) == \A c \in S : NoWorse(k, old[c], new[c])
AllOnTarget(k, rec, S) == \A c \in S : OnTarget(k, rec[c])

LEMMA PeriodScores ==
  ASSUME NEW S, IsFiniteSet(S), S # {}, NEW k \in Kpis, NEW old, NEW new,
         AreReadings(k, old, S), AreReadings(k, new, S), NoneWorse(k, old, new, S)
  PROVE  /\ PeriodScore(old, k, S) \in Nat /\ PeriodScore(new, k, S) \in Nat
         /\ PeriodScore(old, k, S) <= PeriodScore(new, k, S)
         /\ AllOnTarget(k, new, S) => PeriodScore(new, k, S) >= 10000
         /\ k = "OEE" => PeriodScore(new, k, S) <= 10500
<1>1. CASE k = "AGIR_GITME"
  <2> DEFINE q == HeavyRatio(new, S)
             r == HeavyRatio(old, S)
  <2>1. /\ q \in Nat /\ r \in Nat /\ q <= r
        /\ AllOnTarget(k, new, S) => q <= 1000
    BY <1>1, HeavyOrder DEF AreReadings, NoneWorse, AllOnTarget
  <2>2. /\ PeriodScore(new, k, S) = Capped(RatioPiecewise(q, 9, 12))
        /\ PeriodScore(old, k, S) = Capped(RatioPiecewise(r, 9, 12))
    BY <1>1 DEF PeriodScore
  <2> HIDE DEF q, r
  <2> DEFINE x == RatioPiecewise(q, 9, 12)
             y == RatioPiecewise(r, 9, 12)
  <2>3. x \in Int
    BY <2>1, RatioIs
  <2>4. y \in Int
    BY <2>1, RatioIs
  <2>5. x >= y
    BY <2>1, RatioOrder
  <2>6. ASSUME q <= 1000 PROVE x >= 10000
    BY <2>1, <2>6, RatioIs
  <2> HIDE DEF x, y
  <2>7. Capped(x) \in Nat /\ Capped(x) >= x /\ Capped(y) <= Capped(x)
    BY <2>3, <2>4, <2>5, CappedIs
  <2>8. Capped(y) \in Nat
    BY <2>4, CappedIs
  <2>9. /\ PeriodScore(new, k, S) = Capped(x)
        /\ PeriodScore(old, k, S) = Capped(y)
    BY <2>2 DEF x, y
  <2>10. QED
    BY <1>1, <2>1, <2>3, <2>6, <2>7, <2>8, <2>9
<1>2. CASE k = "PLANA_UYUM"
  <2>1. PeriodScore(new, k, S) = PlanScore(new, S) /\ PeriodScore(old, k, S) = PlanScore(old, S)
    BY <1>2 DEF PeriodScore
  <2>2. QED
    BY <1>2, <2>1, PlanOrder DEF AreReadings, NoneWorse, AllOnTarget
<1>3. CASE k \in {"GSF", "ISKARTA", "INKITA"}
  <2> DEFINE a == PeriodActual(new, S)
             b == PeriodActual(old, S)
             t == PeriodTarget(new, S)
  <2>1. LessAndMore(new, old, S)
    BY <1>3 DEF LessAndMore, AreReadings, NoneWorse, IsReading, NoWorse, LowerIsBetter, Abs
  <2>2. /\ a \in Nat /\ b \in Nat /\ a <= b /\ t \in Nat /\ PeriodTarget(old, S) = t
        /\ (\A c \in S : new[c].target # 0) => t # 0
        /\ (\A c \in S : new[c].num * 10000 <= new[c].target * new[c].den) => a <= t
    <3>1. /\ PeriodActual(new, S) \in Nat /\ PeriodActual(old, S) \in Nat
          /\ PeriodActual(new, S) <= PeriodActual(old, S)
          /\ PeriodTarget(new, S) \in Nat /\ PeriodTarget(old, S) = PeriodTarget(new, S)
          /\ (\A c \in S : new[c].target # 0) => PeriodTarget(new, S) # 0
          /\ (\A c \in S : new[c].num * 10000 <= new[c].target * new[c].den) =>
               PeriodActual(new, S) <= PeriodTarget(new, S)
          /\ (\A c \in S : old[c].num * 10000 >= old[c].target * old[c].den) =>
               PeriodActual(old, S) >= PeriodTarget(old, S)
      BY <2>1, PeriodOrder
    <3>2. QED
      BY <3>1
  <2>3. ASSUME AllOnTarget(k, new, S), NEW c \in S
        PROVE  new[c].num * 10000 <= new[c].target * new[c].den
    <3>1. OnTarget(k, new[c])
      BY <2>3 DEF AllOnTarget
    <3>2. QED
      <4>1. CASE k = "GSF"
        BY <3>1, <4>1 DEF OnTarget
      <4>2. CASE k = "ISKARTA"
        BY <3>1, <4>2 DEF OnTarget
      <4>3. CASE k = "INKITA"
        BY <3>1, <4>3 DEF OnTarget
      <4>4. QED
        BY <1>3, <4>1, <4>2, <4>3
  <2>4. /\ PeriodScore(new, k, S) = calculate_custom_score(k, a, t)
        /\ PeriodScore(old, k, S) = calculate_custom_score(k, b, PeriodTarget(old, S))
    BY <1>3 DEF PeriodScore
  <2> HIDE DEF a, b, t
  <2>5. Fits(k, t)
    <3>1. k = "ISKARTA" => \A c \in S : new[c].target # 0
      BY DEF AreReadings, IsReading
    <3>2. QED
      BY <1>3, <2>2, <3>1 DEF Fits
  <2>6. /\ calculate_custom_score(k, a, t) \in Nat
        /\ calculate_custom_score(k, a, t) >= calculate_custom_score(k, b, t)
        /\ a <= t => calculate_custom_score(k, a, t) >= 10000
    BY <2>2, <2>5, LowerIsBetterScores
  <2>7. calculate_custom_score(k, b, t) \in Nat
    <3>1. b <= b
      BY <2>2
    <3>2. QED
      BY <2>2, <2>5, <3>1, LowerIsBetterScores
  <2>8. QED
    BY <1>3, <2>2, <2>3, <2>4, <2>6, <2>7
<1>4. CASE k = "OEE"
  <2> DEFINE a == PeriodActual(old, S)
             b == PeriodActual(new, S)
             t == PeriodTarget(old, S)
  <2>1. LessAndMore(old, new, S)
    BY <1>4 DEF LessAndMore, AreReadings, NoneWorse, IsReading, NoWorse, LowerIsBetter
  <2>2. /\ a \in Nat /\ b \in Nat /\ a <= b /\ t \in Nat /\ PeriodTarget(new, S) = t
        /\ (\A c \in S : old[c].target # 0) => t # 0
        /\ (\A c \in S : new[c].num * 10000 >= new[c].target * new[c].den) => b >= t
    <3>1. /\ PeriodActual(old, S) \in Nat /\ PeriodActual(new, S) \in Nat
          /\ PeriodActual(old, S) <= PeriodActual(new, S)
          /\ PeriodTarget(old, S) \in Nat /\ PeriodTarget(new, S) = PeriodTarget(old, S)
          /\ (\A c \in S : old[c].target # 0) => PeriodTarget(old, S) # 0
          /\ (\A c \in S : old[c].num * 10000 <= old[c].target * old[c].den) =>
               PeriodActual(old, S) <= PeriodTarget(old, S)
          /\ (\A c \in S : new[c].num * 10000 >= new[c].target * new[c].den) =>
               PeriodActual(new, S) >= PeriodTarget(new, S)
      BY <2>1, PeriodOrder
    <3>2. QED
      BY <3>1
  <2>3. AllOnTarget(k, new, S) => \A c \in S : new[c].num * 10000 >= new[c].target * new[c].den
    BY <1>4 DEF AllOnTarget, OnTarget
  <2>4. /\ PeriodScore(new, k, S) = calculate_custom_score("OEE", b, PeriodTarget(new, S))
        /\ PeriodScore(old, k, S) = calculate_custom_score("OEE", a, t)
    BY <1>4 DEF PeriodScore
  <2> HIDE DEF a, b, t
  <2>5. t \in Nat \ {0}
    <3>1. \A c \in S : old[c].target # 0
      BY <1>4 DEF AreReadings, IsReading
    <3>2. QED
      BY <2>2, <3>1
  <2>6. /\ calculate_custom_score("OEE", a, t) \in Nat
        /\ calculate_custom_score("OEE", a, t) <= calculate_custom_score("OEE", b, t)
    BY <2>2, <2>5, OeeScores
  <2>7. /\ calculate_custom_score("OEE", b, t) \in Nat
        /\ calculate_custom_score("OEE", b, t) <= 10500
        /\ b >= t => calculate_custom_score("OEE", b, t) = 10500
    <3>1. b <= b
      BY <2>2
    <3>2. QED
      BY <2>2, <2>5, <3>1, OeeScores
  <2>8. QED
    BY <1>4, <2>2, <2>3, <2>4, <2>6, <2>7
<1>5. QED
  BY <1>1, <1>2, <1>3, <1>4 DEF Kpis, LowerIsBetter, HigherIsBetter

\* Of a foreman: plants p of P, each with the records of the cells part[p].
Parts(part, P) ==
  /\ IsFiniteSet(P) /\ P # {}
  /\ \A p \in P : IsFiniteSet(part[p]) /\ part[p] # {}

LEMMA MeanScores ==
  ASSUME NEW P, NEW part, Parts(part, P), NEW k \in Kpis, NEW old, NEW new,
         \A p \in P : /\ AreReadings(k, old, part[p]) /\ AreReadings(k, new, part[p])
                      /\ NoneWorse(k, old, new, part[p])
  PROVE  /\ MeanScore(old, k, part, P) \in Nat /\ MeanScore(new, k, part, P) \in Nat
         /\ MeanScore(old, k, part, P) <= MeanScore(new, k, part, P)
         /\ (\A p \in P : AllOnTarget(k, new, part[p])) => MeanScore(new, k, part, P) >= 10000
         /\ k = "OEE" => MeanScore(new, k, part, P) <= 10500
<1> DEFINE f == [p \in P |-> PeriodScore(old, k, part[p])]
           h == [p \in P |-> PeriodScore(new, k, part[p])]
           w == [p \in P |-> 1]
<1>1. \A p \in P : /\ f[p] \in Nat /\ h[p] \in Nat /\ f[p] <= h[p]
                   /\ AllOnTarget(k, new, part[p]) => h[p] >= 10000 * w[p]
                   /\ k = "OEE" => h[p] <= 10500 * w[p]
  <2> SUFFICES ASSUME NEW p \in P
               PROVE  /\ f[p] \in Nat /\ h[p] \in Nat /\ f[p] <= h[p]
                      /\ AllOnTarget(k, new, part[p]) => h[p] >= 10000 * w[p]
                      /\ k = "OEE" => h[p] <= 10500 * w[p]
    OBVIOUS
  <2>1. IsFiniteSet(part[p]) /\ part[p] # {}
    BY DEF Parts
  <2>2. /\ f[p] = PeriodScore(old, k, part[p]) /\ h[p] = PeriodScore(new, k, part[p])
        /\ 10000 * w[p] = 10000 /\ 10500 * w[p] = 10500
    OBVIOUS
  <2> HIDE DEF f, h, w
  <2>3. /\ PeriodScore(old, k, part[p]) \in Nat /\ PeriodScore(new, k, part[p]) \in Nat
        /\ PeriodScore(old, k, part[p]) <= PeriodScore(new, k, part[p])
        /\ AllOnTarget(k, new, part[p]) => PeriodScore(new, k, part[p]) >= 10000
        /\ k = "OEE" => PeriodScore(new, k, part[p]) <= 10500
    BY <2>1, PeriodScores
  <2>4. QED
    BY <2>2, <2>3
<1>2. \A p \in P : w[p] \in Nat \ {0} /\ w[p] = 1
  OBVIOUS
<1>3. IsFiniteSet(P) /\ P # {}
  BY DEF Parts
<1>4. /\ MeanScore(old, k, part, P) = SumOf(f, P) \div Cardinality(P)
      /\ MeanScore(new, k, part, P) = SumOf(h, P) \div Cardinality(P)
  BY DEF MeanScore
<1> HIDE DEF f, h, w
<1>5. SumOf(w, P) = Cardinality(P)
  <2>1. Total(w, P) = Cardinality(P) * 1
    BY <1>2, <1>3, TotalConstant
  <2>2. Cardinality(P) \in Nat
    BY <1>3, FS_CardinalityType
  <2>3. QED
    BY <2>1, <2>2, SumIs
<1>6. /\ SumOf(f, P) \div SumOf(w, P) \in Nat
      /\ SumOf(f, P) \div SumOf(w, P) <= SumOf(h, P) \div SumOf(w, P)
  <2>1. \A p \in P : f[p] \in Nat /\ h[p] \in Nat /\ f[p] <= h[p]
    BY <1>1
  <2>2. QED
    BY <1>2, <1>3, <2>1, MeanOrder
<1>7. SumOf(h, P) \div SumOf(w, P) \in Nat
  <2>1. \A p \in P : h[p] \in Nat /\ h[p] <= h[p]
    BY <1>1
  <2>2. QED
    BY <1>2, <1>3, <2>1, MeanOrder
<1>8. \A p \in P : h[p] \in Nat
  BY <1>1
<1>9. (\A p \in P : h[p] >= 10000 * w[p]) => SumOf(h, P) \div SumOf(w, P) >= 10000
  BY <1>2, <1>3, <1>8, MeanLimits
<1>10. (\A p \in P : h[p] <= 10500 * w[p]) => SumOf(h, P) \div SumOf(w, P) <= 10500
  BY <1>2, <1>3, <1>8, MeanLimits
<1>11. (\A p \in P : AllOnTarget(k, new, part[p])) => \A p \in P : h[p] >= 10000 * w[p]
  BY <1>1
<1>12. k = "OEE" => \A p \in P : h[p] <= 10500 * w[p]
  BY <1>1
<1>13. QED
  BY <1>4, <1>5, <1>6, <1>7, <1>9, <1>10, <1>11, <1>12

LEMMA NoWorseThanItself ==
  ASSUME NEW S, NEW k, NEW rec, AreReadings(k, rec, S)
  PROVE  NoneWorse(k, rec, rec, S)
  BY AbsIs DEF AreReadings, NoneWorse, IsReading, NoWorse

\* Whatever was produced and whatever the targets are, the score of a KPI over
\* a period, and that of a foreman over the plants of the period, is a number
\* that is not negative, and OEE never scores more than 105: _floor_score and
\* the ceiling of _linear_bonus, over any number of records.
THEOREM ScoresInRange ==
  ASSUME NEW k \in Kpis, NEW rec
  PROVE  /\ \A S : IsFiniteSet(S) /\ S # {} /\ AreReadings(k, rec, S) =>
              PeriodScore(rec, k, S) \in Nat /\ (k = "OEE" => PeriodScore(rec, k, S) <= 10500)
         /\ \A P, part : Parts(part, P) /\ (\A p \in P : AreReadings(k, rec, part[p])) =>
              /\ MeanScore(rec, k, part, P) \in Nat
              /\ k = "OEE" => MeanScore(rec, k, part, P) <= 10500
<1>1. ASSUME NEW S, IsFiniteSet(S), S # {}, AreReadings(k, rec, S)
      PROVE  PeriodScore(rec, k, S) \in Nat /\ (k = "OEE" => PeriodScore(rec, k, S) <= 10500)
  <2>1. NoneWorse(k, rec, rec, S)
    BY <1>1, NoWorseThanItself
  <2>2. QED
    BY <1>1, <2>1, PeriodScores
<1>2. ASSUME NEW P, NEW part, Parts(part, P), \A p \in P : AreReadings(k, rec, part[p])
      PROVE  /\ MeanScore(rec, k, part, P) \in Nat
             /\ k = "OEE" => MeanScore(rec, k, part, P) <= 10500
  <2>1. \A p \in P : NoneWorse(k, rec, rec, part[p])
    BY <1>2, NoWorseThanItself
  <2>2. QED
    BY <1>2, <2>1, MeanScores
<1>3. QED
  BY <1>1, <1>2

\* Work of which no record got worse never scores less than before, of any
\* KPI, over any set of records and any plants: wherever the limits of the
\* piecewise formulas, of their logarithms and of their roundings lie.
THEOREM BetterWorkScoresNoLess ==
  ASSUME NEW k \in Kpis, NEW old, NEW new
  PROVE  /\ \A S : /\ IsFiniteSet(S) /\ S # {}
                   /\ AreReadings(k, old, S) /\ AreReadings(k, new, S) /\ NoneWorse(k, old, new, S)
                   => PeriodScore(new, k, S) >= PeriodScore(old, k, S)
         /\ \A P, part :
              /\ Parts(part, P)
              /\ \A p \in P : /\ AreReadings(k, old, part[p]) /\ AreReadings(k, new, part[p])
                              /\ NoneWorse(k, old, new, part[p])
              => MeanScore(new, k, part, P) >= MeanScore(old, k, part, P)
<1>1. ASSUME NEW S, IsFiniteSet(S), S # {}, AreReadings(k, old, S), AreReadings(k, new, S),
             NoneWorse(k, old, new, S)
      PROVE  PeriodScore(new, k, S) >= PeriodScore(old, k, S)
  <2>1. /\ PeriodScore(old, k, S) \in Nat /\ PeriodScore(new, k, S) \in Nat
        /\ PeriodScore(old, k, S) <= PeriodScore(new, k, S)
    BY <1>1, PeriodScores
  <2>2. QED
    BY <2>1
<1>2. ASSUME NEW P, NEW part, Parts(part, P),
             \A p \in P : /\ AreReadings(k, old, part[p]) /\ AreReadings(k, new, part[p])
                          /\ NoneWorse(k, old, new, part[p])
      PROVE  MeanScore(new, k, part, P) >= MeanScore(old, k, part, P)
  <2>1. /\ MeanScore(old, k, part, P) \in Nat /\ MeanScore(new, k, part, P) \in Nat
        /\ MeanScore(old, k, part, P) <= MeanScore(new, k, part, P)
    BY <1>2, MeanScores
  <2>2. QED
    BY <2>1
<1>3. QED
  BY <1>1, <1>2

\* When every record meets its own target, whatever those are, the period as a
\* whole scores 100 or more, and so does the mean of the plants: the targets of
\* the days are weighted as the work of the days is.
THEOREM TargetIsHundred ==
  ASSUME NEW k \in Kpis, NEW rec
  PROVE  /\ \A S : /\ IsFiniteSet(S) /\ S # {}
                   /\ AreReadings(k, rec, S) /\ AllOnTarget(k, rec, S)
                   => PeriodScore(rec, k, S) >= 10000
         /\ \A P, part :
              /\ Parts(part, P)
              /\ \A p \in P : AreReadings(k, rec, part[p]) /\ AllOnTarget(k, rec, part[p])
              => MeanScore(rec, k, part, P) >= 10000
<1>1. ASSUME NEW S, IsFiniteSet(S), S # {}, AreReadings(k, rec, S), AllOnTarget(k, rec, S)
      PROVE  PeriodScore(rec, k, S) >= 10000
  <2>1. NoneWorse(k, rec, rec, S)
    BY <1>1, NoWorseThanItself
  <2>2. QED
    BY <1>1, <2>1, PeriodScores
<1>2. ASSUME NEW P, NEW part, Parts(part, P),
             \A p \in P : AreReadings(k, rec, part[p]) /\ AllOnTarget(k, rec, part[p])
      PROVE  MeanScore(rec, k, part, P) >= 10000
  <2>1. \A p \in P : NoneWorse(k, rec, rec, part[p])
    BY <1>2, NoWorseThanItself
  <2>2. QED
    BY <1>2, <2>1, MeanScores
<1>3. QED
  BY <1>1, <1>2

-----------------------------------------------------------------------------
(* Totals as products.                                                     *)

LEMMA ProductOfIs == \A f, S : ProductOf(f, S) = Product(f, S)
  BY DEF ProductOf, MapThenFoldSet, Product, Multiplied, Chosen

-----------------------------------------------------------------------------
(* The geometric mean is no larger than the arithmetic one.                *)

\* Bernoulli's inequality, without fractions.
LEMMA Bernoulli ==
  ASSUME NEW u \in Nat, NEW v \in Nat
  PROVE  \A m \in Nat : Power(u, m + 1) >= Power(v, m) * (v + (m + 1) * (u - v))
<1> DEFINE Bad == {m \in Nat : ~(Power(u, m + 1) >= Power(v, m) * (v + (m + 1) * (u - v)))}
<1>1. SUFFICES ASSUME Bad # {} PROVE FALSE
  OBVIOUS
<1>2. PICK m \in Bad : \A k \in Bad : m <= k
  <2>1. Bad \subseteq Nat
    OBVIOUS
  <2> HIDE DEF Bad
  <2>2. QED
    BY <1>1, <2>1, SmallestNumber
<1>3. m # 0
  <2>1. Power(u, 1) = u * Power(u, 0) /\ Power(u, 0) = 1 /\ Power(v, 0) = 1
    <3>1. 1 - 1 = 0
      OBVIOUS
    <3>2. QED
      BY <3>1, PowerIs
  <2>2. Power(u, 0 + 1) = Power(u, 1)
    OBVIOUS
  <2>3. Power(u, 0 + 1) >= Power(v, 0) * (v + (0 + 1) * (u - v))
    BY <2>1, <2>2
  <2>4. QED
    BY <2>3
<1> DEFINE p == Power(u, m)
           q == Power(v, m - 1)
           d == u - v
<1>4. m - 1 \in Nat /\ (m - 1) + 1 = m /\ p >= q * (v + m * d)
  <2>1. m - 1 \in Nat /\ (m - 1) + 1 = m
    BY <1>3
  <2>2. Power(u, (m - 1) + 1) >= q * (v + ((m - 1) + 1) * d)
    BY <1>2, <2>1
  <2>3. QED
    BY <2>1, <2>2
<1>5. p \in Nat /\ q \in Nat /\ d \in Int
  <2>1. p \in Nat
    BY PowerNat
  <2>2. q \in Nat
    BY <1>4, PowerNat
  <2>3. QED
    BY <2>1, <2>2
<1>6. Power(u, m + 1) = u * p /\ Power(v, m) = v * q
  <2>1. m + 1 \in Nat /\ m + 1 # 0 /\ (m + 1) - 1 = m
    OBVIOUS
  <2>2. Power(u, m + 1) = u * Power(u, (m + 1) - 1)
    BY <2>1, PowerIs
  <2>3. Power(v, m) = v * q
    BY <1>3, PowerIs
  <2>4. QED
    BY <2>1, <2>2, <2>3
<1>7. ~(u * p >= (v * q) * (v + (m + 1) * d))
  BY <1>2, <1>6
<1>8. u = v + d
  OBVIOUS
<1> HIDE DEF p, q, d
<1>9. u * p >= u * (q * (v + m * d))
  <2> DEFINE z == q * (v + m * d)
  <2>1. z \in Int /\ p >= z
    BY <1>4, <1>5
  <2> HIDE DEF z
  <2>2. u * p >= u * z
    BY <1>5, <2>1
  <2>3. QED
    BY <2>2 DEF z
<1>10. (v + d) * (v + m * d) = v * (v + (m + 1) * d) + m * (d * d)
  <2>1. (v + d) * (v + m * d) = v * v + v * (m * d) + d * v + d * (m * d)
    BY <1>5
  <2>2. v * (v + (m + 1) * d) = v * v + v * (m * d) + v * d
    BY <1>5
  <2>3. d * (m * d) = m * (d * d) /\ d * v = v * d
    BY <1>5
  <2>4. QED
    BY <1>5, <2>1, <2>2, <2>3
<1>11. u * (q * (v + m * d)) = q * (v * (v + (m + 1) * d)) + q * (m * (d * d))
  <2>1. u * (q * (v + m * d)) = q * ((v + d) * (v + m * d))
    BY <1>5, <1>8
  <2> DEFINE x == v * (v + (m + 1) * d)
             y == m * (d * d)
  <2>2. x \in Int /\ y \in Int
    BY <1>5
  <2>3. (v + d) * (v + m * d) = x + y
    BY <1>10
  <2> HIDE DEF x, y
  <2>4. q * (x + y) = q * x + q * y
    BY <1>5, <2>2
  <2>5. QED
    BY <2>1, <2>3, <2>4 DEF x, y
<1>12. q * (m * (d * d)) >= 0
  <2>1. d * d >= 0 /\ d * d \in Nat
    BY <1>5
  <2>2. m * (d * d) \in Nat
    BY <2>1
  <2>3. QED
    BY <1>5, <2>2
<1>13. (v * q) * (v + (m + 1) * d) = q * (v * (v + (m + 1) * d))
  BY <1>5
<1> DEFINE a == u * p
           b == q * (v * (v + (m + 1) * d))
           e == q * (m * (d * d))
<1>14. a \in Int /\ b \in Int /\ e \in Int
  BY <1>5
<1>15. a >= b + e /\ e >= 0 /\ ~(a >= b)
  BY <1>7, <1>9, <1>11, <1>12, <1>13
<1> HIDE DEF a, b, e
<1>16. QED
  BY <1>14, <1>15

\* s is the sum of n numbers, and a number y is added to them.
LEMMA OneMore ==
  ASSUME NEW n \in Nat \ {0}, NEW s \in Nat, NEW y \in Nat
  PROVE  Power(n, n) * Power(s + y, n + 1) >= Power(n + 1, n + 1) * (Power(s, n) * y)
<1> DEFINE u == n * (s + y)
           v == (n + 1) * s
<1>1. u \in Nat /\ v \in Nat /\ s + y \in Nat /\ n + 1 \in Nat /\ n \in Nat /\ n + 1 # 0 /\ (n + 1) - 1 = n
  OBVIOUS
<1>2. v + (n + 1) * (u - v) = (n + 1) * (n * y)
  <2>1. u - v = n * y - s
    <3>1. n * (s + y) = n * s + n * y /\ (n + 1) * s = n * s + s
      OBVIOUS
    <3>2. n * s \in Int /\ n * y \in Int
      OBVIOUS
    <3>3. QED
      BY <3>1, <3>2
  <2>2. (n + 1) * (n * y - s) = (n + 1) * (n * y) - (n + 1) * s
    OBVIOUS
  <2>3. QED
    BY <2>1, <2>2
<1> DEFINE pn == Power(n, n)
           pm == Power(n + 1, n)
           ps == Power(s, n)
           pt == Power(s + y, n + 1)
<1>3. pn \in Nat /\ pm \in Nat /\ ps \in Nat /\ pt \in Nat
  <2>1. pn \in Nat
    BY PowerNat
  <2>2. pm \in Nat
    BY <1>1, PowerNat
  <2>3. ps \in Nat
    BY PowerNat
  <2>4. pt \in Nat
    BY <1>1, PowerNat
  <2>5. QED
    BY <2>1, <2>2, <2>3, <2>4
<1>4. Power(u, n + 1) = (n * pn) * pt
  <2>1. Power(u, n + 1) = Power(n, n + 1) * pt
    BY <1>1, PowerTimes
  <2>2. Power(n, n + 1) = n * Power(n, (n + 1) - 1)
    BY <1>1, PowerIs
  <2>3. QED
    BY <1>1, <2>1, <2>2
<1>5. Power(v, n) = pm * ps
  BY <1>1, PowerTimes
<1>6. Power(u, n + 1) >= Power(v, n) * (v + (n + 1) * (u - v))
  BY <1>1, Bernoulli
<1>7. (n * pn) * pt >= (pm * ps) * ((n + 1) * (n * y))
  BY <1>2, <1>4, <1>5, <1>6
<1>8. Power(n + 1, n + 1) = (n + 1) * pm
  <2>1. Power(n + 1, n + 1) = (n + 1) * Power(n + 1, (n + 1) - 1)
    BY <1>1, PowerIs
  <2>2. QED
    BY <1>1, <2>1
<1> HIDE DEF u, v, pn, pm, ps, pt
<1> DEFINE a == pn * pt
           b == ((n + 1) * pm) * (ps * y)
<1>9. a \in Int /\ b \in Int
  BY <1>3
<1>10. (n * pn) * pt = n * a /\ (pm * ps) * ((n + 1) * (n * y)) = n * b
  <2>1. (n * pn) * pt = n * a
    BY <1>3
  <2>2. (pm * ps) * ((n + 1) * (n * y)) = n * b
    BY <1>3
  <2>3. QED
    BY <2>1, <2>2
<1>11. n * a >= n * b
  BY <1>7, <1>10
<1> HIDE DEF a, b
<1>12. a >= b
  <2>1. SUFFICES ASSUME a + 1 <= b PROVE FALSE
    BY <1>9
  <2>2. n * (a + 1) <= n * b
    BY <1>9, <2>1
  <2>3. n * (a + 1) = n * a + n
    BY <1>9
  <2>4. n * a \in Int /\ n * b \in Int
    BY <1>9
  <2>5. QED
    BY <1>11, <2>2, <2>3, <2>4
<1>13. QED
  BY <1>8, <1>12 DEF a, b, pn, pm, ps, pt

\* The product p and the sum s of n numbers.
Means(p, n, s) == p * Power(n, n) <= Power(s, n)

LEMMA MeansOneMore ==
  ASSUME NEW p \in Nat, NEW n \in Nat, NEW s \in Nat, NEW y \in Nat, Means(p, n, s)
  PROVE  Means(p * y, n + 1, s + y)
<1>1. n + 1 \in Nat /\ s + y \in Nat
  OBVIOUS
<1>2. CASE n = 0
  <2>1. /\ Power(0, 0) = 1 /\ Power(s, 0) = 1
        /\ Power(1, 1) = 1 /\ Power(s + y, 1) = s + y
    <3>1. 1 - 1 = 0 /\ 1 # 0
      OBVIOUS
    <3>2. Power(0, 0) = 1 /\ Power(s, 0) = 1
      BY PowerIs
    <3>3. Power(1, 0) = 1 /\ Power(1, 1) = 1 * Power(1, 1 - 1)
      BY <3>1, PowerIs
    <3>4. Power(s + y, 0) = 1 /\ Power(s + y, 1) = (s + y) * Power(s + y, 1 - 1)
      BY <3>1, PowerIs
    <3>5. QED
      BY <3>1, <3>2, <3>3, <3>4
  <2>2. p <= 1
    BY <1>2, <2>1 DEF Means
  <2>3. p * y <= y
    BY <2>2
  <2>4. n + 1 = 1
    BY <1>2
  <2>5. (p * y) * 1 <= s + y
    BY <2>3
  <2>6. QED
    BY <2>1, <2>4, <2>5 DEF Means
<1>3. CASE n # 0
  <2> DEFINE pn == Power(n, n)
             pm == Power(n + 1, n + 1)
             ps == Power(s, n)
             pt == Power(s + y, n + 1)
  <2>1. pn \in Nat /\ pm \in Nat /\ ps \in Nat /\ pt \in Nat /\ pn # 0
    <3>1. pn \in Nat /\ pn # 0
      BY <1>3, PowerNat
    <3>2. pm \in Nat
      BY <1>1, PowerNat
    <3>3. ps \in Nat
      BY PowerNat
    <3>4. pt \in Nat
      BY <1>1, PowerNat
    <3>5. QED
      BY <3>1, <3>2, <3>3, <3>4
  <2>2. pn * pt >= pm * (ps * y)
    BY <1>3, OneMore
  <2>3. p * pn <= ps
    BY DEF Means
  <2> HIDE DEF pn, pm, ps, pt
  <2> DEFINE z == (p * y) * pm
  <2>4. z \in Nat
    BY <2>1
  <2>5. pm * ((p * pn) * y) <= pm * (ps * y)
    <3>1. (p * pn) * y <= ps * y
      BY <2>1, <2>3
    <3>2. (p * pn) * y \in Nat /\ ps * y \in Nat
      BY <2>1
    <3>3. QED
      BY <2>1, <3>1, <3>2
  <2>6. pm * ((p * pn) * y) = pn * z
    BY <2>1
  <2> HIDE DEF z
  <2>7. pn * z <= pn * pt
    <3>1. pm * (ps * y) \in Int /\ pn * pt \in Int /\ pn * z \in Int
      BY <2>1, <2>4
    <3>2. QED
      BY <2>2, <2>5, <2>6, <3>1
  <2>8. z <= pt
    <3>1. SUFFICES ASSUME pt + 1 <= z PROVE FALSE
      BY <2>1, <2>4
    <3>2. pn * (pt + 1) <= pn * z
      BY <2>1, <2>4, <3>1
    <3>3. pn * (pt + 1) = pn * pt + pn
      BY <2>1
    <3>4. pn * pt \in Nat /\ pn * z \in Nat
      BY <2>1, <2>4
    <3>5. QED
      BY <2>1, <2>7, <3>2, <3>3, <3>4
  <2>9. QED
    BY <2>8 DEF Means, z, pm, pt
<1>4. QED
  BY <1>2, <1>3

LEMMA MeansMore ==
  ASSUME NEW p \in Nat, NEW n \in Nat, NEW s \in Nat, NEW y \in Nat, Means(p, n, s)
  PROVE  \A w \in Nat : Means(p * Power(y, w), n + w, s + w * y)
<1> DEFINE Bad == {w \in Nat : ~Means(p * Power(y, w), n + w, s + w * y)}
<1>1. SUFFICES ASSUME Bad # {} PROVE FALSE
  OBVIOUS
<1>2. PICK w \in Bad : \A k \in Bad : w <= k
  <2>1. Bad \subseteq Nat
    OBVIOUS
  <2> HIDE DEF Bad
  <2>2. QED
    BY <1>1, <2>1, SmallestNumber
<1>3. w # 0
  <2>1. Power(y, 0) = 1
    BY PowerIs
  <2>2. p * 1 = p /\ n + 0 = n /\ s + 0 * y = s
    OBVIOUS
  <2>3. Means(p * Power(y, 0), n + 0, s + 0 * y)
    BY <2>1, <2>2
  <2>4. QED
    BY <2>3
<1> DEFINE q == Power(y, w - 1)
           m == n + (w - 1)
           t == s + (w - 1) * y
<1>4. w - 1 \in Nat /\ Means(p * q, m, t)
  <2>1. w - 1 \in Nat /\ ~(w <= w - 1)
    BY <1>3
  <2>2. w - 1 \notin Bad
    BY <1>2, <2>1
  <2>3. QED
    BY <2>1, <2>2
<1>5. q \in Nat /\ m \in Nat /\ t \in Nat
  <2>1. q \in Nat
    BY <1>4, PowerNat
  <2>2. (w - 1) * y \in Nat
    BY <1>4
  <2>3. QED
    BY <1>4, <2>1, <2>2
<1>6. Power(y, w) = y * q
  BY <1>3, PowerIs
<1>7. (p * q) * y = p * (y * q) /\ m + 1 = n + w /\ t + y = s + w * y
  <2>1. (w - 1) * y = w * y - y /\ w * y \in Nat
    OBVIOUS
  <2> HIDE DEF q
  <2>2. (p * q) * y = p * (y * q)
    BY <1>5
  <2>3. QED
    BY <2>1, <2>2
<1> HIDE DEF q, m, t
<1>8. p * q \in Nat
  BY <1>5
<1>9. Means((p * q) * y, m + 1, t + y)
  BY <1>4, <1>5, <1>8, MeansOneMore
<1>10. Means(p * Power(y, w), n + w, s + w * y)
  BY <1>6, <1>7, <1>9
<1>11. QED
  BY <1>10

\* The weighted geometric mean of s is no larger than the arithmetic one, both
\* raised to the sum of the weights w.
LEMMA GeometricMean ==
  ASSUME NEW S, IsFiniteSet(S), NEW s, NEW w, NEW g, NEW h,
         \A x \in S : /\ s[x] \in Nat /\ w[x] \in Nat
                      /\ g[x] = Power(s[x], w[x]) /\ h[x] = w[x] * s[x]
  PROVE  Means(Product(g, S), Total(w, S), Total(h, S))
<1> DEFINE Bad == {T \in SUBSET S : ~Means(Product(g, T), Total(w, T), Total(h, T))}
<1>1. SUFFICES ASSUME Bad # {} PROVE FALSE
  OBVIOUS
<1>2. PICK X \in Bad : \A Y \in Bad : Y \subseteq X => Y = X
  <2> HIDE DEF Bad
  <2>1. Bad \subseteq SUBSET S
    BY DEF Bad
  <2>2. QED
    BY <2>1, <1>1, SmallestSet
<1>3. IsFiniteSet(X) /\ \A x \in S : g[x] \in Nat /\ h[x] \in Nat
  <2>1. IsFiniteSet(X)
    BY FS_Subset
  <2>2. ASSUME NEW x \in S PROVE g[x] \in Nat /\ h[x] \in Nat
    <3>1. Power(s[x], w[x]) \in Nat
      BY PowerNat
    <3>2. QED
      BY <3>1
  <2>3. QED
    BY <2>1, <2>2
<1>4. X # {}
  <2>1. Product(g, {}) = 1 /\ Total(w, {}) = 0 /\ Total(h, {}) = 0
    BY ProductEmpty, TotalEmpty
  <2>2. Power(0, 0) = 1
    BY PowerIs
  <2>3. Means(1, 0, 0)
    BY <2>2 DEF Means
  <2>4. QED
    BY <2>1, <2>3
<1> DEFINE c == Chosen(X)
           r == X \ {c}
<1>5. c \in S /\ r \in SUBSET S /\ r # X /\ r \subseteq X
  BY <1>4, ChosenIn
<1>6. Means(Product(g, r), Total(w, r), Total(h, r))
  BY <1>2, <1>5
<1>7. /\ Product(g, X) = g[c] * Product(g, r)
      /\ Total(w, X) = w[c] + Total(w, r)
      /\ Total(h, X) = h[c] + Total(h, r)
  BY <1>3, <1>4, ProductIs, TotalIs
<1> HIDE DEF r, c
<1>8. Product(g, r) \in Nat /\ Total(w, r) \in Nat /\ Total(h, r) \in Nat
  <2>1. Product(g, r) \in Nat
    BY <1>3, <1>5, ProductNat
  <2>2. Total(w, r) \in Nat
    BY <1>5, TotalNat
  <2>3. Total(h, r) \in Nat
    BY <1>3, <1>5, TotalNat
  <2>4. QED
    BY <2>1, <2>2, <2>3
<1>9. s[c] \in Nat /\ w[c] \in Nat /\ g[c] = Power(s[c], w[c]) /\ h[c] = w[c] * s[c] /\ g[c] \in Nat
  BY <1>3, <1>5
<1>10. Means(Product(g, r) * Power(s[c], w[c]), Total(w, r) + w[c], Total(h, r) + w[c] * s[c])
  BY <1>6, <1>8, <1>9, MeansMore
<1>11. /\ Product(g, r) * g[c] = g[c] * Product(g, r)
       /\ Total(w, r) + w[c] = w[c] + Total(w, r)
  BY <1>8, <1>9
<1>12. Total(h, r) + h[c] = h[c] + Total(h, r)
  <2>1. h[c] \in Nat
    BY <1>3, <1>5
  <2>2. QED
    BY <1>8, <2>1
<1>13. Means(Product(g, X), Total(w, X), Total(h, X))
  BY <1>7, <1>9, <1>10, <1>11, <1>12
<1>14. QED
  BY <1>13

-----------------------------------------------------------------------------
(* Targets that are missed.                                                *)

LEMMA LogOff == \A m \in Nat : m >= 1001 => Log2[m] \in Nat /\ Log2[m] >= 1
<1>1. SUFFICES ASSUME NEW m \in Nat, m >= 1001 PROVE Log2[m] \in Nat /\ Log2[m] >= 1
  OBVIOUS
<1>2. Log2[1001] = 1
  BY Log2Is
<1>3. Log2[1001] <= Log2[m]
  <2>1. 1001 \in 0 .. m
    BY <1>1
  <2>2. QED
    BY <2>1, Log2KeepsOrder
<1>4. Log2[m] \in Int
  BY Log2Range
<1>5. QED
  BY <1>2, <1>3, <1>4

\* Ten times a logarithm that is not 0 is seen in the score.
LEMMA LossSeen ==
  ASSUME NEW m \in Nat, m >= 1001, NEW bad \in Nat, bad >= 10
  PROVE  (bad * Log2[m]) \div 10 \in Int /\ (bad * Log2[m]) \div 10 >= 1
<1> DEFINE x == Log2[m]
<1>1. x \in Nat /\ x >= 1
  BY LogOff
<1> HIDE DEF x
<1>2. bad * x \in Int /\ 1 * 10 <= bad * x
  <2>1. 10 * x <= bad * x
    BY <1>1
  <2>2. QED
    BY <1>1, <2>1
<1>3. (bad * x) \div 10 \in Int /\ (bad * x) \div 10 >= 1
  BY <1>2, DivAtLeast, DivBounds
<1>4. QED
  BY <1>3 DEF x

LEMMA RatioOff ==
  ASSUME NEW r \in Nat, r >= 1001, NEW good, NEW bad \in Nat, bad >= 10
  PROVE  RatioPiecewise(r, good, bad) \in Int /\ RatioPiecewise(r, good, bad) <= 9999
<1>1. (bad * Log2[r]) \div 10 \in Int /\ (bad * Log2[r]) \div 10 >= 1
  BY LossSeen
<1>2. RatioPiecewise(r, good, bad) = 10000 - (bad * Log2[r]) \div 10
  BY DEF RatioPiecewise
<1>3. QED
  BY <1>1, <1>2

LEMMA HybridOff ==
  ASSUME NEW a \in Nat, NEW t \in Nat, a > t, 1000 * a >= 1001 * t,
         NEW floor \in Nat \ {0}, floor <= 1000, NEW good, NEW bad \in Nat, bad >= 10
  PROVE  Hybrid(a, t, floor, good, bad) \in Int /\ Hybrid(a, t, floor, good, bad) <= 9999
<1> DEFINE base == Larger(t, floor)
           q    == ((a - t) * 1000) \div base
<1>1. base \in Nat \ {0} /\ base <= (a - t) * 1000
  BY DEF Larger
<1>2. Hybrid(a, t, floor, good, bad) = 10000 - (bad * Log2[1000 + q]) \div 10
  BY DEF Hybrid
<1> HIDE DEF base
<1>3. q \in Int /\ q >= 1
  <2>1. (a - t) * 1000 \in Int /\ 1 * base <= (a - t) * 1000
    BY <1>1
  <2>2. QED
    BY <1>1, <2>1, DivAtLeast, DivBounds
<1> HIDE DEF q
<1>4. 1000 + q \in Nat /\ 1000 + q >= 1001
  BY <1>3
<1>5. (bad * Log2[1000 + q]) \div 10 \in Int /\ (bad * Log2[1000 + q]) \div 10 >= 1
  BY <1>4, LossSeen
<1>6. QED
  BY <1>2, <1>5

LEMMA CappedOff == \A x \in Int : x <= 9999 => Capped(x) <= 9999
  BY DEF Capped, Larger

\* Less than planned is less than 100.
LEMMA PlanOff ==
  ASSUME NEW d \in Nat \ {0}, NEW n \in Int, n < d
  PROVE  PlanAchievement(d, n) <= 9999
<1> DEFINE dev == ((n - d) * 10000) \div d
<1>1. dev \in Int /\ dev <= -1
  <2>1. (n - d) * 10000 \in Int
    OBVIOUS
  <2>2. dev \in Int /\ d * dev <= (n - d) * 10000
    BY <2>1, DivBounds
  <2> HIDE DEF dev
  <2>3. ASSUME dev >= 0 PROVE FALSE
    <3>1. d * dev >= 0
      BY <2>2, <2>3
    <3>2. QED
      BY <2>2, <3>1
  <2>4. QED
    BY <2>2, <2>3
<1>2. PlanAchievement(d, n) = PlanCurve(dev)
  BY DEF PlanAchievement, PlanCurve
<1> HIDE DEF dev
<1>3. CASE Abs(dev) <= 500
  <2>1. PlanCurve(dev) = Capped(10000 + dev)
    BY <1>3 DEF PlanCurve
  <2>2. QED
    BY <1>1, <1>2, <2>1, CappedOff
<1>4. CASE Abs(dev) > 500
  <2> DEFINE m == 2 * Abs(dev)
             x == Log2[m]
  <2>1. m \in Nat /\ m >= 1000
    BY <1>1, <1>4 DEF Abs
  <2>2. PlanCurve(dev) = Capped(9500 - (1000 * x) \div 1000)
    <3>1. ~(Abs(dev) <= 500) /\ ~(dev > 0)
      BY <1>1, <1>4 DEF Abs
    <3>2. QED
      BY <3>1 DEF PlanCurve
  <2> HIDE DEF m
  <2>3. x \in Int /\ x >= 0
    BY <2>1, Log2Range
  <2> HIDE DEF x
  <2>4. (1000 * x) \div 1000 \in Int /\ (1000 * x) \div 1000 >= 0
    <3>1. 1000 * x \in Int /\ 0 * 1000 <= 1000 * x
      BY <2>3
    <3>2. QED
      BY <3>1, DivAtLeast, DivBounds
  <2> DEFINE y == (1000 * x) \div 1000
  <2> HIDE DEF y
  <2>5. y \in Int /\ y >= 0
    BY <2>4 DEF y
  <2>6. 9500 - y \in Int /\ 9500 - y <= 9999
    BY <2>5
  <2>7. Capped(9500 - y) <= 9999
    BY <2>6, CappedOff
  <2>8. QED
    BY <1>2, <2>2, <2>7 DEF y
<1>5. QED
  <2>1. Abs(dev) \in Nat
    BY <1>1, AbsIs
  <2>2. QED
    BY <1>3, <1>4, <2>1

LEMMA PlanScoreOff ==
  ASSUME NEW S, IsFiniteSet(S), S # {}, NEW rec,
         \A c \in S : IsReading("PLANA_UYUM", rec[c]) /\ OffTarget("PLANA_UYUM", rec[c])
  PROVE  PlanScore(rec, S) <= 9999
<1> DEFINE w == [c \in S |-> rec[c].den]
           f == [c \in S |-> PlanAchievement(rec[c].den, rec[c].num) * rec[c].den]
<1>1. ASSUME NEW c \in S PROVE w[c] \in Nat \ {0} /\ f[c] \in Nat /\ f[c] <= 9999 * w[c]
  <2> DEFINE d == rec[c].den
             n == rec[c].num
             a == PlanAchievement(d, n)
  <2>1. d \in Nat \ {0} /\ n \in Int /\ n < d
    BY DEF IsReading, OffTarget, LowerIsBetter
  <2>2. w[c] = d /\ f[c] = a * d
    OBVIOUS
  <2> HIDE DEF d, n, w, f
  <2>3. a \in Nat
    <3>1. n <= n
      BY <2>1
    <3>2. QED
      BY <2>1, <3>1, PlanAchievementOrder
  <2>4. a <= 9999
    BY <2>1, PlanOff
  <2> HIDE DEF a
  <2>5. a * d <= 9999 * d /\ a * d \in Nat
    BY <2>1, <2>3, <2>4
  <2>6. QED
    BY <2>1, <2>2, <2>5
<1>2. PlanScore(rec, S) = SumOf(f, S) \div SumOf(w, S)
  BY DEF PlanScore, DenSum
<1> HIDE DEF w, f
<1>3. (\A c \in S : f[c] <= 9999 * w[c]) => SumOf(f, S) \div SumOf(w, S) <= 9999
  BY <1>1, MeanLimits
<1>4. QED
  BY <1>1, <1>2, <1>3

LEMMA HeavyOff ==
  ASSUME NEW S, IsFiniteSet(S), S # {}, NEW rec,
         \A c \in S : IsReading("AGIR_GITME", rec[c]) /\ OffTarget("AGIR_GITME", rec[c])
  PROVE  HeavyRatio(rec, S) >= 1001
<1> DEFINE w == [c \in S |-> rec[c].den]
           f == [c \in S |-> (Abs(rec[c].num) * 10000000) \div rec[c].target]
<1>1. ASSUME NEW c \in S PROVE w[c] \in Nat \ {0} /\ f[c] \in Nat /\ f[c] >= 1001 * w[c]
  <2> DEFINE a == Abs(rec[c].num)
             d == rec[c].den
             t == rec[c].target
  <2>1. a \in Nat /\ d \in Nat \ {0} /\ t \in Nat \ {0}
    BY AbsIs DEF IsReading
  <2>2. a * 10000000 >= (1001 * t + 1000) * d
    BY DEF OffTarget, LowerIsBetter
  <2>3. w[c] = d /\ f[c] = (a * 10000000) \div t
    OBVIOUS
  <2> HIDE DEF a, d, t, w, f
  <2>4. (1001 * d) * t <= a * 10000000
    <3>1. (1001 * t + 1000) * d = (1001 * d) * t + 1000 * d
      BY <2>1
    <3>2. (1001 * d) * t \in Nat
      BY <2>1
    <3>3. QED
      BY <2>1, <2>2, <3>1, <3>2
  <2>5. a * 10000000 \in Int /\ 1001 * d \in Int /\ 0 * t <= a * 10000000
    BY <2>1
  <2>6. (a * 10000000) \div t >= 1001 * d
    BY <2>1, <2>4, <2>5, DivAtLeast
  <2>7. (a * 10000000) \div t \in Nat
    BY <2>1, <2>5, DivAtLeast, DivBounds
  <2>8. QED
    BY <2>1, <2>3, <2>6, <2>7
<1>2. HeavyRatio(rec, S) = SumOf(f, S) \div SumOf(w, S)
  BY DEF HeavyRatio, DenSum
<1> HIDE DEF w, f
<1>3. (\A c \in S : f[c] >= 1001 * w[c]) => SumOf(f, S) \div SumOf(w, S) >= 1001
  BY <1>1, MeanLimits
<1>4. QED
  BY <1>1, <1>2, <1>3

\* Together, too, they miss their target by more than a hundredth and a
\* thousandth of it.
LEMMA PeriodOff ==
  ASSUME NEW S, IsFiniteSet(S), S # {}, NEW rec,
         \A c \in S : /\ rec[c].num \in Nat /\ rec[c].den \in Nat \ {0} /\ rec[c].target \in Nat
                      /\ rec[c].num * 10000000 >= (1001 * rec[c].target + 1000) * rec[c].den
  PROVE  /\ PeriodActual(rec, S) > PeriodTarget(rec, S)
         /\ 1000 * PeriodActual(rec, S) >= 1001 * PeriodTarget(rec, S)
<1> DEFINE w == [c \in S |-> rec[c].den]
           f == [c \in S |-> rec[c].num * 10000]
           e == [c \in S |-> rec[c].den * rec[c].target]
           l == [c \in S |-> 1000 * f[c]]
           x == [c \in S |-> 1001 * e[c]]
           y == [c \in S |-> 1000 * w[c]]
           r == [c \in S |-> x[c] + y[c]]
<1>1. ASSUME NEW c \in S
      PROVE  /\ w[c] \in Nat \ {0} /\ f[c] \in Nat /\ e[c] \in Nat
             /\ l[c] = 1000 * f[c] /\ x[c] = 1001 * e[c] /\ y[c] = 1000 * w[c]
             /\ r[c] = x[c] + y[c] /\ r[c] <= l[c]
  <2> DEFINE n == rec[c].num
             d == rec[c].den
             t == rec[c].target
  <2>1. n \in Nat /\ d \in Nat \ {0} /\ t \in Nat /\ n * 10000000 >= (1001 * t + 1000) * d
    OBVIOUS
  <2>2. /\ w[c] = d /\ f[c] = n * 10000 /\ e[c] = d * t
        /\ l[c] = 1000 * f[c] /\ x[c] = 1001 * e[c] /\ y[c] = 1000 * w[c] /\ r[c] = x[c] + y[c]
    OBVIOUS
  <2> HIDE DEF n, d, t, w, f, e, l, x, y, r
  <2>3. (1001 * t + 1000) * d = 1001 * (d * t) + 1000 * d
    BY <2>1
  <2>4. d * t \in Nat
    BY <2>1
  <2>5. QED
    BY <2>1, <2>2, <2>3, <2>4
<1>2. PeriodActual(rec, S) = SumOf(f, S) \div SumOf(w, S)
  <2>1. \A c \in S : rec[c].num \in Nat
    OBVIOUS
  <2> HIDE DEF w, f
  <2>2. QED
    BY <2>1, ActualIsMean DEF w, f
<1>3. PeriodTarget(rec, S) = SumOf(e, S) \div SumOf(w, S)
  BY DEF PeriodTarget, ExpectedSum, DenSum
<1> HIDE DEF w, f, e, l, x, y, r
<1>4. \A c \in S : /\ w[c] \in Nat /\ x[c] \in Nat /\ y[c] \in Nat /\ r[c] \in Nat /\ l[c] \in Nat
  BY <1>1
<1>5. Total(f, S) \in Nat /\ Total(e, S) \in Nat /\ Total(w, S) \in Nat \ {0}
  <2>1. Total(f, S) \in Nat
    BY <1>1, TotalNat
  <2>2. Total(e, S) \in Nat
    BY <1>1, TotalNat
  <2>3. Total(w, S) \in Nat \ {0}
    BY <1>1, TotalPositive
  <2>4. QED
    BY <2>1, <2>2, <2>3
<1>6. /\ Total(l, S) = 1000 * Total(f, S) /\ Total(x, S) = 1001 * Total(e, S)
      /\ Total(y, S) = 1000 * Total(w, S)
  <2>1. Total(l, S) = 1000 * Total(f, S)
    BY <1>1, TotalTimes
  <2>2. Total(x, S) = 1001 * Total(e, S)
    BY <1>1, TotalTimes
  <2>3. Total(y, S) = 1000 * Total(w, S)
    BY <1>1, TotalTimes
  <2>4. QED
    BY <2>1, <2>2, <2>3
<1>7. Total(r, S) = Total(x, S) + Total(y, S) /\ Total(r, S) <= Total(l, S)
  <2>1. Total(r, S) = Total(x, S) + Total(y, S)
    BY <1>1, <1>4, TotalSum
  <2>2. Total(r, S) <= Total(l, S)
    BY <1>1, <1>4, TotalOrder
  <2>3. QED
    BY <2>1, <2>2
<1> DEFINE A == Total(f, S)
           E == Total(e, S)
           D == Total(w, S)
           a == A \div D
           t == E \div D
<1>8. 1001 * E + 1000 * D <= 1000 * A /\ A \in Nat /\ E \in Nat /\ D \in Nat \ {0}
  BY <1>5, <1>6, <1>7
<1>9. PeriodActual(rec, S) = a /\ PeriodTarget(rec, S) = t
  BY <1>2, <1>3, SumIs
<1> HIDE DEF A, E, D
<1>10. a \in Int /\ t \in Int /\ A < D * a + D /\ D * t <= E
  <2>1. a \in Int /\ A < D * a + D
    BY <1>8, DivBounds
  <2>2. t \in Int /\ D * t <= E
    BY <1>8, DivBounds
  <2>3. QED
    BY <2>1, <2>2
<1> HIDE DEF a, t
<1>11. a > t
  <2>1. E + D <= A
    BY <1>8
  <2>2. D * t < D * a
    <3>1. D * t \in Int /\ D * a \in Int
      BY <1>8, <1>10
    <3>2. QED
      BY <2>1, <1>8, <1>10, <3>1
  <2>3. SUFFICES ASSUME a <= t PROVE FALSE
    BY <1>10
  <2>4. D * a <= D * t
    BY <1>8, <1>10, <2>3
  <2>5. D * t \in Int /\ D * a \in Int
    BY <1>8, <1>10
  <2>6. QED
    BY <2>2, <2>4, <2>5
<1>12. 1000 * a >= 1001 * t
  <2> DEFINE p == D * a
             q == D * t
  <2>1. p \in Int /\ q \in Int
    BY <1>8, <1>10
  <2>2. A < p + D /\ q <= E
    BY <1>10
  <2> HIDE DEF p, q
  <2>3. 1001 * q < 1000 * p
    BY <1>8, <2>1, <2>2
  <2>4. SUFFICES ASSUME 1000 * a < 1001 * t PROVE FALSE
    BY <1>10
  <2>5. D * (1000 * a) <= D * (1001 * t)
    <3> DEFINE u == 1000 * a
               v == 1001 * t
    <3>1. u \in Int /\ v \in Int /\ u <= v
      BY <1>10, <2>4
    <3> HIDE DEF u, v
    <3>2. D * u <= D * v
      BY <1>8, <3>1
    <3>3. QED
      BY <3>2 DEF u, v
  <2>6. D * (1000 * a) = 1000 * (D * a) /\ D * (1001 * t) = 1001 * (D * t)
    BY <1>8, <1>10
  <2>7. 1000 * p <= 1001 * q
    BY <2>5, <2>6 DEF p, q
  <2>8. QED
    BY <2>1, <2>3, <2>7
<1>13. QED
  BY <1>9, <1>11, <1>12

AllOffTarget(k, rec, S) == \A c \in S : OffTarget(k, rec[c])

LEMMA PeriodScoreOff ==
  ASSUME NEW S, IsFiniteSet(S), S # {}, NEW k \in Kpis, k # "OEE", NEW rec,
         AreReadings(k, rec, S), AllOffTarget(k, rec, S)
  PROVE  PeriodScore(rec, k, S) <= 9999
<1>1. CASE k = "AGIR_GITME"
  <2> DEFINE q == HeavyRatio(rec, S)
  <2>1. q >= 1001
    BY <1>1, HeavyOff DEF AreReadings, AllOffTarget
  <2>2. q \in Nat
    <3>1. NoneWorse(k, rec, rec, S)
      BY NoWorseThanItself
    <3>2. QED
      BY <1>1, <3>1, HeavyOrder DEF AreReadings, NoneWorse
  <2>3. PeriodScore(rec, k, S) = Capped(RatioPiecewise(q, 9, 12))
    BY <1>1 DEF PeriodScore
  <2> HIDE DEF q
  <2>4. RatioPiecewise(q, 9, 12) \in Int /\ RatioPiecewise(q, 9, 12) <= 9999
    BY <2>1, <2>2, RatioOff
  <2>5. QED
    BY <2>3, <2>4, CappedOff
<1>2. CASE k = "PLANA_UYUM"
  <2>1. PeriodScore(rec, k, S) = PlanScore(rec, S)
    BY <1>2 DEF PeriodScore
  <2>2. QED
    BY <1>2, <2>1, PlanScoreOff DEF AreReadings, AllOffTarget
<1>3. CASE k \in {"GSF", "ISKARTA", "INKITA"}
  <2> DEFINE a == PeriodActual(rec, S)
             t == PeriodTarget(rec, S)
  <2>1. \A c \in S : /\ rec[c].num \in Nat /\ rec[c].den \in Nat \ {0} /\ rec[c].target \in Nat
                     /\ rec[c].num * 10000000 >= (1001 * rec[c].target + 1000) * rec[c].den
    BY <1>3 DEF AreReadings, AllOffTarget, IsReading, OffTarget, LowerIsBetter, Abs
  <2>2. a > t /\ 1000 * a >= 1001 * t
    BY <2>1, PeriodOff
  <2>3. /\ a \in Nat /\ t \in Nat
        /\ (\A c \in S : rec[c].target # 0) => t # 0
    <3>1. LessAndMore(rec, rec, S)
      BY <2>1 DEF LessAndMore
    <3>2. /\ PeriodActual(rec, S) \in Nat /\ PeriodTarget(rec, S) \in Nat
          /\ (\A c \in S : rec[c].target # 0) => PeriodTarget(rec, S) # 0
      BY <3>1, PeriodOrder
    <3>3. QED
      BY <3>2
  <2>4. PeriodScore(rec, k, S) = calculate_custom_score(k, a, t)
    BY <1>3 DEF PeriodScore
  <2>5. k = "ISKARTA" => t # 0
    <3>1. k = "ISKARTA" => \A c \in S : rec[c].target # 0
      BY DEF AreReadings, IsReading
    <3>2. QED
      BY <2>3, <3>1
  <2> HIDE DEF a, t
  <2>6. CASE k = "GSF"
    <3>1. calculate_custom_score(k, a, t) = Capped(Hybrid(a, t, 5, 10, 16))
      BY <2>6 DEF calculate_custom_score
    <3>2. Hybrid(a, t, 5, 10, 16) \in Int /\ Hybrid(a, t, 5, 10, 16) <= 9999
      BY <2>2, <2>3, HybridOff
    <3>3. QED
      BY <2>4, <3>1, <3>2, CappedOff
  <2>7. CASE k = "INKITA"
    <3>1. calculate_custom_score(k, a, t) = Capped(Hybrid(a, t, 50, 6, 10))
      BY <2>7 DEF calculate_custom_score
    <3>2. Hybrid(a, t, 50, 6, 10) \in Int /\ Hybrid(a, t, 50, 6, 10) <= 9999
      BY <2>2, <2>3, HybridOff
    <3>3. QED
      BY <2>4, <3>1, <3>2, CappedOff
  <2>8. CASE k = "ISKARTA"
    <3> DEFINE q == (a * 1000) \div t
    <3>1. calculate_custom_score(k, a, t) = Capped(RatioPiecewise(q, 12, 12))
      BY <2>8 DEF calculate_custom_score
    <3>2. q \in Int /\ q >= 1001
      <4> DEFINE n == a * 1000
      <4>1. n \in Int /\ 1001 * t <= n /\ t \in Nat \ {0}
        BY <2>2, <2>3, <2>5, <2>8
      <4> HIDE DEF n
      <4>2. n \div t \in Int /\ n \div t >= 1001
        BY <4>1, DivAtLeast, DivBounds
      <4>3. QED
        BY <4>2 DEF n
    <3> HIDE DEF q
    <3>3. RatioPiecewise(q, 12, 12) \in Int /\ RatioPiecewise(q, 12, 12) <= 9999
      <4>1. q \in Nat
        BY <3>2
      <4>2. QED
        BY <3>2, <4>1, RatioOff
    <3>4. QED
      BY <2>4, <3>1, <3>3, CappedOff
  <2>9. QED
    BY <1>3, <2>6, <2>7, <2>8
<1>4. QED
  BY <1>1, <1>2, <1>3 DEF Kpis, LowerIsBetter, HigherIsBetter

LEMMA MeanScoreOff ==
  ASSUME NEW P, NEW part, Parts(part, P), NEW k \in Kpis, k # "OEE", NEW rec,
         \A p \in P : AreReadings(k, rec, part[p]) /\ AllOffTarget(k, rec, part[p])
  PROVE  MeanScore(rec, k, part, P) <= 9999
<1> DEFINE f == [p \in P |-> PeriodScore(rec, k, part[p])]
           w == [p \in P |-> 1]
<1>1. ASSUME NEW p \in P PROVE f[p] \in Nat /\ f[p] <= 9999 * w[p] /\ w[p] \in Nat \ {0} /\ w[p] = 1
  <2>1. IsFiniteSet(part[p]) /\ part[p] # {} /\ NoneWorse(k, rec, rec, part[p])
    BY NoWorseThanItself DEF Parts
  <2>2. f[p] = PeriodScore(rec, k, part[p]) /\ 9999 * w[p] = 9999 /\ w[p] = 1
    OBVIOUS
  <2> HIDE DEF f, w
  <2>3. PeriodScore(rec, k, part[p]) \in Nat
    BY <2>1, PeriodScores
  <2>4. PeriodScore(rec, k, part[p]) <= 9999
    BY <2>1, PeriodScoreOff
  <2>5. QED
    BY <2>2, <2>3, <2>4
<1>2. MeanScore(rec, k, part, P) = SumOf(f, P) \div Cardinality(P)
  BY DEF MeanScore
<1>3. IsFiniteSet(P) /\ P # {}
  BY DEF Parts
<1> HIDE DEF f, w
<1>4. SumOf(w, P) = Cardinality(P)
  <2>1. Total(w, P) = Cardinality(P) * 1
    BY <1>1, <1>3, TotalConstant
  <2>2. Cardinality(P) \in Nat
    BY <1>3, FS_CardinalityType
  <2>3. QED
    BY <2>1, <2>2, SumIs
<1>5. (\A p \in P : f[p] <= 9999 * w[p]) => SumOf(f, P) \div SumOf(w, P) <= 9999
  BY <1>1, <1>3, MeanLimits
<1>6. QED
  BY <1>1, <1>2, <1>4, <1>5

-----------------------------------------------------------------------------
(* The records of a foreman, and the scores made of them.                  *)

RecordsFit(rec) == \A c \in Cells : rec[c] \in Readings[c[2]] \union {NoRecord}

Improvement(old, new) ==
  \A c \in Cells :
    \/ new[c] = old[c]
    \/ /\ old[c] # NoRecord /\ new[c] # NoRecord
       /\ NoWorse(c[2], old[c], new[c])

RowsIn(rec, k, P) == {c \in P \X {k} \X Days : rec[c] # NoRecord}
CoveredIn(rec) == {k \in Kpis : RowsIn(rec, k, Plants) # {}}
PlantsIn(rec, k) == {p \in Plants : RowsIn(rec, k, {p}) # {}}
PartsIn(rec, k) == [p \in PlantsIn(rec, k) |-> RowsIn(rec, k, {p})]
ForemanIn(rec, k) == MeanScore(rec, k, PartsIn(rec, k), PlantsIn(rec, k))
GroupIn(rec, k) == PeriodScore(rec, k, RowsIn(rec, k, Plants))

LEMMA KpisFinite == IsFiniteSet(Kpis)
<1>1. Kpis = LowerIsBetter \union HigherIsBetter
  BY DEF Kpis
<1>2. LowerIsBetter = ((({} \union {"AGIR_GITME"}) \union {"GSF"}) \union {"ISKARTA"}) \union {"INKITA"}
  BY DEF LowerIsBetter
<1>3. HigherIsBetter = ({} \union {"PLANA_UYUM"}) \union {"OEE"}
  BY DEF HigherIsBetter
<1>4. IsFiniteSet(LowerIsBetter)
  <2>1. IsFiniteSet({} \union {"AGIR_GITME"})
    BY FS_EmptySet, FS_AddElement
  <2>2. IsFiniteSet(({} \union {"AGIR_GITME"}) \union {"GSF"})
    BY <2>1, FS_AddElement
  <2>3. IsFiniteSet((({} \union {"AGIR_GITME"}) \union {"GSF"}) \union {"ISKARTA"})
    BY <2>2, FS_AddElement
  <2>4. QED
    BY <1>2, <2>3, FS_AddElement
<1>5. IsFiniteSet(HigherIsBetter)
  <2>1. IsFiniteSet({} \union {"PLANA_UYUM"})
    BY FS_EmptySet, FS_AddElement
  <2>2. QED
    BY <1>3, <2>1, FS_AddElement
<1>6. QED
  BY <1>1, <1>4, <1>5, FS_Union

\* The records of a KPI are readings of it, and there are finitely many.
LEMMA RowsAre ==
  ASSUME NEW rec, RecordsFit(rec), NEW k \in Kpis, NEW P \in SUBSET Plants
  PROVE  /\ IsFiniteSet(RowsIn(rec, k, P)) /\ RowsIn(rec, k, P) \subseteq Cells
         /\ AreReadings(k, rec, RowsIn(rec, k, P))
         /\ RowsIn(rec, k, P) \subseteq RowsIn(rec, k, Plants)
         /\ \A c \in RowsIn(rec, k, P) : c[2] = k /\ rec[c] # NoRecord
<1>1. \A c \in RowsIn(rec, k, P) : c \in Cells /\ c[2] = k /\ rec[c] # NoRecord
  BY DEF RowsIn, Cells
<1>2. RowsIn(rec, k, P) \subseteq RowsIn(rec, k, Plants)
  BY DEF RowsIn
<1>3. IsFiniteSet(RowsIn(rec, k, P))
  <2> DEFINE f == [x \in P \X Days |-> <<x[1], k, x[2]>>]
  <2>1. IsFiniteSet(P \X Days)
    <3>1. IsFiniteSet(P) /\ IsFiniteSet(Days)
      BY ScoringAssumption, FS_Subset
    <3>2. QED
      BY <3>1, FS_Product
  <2>2. f \in Surjection(P \X Days, P \X {k} \X Days)
    <3>1. \A x \in P \X Days : f[x] \in P \X {k} \X Days
      OBVIOUS
    <3>2. ASSUME NEW y \in P \X {k} \X Days PROVE \E x \in P \X Days : f[x] = y
      <4>1. <<y[1], y[3]>> \in P \X Days /\ y = <<y[1], k, y[3]>>
        OBVIOUS
      <4>2. f[<<y[1], y[3]>>] = <<y[1], k, y[3]>>
        BY <4>1
      <4>3. QED
        BY <4>1, <4>2
    <3>3. QED
      BY <3>1, <3>2 DEF Surjection
  <2>3. IsFiniteSet(P \X {k} \X Days)
    BY <2>1, <2>2, FS_Surjection
  <2>4. RowsIn(rec, k, P) \in SUBSET (P \X {k} \X Days)
    BY DEF RowsIn
  <2>5. QED
    BY <2>3, <2>4, FS_Subset
<1>4. AreReadings(k, rec, RowsIn(rec, k, P))
  <2>1. ASSUME NEW c \in RowsIn(rec, k, P) PROVE IsReading(k, rec[c])
    <3>1. rec[c] \in Readings[k]
      BY <1>1 DEF RecordsFit
    <3>2. QED
      BY <3>1, ScoringAssumption
  <2>2. QED
    BY <2>1 DEF AreReadings
<1>5. QED
  BY <1>1, <1>2, <1>3, <1>4

\* A KPI that is covered has plants, each with records.
LEMMA PartsAre ==
  ASSUME NEW rec, RecordsFit(rec), NEW k \in CoveredIn(rec)
  PROVE  /\ k \in Kpis /\ RowsIn(rec, k, Plants) # {}
         /\ Parts(PartsIn(rec, k), PlantsIn(rec, k))
         /\ \A p \in PlantsIn(rec, k) :
              /\ PartsIn(rec, k)[p] = RowsIn(rec, k, {p}) /\ {p} \in SUBSET Plants
              /\ AreReadings(k, rec, PartsIn(rec, k)[p])
              /\ PartsIn(rec, k)[p] \subseteq RowsIn(rec, k, Plants)
<1>1. k \in Kpis /\ RowsIn(rec, k, Plants) # {}
  BY DEF CoveredIn
<1>2. \A p \in PlantsIn(rec, k) :
        /\ PartsIn(rec, k)[p] = RowsIn(rec, k, {p}) /\ {p} \in SUBSET Plants
        /\ RowsIn(rec, k, {p}) # {}
  BY DEF PartsIn, PlantsIn
<1>3. \A p \in PlantsIn(rec, k) :
        /\ IsFiniteSet(RowsIn(rec, k, {p})) /\ AreReadings(k, rec, RowsIn(rec, k, {p}))
        /\ RowsIn(rec, k, {p}) \subseteq RowsIn(rec, k, Plants)
  BY <1>1, <1>2, RowsAre
<1>4. IsFiniteSet(PlantsIn(rec, k))
  <2>1. PlantsIn(rec, k) \in SUBSET Plants
    BY DEF PlantsIn
  <2>2. QED
    BY <2>1, ScoringAssumption, FS_Subset
<1>5. PlantsIn(rec, k) # {}
  <2>1. PICK c : c \in RowsIn(rec, k, Plants)
    BY <1>1
  <2>2. c[1] \in Plants /\ c \in RowsIn(rec, k, {c[1]})
    BY <2>1 DEF RowsIn
  <2>3. QED
    BY <2>2 DEF PlantsIn
<1>6. QED
  BY <1>1, <1>2, <1>3, <1>4, <1>5 DEF Parts

\* The scores of covered KPIs.
LEMMA CoveredScores ==
  ASSUME NEW rec, RecordsFit(rec), NEW k \in CoveredIn(rec)
  PROVE  /\ \A P \in SUBSET Plants : RowsIn(rec, k, P) # {} =>
              /\ PeriodScore(rec, k, RowsIn(rec, k, P)) \in Nat
              /\ k = "OEE" => PeriodScore(rec, k, RowsIn(rec, k, P)) <= 10500
         /\ GroupIn(rec, k) \in Nat /\ ForemanIn(rec, k) \in Nat
<1>1. ASSUME NEW P \in SUBSET Plants, RowsIn(rec, k, P) # {}
      PROVE  /\ PeriodScore(rec, k, RowsIn(rec, k, P)) \in Nat
             /\ k = "OEE" => PeriodScore(rec, k, RowsIn(rec, k, P)) <= 10500
  <2>1. k \in Kpis
    BY PartsAre
  <2>2. IsFiniteSet(RowsIn(rec, k, P)) /\ AreReadings(k, rec, RowsIn(rec, k, P))
    BY <2>1, RowsAre
  <2>3. QED
    BY <1>1, <2>1, <2>2, ScoresInRange
<1>2. GroupIn(rec, k) \in Nat
  <2>1. RowsIn(rec, k, Plants) # {}
    BY PartsAre
  <2>2. QED
    BY <1>1, <2>1 DEF GroupIn
<1>3. ForemanIn(rec, k) \in Nat
  <2>1. /\ k \in Kpis /\ Parts(PartsIn(rec, k), PlantsIn(rec, k))
        /\ \A p \in PlantsIn(rec, k) : AreReadings(k, rec, PartsIn(rec, k)[p])
    BY PartsAre
  <2>2. QED
    BY <2>1, ScoresInRange DEF ForemanIn
<1>4. QED
  BY <1>1, <1>2, <1>3

\* 100 points are the target of the period.
LEMMA CoveredTargets ==
  ASSUME NEW rec, RecordsFit(rec), NEW k \in CoveredIn(rec)
  PROVE  /\ AllOnTarget(k, rec, RowsIn(rec, k, Plants)) =>
              GroupIn(rec, k) >= 10000 /\ ForemanIn(rec, k) >= 10000
         /\ k # "OEE" /\ AllOffTarget(k, rec, RowsIn(rec, k, Plants)) =>
              GroupIn(rec, k) < 10000 /\ ForemanIn(rec, k) < 10000
<1> DEFINE S    == RowsIn(rec, k, Plants)
           part == PartsIn(rec, k)
           P    == PlantsIn(rec, k)
<1>1. /\ k \in Kpis /\ S # {} /\ Parts(part, P)
      /\ \A p \in P : AreReadings(k, rec, part[p]) /\ part[p] \subseteq S
  BY PartsAre
<1>2. IsFiniteSet(S) /\ AreReadings(k, rec, S)
  BY <1>1, RowsAre
<1>3. GroupIn(rec, k) = PeriodScore(rec, k, S) /\ ForemanIn(rec, k) = MeanScore(rec, k, part, P)
  BY DEF GroupIn, ForemanIn
<1>4. GroupIn(rec, k) \in Nat /\ ForemanIn(rec, k) \in Nat
  BY CoveredScores
<1> HIDE DEF S, part, P
<1>5. ASSUME AllOnTarget(k, rec, S) PROVE GroupIn(rec, k) >= 10000 /\ ForemanIn(rec, k) >= 10000
  <2>1. PeriodScore(rec, k, S) >= 10000
    BY <1>1, <1>2, <1>5, TargetIsHundred
  <2>2. \A p \in P : AreReadings(k, rec, part[p]) /\ AllOnTarget(k, rec, part[p])
    BY <1>1, <1>5 DEF AllOnTarget
  <2>3. MeanScore(rec, k, part, P) >= 10000
    BY <1>1, <2>2, TargetIsHundred
  <2>4. QED
    BY <1>3, <2>1, <2>3
<1>6. ASSUME k # "OEE", AllOffTarget(k, rec, S)
      PROVE  GroupIn(rec, k) < 10000 /\ ForemanIn(rec, k) < 10000
  <2>1. PeriodScore(rec, k, S) <= 9999
    BY <1>1, <1>2, <1>6, PeriodScoreOff
  <2>2. \A p \in P : AreReadings(k, rec, part[p]) /\ AllOffTarget(k, rec, part[p])
    BY <1>1, <1>6 DEF AllOffTarget
  <2>3. MeanScore(rec, k, part, P) <= 9999
    BY <1>1, <1>6, <2>2, MeanScoreOff
  <2>4. QED
    BY <1>3, <1>4, <2>1, <2>3
<1>7. QED
  BY <1>5, <1>6 DEF S

\* Improved records are of the same plants, KPIs and days, and score no less.
LEMMA ImprovedScores ==
  ASSUME NEW old, NEW new, RecordsFit(old), RecordsFit(new), Improvement(old, new)
  PROVE  /\ \A k \in Kpis : \A P \in SUBSET Plants : RowsIn(new, k, P) = RowsIn(old, k, P)
         /\ CoveredIn(new) = CoveredIn(old)
         /\ \A k \in CoveredIn(old) :
              GroupIn(new, k) >= GroupIn(old, k) /\ ForemanIn(new, k) >= ForemanIn(old, k)
<1>1. ASSUME NEW k \in Kpis, NEW P \in SUBSET Plants PROVE RowsIn(new, k, P) = RowsIn(old, k, P)
  <2>1. \A c \in P \X {k} \X Days : new[c] # NoRecord <=> old[c] # NoRecord
    BY DEF Improvement, Cells
  <2>2. QED
    BY <2>1 DEF RowsIn
<1>2. CoveredIn(new) = CoveredIn(old)
  BY <1>1 DEF CoveredIn
<1>3. ASSUME NEW k \in CoveredIn(old)
      PROVE  GroupIn(new, k) >= GroupIn(old, k) /\ ForemanIn(new, k) >= ForemanIn(old, k)
  <2> DEFINE S    == RowsIn(old, k, Plants)
             part == PartsIn(old, k)
             P    == PlantsIn(old, k)
  <2>1. /\ k \in Kpis /\ S # {} /\ Parts(part, P)
        /\ \A p \in P : AreReadings(k, old, part[p]) /\ part[p] \subseteq S
    BY PartsAre
  <2>2. IsFiniteSet(S) /\ AreReadings(k, old, S) /\ S \subseteq Cells /\ \A c \in S : c[2] = k
    BY <2>1, RowsAre
  <2>3. S = RowsIn(new, k, Plants)
    BY <2>1, <1>1
  <2>4. PlantsIn(new, k) = P
    BY <2>1, <1>1 DEF PlantsIn
  <2>5. PartsIn(new, k) = part
    <3>1. \A p \in P : {p} \in SUBSET Plants
      BY DEF PlantsIn
    <3>2. \A p \in P : RowsIn(new, k, {p}) = RowsIn(old, k, {p})
      BY <2>1, <3>1, <1>1
    <3>3. QED
      BY <2>4, <3>2 DEF PartsIn
  <2>6. AreReadings(k, new, S)
    BY <2>1, <2>3, RowsAre
  <2>7. /\ GroupIn(old, k) = PeriodScore(old, k, S) /\ ForemanIn(old, k) = MeanScore(old, k, part, P)
        /\ GroupIn(new, k) = PeriodScore(new, k, S) /\ ForemanIn(new, k) = MeanScore(new, k, part, P)
    BY <2>3, <2>4, <2>5 DEF GroupIn, ForemanIn
  <2> HIDE DEF S, part, P
  <2>8. NoneWorse(k, old, new, S)
    <3>1. ASSUME NEW c \in S PROVE NoWorse(k, old[c], new[c])
      <4>1. NoneWorse(k, old, old, S)
        BY <2>2, NoWorseThanItself
      <4>2. NoWorse(k, old[c], old[c])
        BY <4>1 DEF NoneWorse
      <4>3. new[c] = old[c] \/ NoWorse(k, old[c], new[c])
        BY <2>2 DEF Improvement
      <4>4. QED
        BY <4>2, <4>3
    <3>2. QED
      BY <3>1 DEF NoneWorse
  <2>9. PeriodScore(new, k, S) >= PeriodScore(old, k, S)
    BY <2>1, <2>2, <2>6, <2>8, BetterWorkScoresNoLess
  <2>10. \A p \in P : /\ AreReadings(k, old, part[p]) /\ AreReadings(k, new, part[p])
                      /\ NoneWorse(k, old, new, part[p])
    BY <2>1, <2>6, <2>8 DEF AreReadings, NoneWorse
  <2>11. MeanScore(new, k, part, P) >= MeanScore(old, k, part, P)
    BY <2>1, <2>10, BetterWorkScoresNoLess
  <2>12. QED
    BY <2>7, <2>9, <2>11
<1>4. QED
  BY <1>1, <1>2, <1>3

-----------------------------------------------------------------------------
(* Totals and levels.                                                      *)

Multiple(s, C) == ProductOf([k \in C |-> Power(s[k], Weight[k])], C)
TotalIn(s, C, A) ==
  IF 2 * WeightOf(C) < WeightOf(A) THEN [product |-> 0, degree |-> 1]
  ELSE [product |-> Multiple(s, C), degree |-> WeightOf(C)]

LEMMA WeightNat == \A C \in SUBSET Kpis : IsFiniteSet(C) /\ WeightOf(C) \in Nat
<1>1. \A C \in SUBSET Kpis : IsFiniteSet(C)
  BY KpisFinite, FS_Subset
<1>2. \A k \in Kpis : Weight[k] \in Nat
  BY ScoringAssumption
<1>3. \A C \in SUBSET Kpis : Total(Weight, C) \in Nat
  BY <1>2, KpisFinite, TotalNat
<1>4. QED
  BY <1>1, <1>3, SumIs DEF WeightOf

LEMMA MultipleOrder ==
  ASSUME NEW C \in SUBSET Kpis, NEW s, NEW z, \A k \in C : s[k] \in Nat /\ z[k] \in Nat /\ s[k] <= z[k]
  PROVE  Multiple(s, C) \in Nat /\ Multiple(z, C) \in Nat /\ Multiple(s, C) <= Multiple(z, C)
<1> DEFINE f == [k \in C |-> Power(s[k], Weight[k])]
           h == [k \in C |-> Power(z[k], Weight[k])]
<1>1. IsFiniteSet(C)
  BY WeightNat
<1>2. ASSUME NEW k \in C PROVE f[k] \in Nat /\ h[k] \in Nat /\ f[k] <= h[k]
  <2>1. Weight[k] \in Nat /\ s[k] \in Nat /\ z[k] \in Nat /\ s[k] <= z[k]
    BY ScoringAssumption
  <2>2. f[k] = Power(s[k], Weight[k]) /\ h[k] = Power(z[k], Weight[k])
    OBVIOUS
  <2> HIDE DEF f, h
  <2>3. Power(s[k], Weight[k]) \in Nat
    BY <2>1, PowerNat
  <2>4. Power(z[k], Weight[k]) \in Nat
    BY <2>1, PowerNat
  <2>5. Power(s[k], Weight[k]) <= Power(z[k], Weight[k])
    BY <2>1, PowerOrder
  <2>6. QED
    BY <2>2, <2>3, <2>4, <2>5
<1>3. Multiple(s, C) = Product(f, C) /\ Multiple(z, C) = Product(h, C)
  BY ProductOfIs DEF Multiple
<1> HIDE DEF f, h
<1>4. Product(f, C) \in Nat
  BY <1>1, <1>2, ProductNat
<1>5. Product(h, C) \in Nat
  BY <1>1, <1>2, ProductNat
<1>6. Product(f, C) <= Product(h, C)
  BY <1>1, <1>2, ProductOrder
<1>7. QED
  BY <1>3, <1>4, <1>5, <1>6

LEMMA TotalInOrder ==
  ASSUME NEW C \in SUBSET Kpis, NEW A, NEW s, NEW z,
         \A k \in C : s[k] \in Nat /\ z[k] \in Nat /\ s[k] <= z[k]
  PROVE  /\ TotalIn(s, C, A).product \in Nat /\ TotalIn(z, C, A).product \in Nat
         /\ TotalIn(s, C, A).product <= TotalIn(z, C, A).product
         /\ TotalIn(s, C, A).degree \in Nat /\ TotalIn(z, C, A).degree = TotalIn(s, C, A).degree
<1>1. Multiple(s, C) \in Nat /\ Multiple(z, C) \in Nat /\ Multiple(s, C) <= Multiple(z, C)
  BY MultipleOrder
<1>2. WeightOf(C) \in Nat
  BY WeightNat
<1>3. QED
  BY <1>1, <1>2 DEF TotalIn

\* One KPI without points takes all away, and the total is no more than the
\* arithmetic mean.
LEMMA TotalInHidesNothing ==
  ASSUME NEW C \in SUBSET Kpis, C # {}, NEW A, NEW s, \A k \in C : s[k] \in Nat
  PROVE  LET total    == TotalIn(s, C, A)
             weighted == [k \in C |-> Weight[k] * s[k]]
         IN  /\ (\E k \in C : s[k] = 0) => total.product = 0
             /\ total.product * Power(WeightOf(C), total.degree)
                  <= Power(SumOf(weighted, C), total.degree)
<1> DEFINE f == [k \in C |-> Power(s[k], Weight[k])]
           h == [k \in C |-> Weight[k] * s[k]]
           t == TotalIn(s, C, A)
<1>1. IsFiniteSet(C) /\ WeightOf(C) \in Nat
  BY WeightNat
<1>2. \A k \in C : /\ s[k] \in Nat /\ Weight[k] \in Nat /\ Weight[k] # 0
                   /\ f[k] = Power(s[k], Weight[k]) /\ h[k] = Weight[k] * s[k]
  BY ScoringAssumption
<1>3. Multiple(s, C) = Product(f, C) /\ WeightOf(C) = Total(Weight, C) /\ SumOf(h, C) = Total(h, C)
  BY ProductOfIs, SumIs DEF Multiple, WeightOf
<1> HIDE DEF f, h
<1>4. \A k \in C : f[k] \in Nat /\ h[k] \in Nat
  <2> SUFFICES ASSUME NEW k \in C PROVE f[k] \in Nat /\ h[k] \in Nat
    OBVIOUS
  <2>1. Power(s[k], Weight[k]) \in Nat
    BY <1>2, PowerNat
  <2>2. Weight[k] * s[k] \in Nat
    BY <1>2
  <2>3. QED
    BY <1>2, <2>1, <2>2
<1>5. Total(h, C) \in Nat
  BY <1>1, <1>4, TotalNat
<1>6. CASE 2 * WeightOf(C) < WeightOf(A)
  <2>1. t.product = 0 /\ t.degree = 1
    BY <1>6 DEF TotalIn
  <2>2. 0 * Power(WeightOf(C), 1) <= Power(Total(h, C), 1)
    <3>1. Power(WeightOf(C), 1) \in Nat
      BY <1>1, PowerNat
    <3>2. Power(Total(h, C), 1) \in Nat
      BY <1>5, PowerNat
    <3>3. QED
      BY <3>1, <3>2
  <2>3. QED
    BY <1>3, <2>1, <2>2 DEF h
<1>7. CASE ~(2 * WeightOf(C) < WeightOf(A))
  <2>1. t.product = Product(f, C) /\ t.degree = WeightOf(C)
    BY <1>3, <1>7 DEF TotalIn
  <2>2. ASSUME NEW k \in C, s[k] = 0 PROVE Product(f, C) = 0
    <3>1. Power(0, Weight[k]) = 0
      BY <1>2, PowerZero
    <3>2. f[k] = 0
      BY <1>2, <2>2, <3>1
    <3>3. QED
      BY <1>1, <1>4, <3>2, ProductZero
  <2>3. Means(Product(f, C), Total(Weight, C), Total(h, C))
    BY <1>1, <1>2, GeometricMean
  <2>4. Product(f, C) * Power(WeightOf(C), WeightOf(C)) <= Power(Total(h, C), WeightOf(C))
    BY <1>3, <2>3 DEF Means
  <2>5. QED
    BY <1>3, <2>1, <2>2, <2>4 DEF h
<1>8. QED
  BY <1>6, <1>7

\* What reaches a number still does when it grows; and numbers in order.
LEMMA Reaches ==
  ASSUME NEW t, NEW z, t.product \in Nat, z.product \in Nat, t.product <= z.product,
         t.degree \in Nat, z.degree = t.degree
  PROVE  /\ \A b \in Nat : AtLeast(t, b) => AtLeast(z, b)
         /\ \A b \in Nat : AtMost(z, b) => AtMost(t, b)
         /\ \A b, c \in Nat : b <= c /\ AtLeast(t, c) => AtLeast(t, b)
         /\ \A b \in Nat : AtLeast(t, b) \/ AtMost(t, b)
<1>1. \A b \in Nat : Power(b, t.degree) \in Nat
  BY PowerNat
<1>2. \A b, c \in Nat : b <= c => Power(b, t.degree) <= Power(c, t.degree)
  BY PowerOrder
<1>3. \A b \in Nat : AtLeast(t, b) => AtLeast(z, b)
  BY <1>1 DEF AtLeast
<1>4. \A b \in Nat : AtMost(z, b) => AtMost(t, b)
  BY <1>1 DEF AtMost
<1>5. \A b, c \in Nat : b <= c /\ AtLeast(t, c) => AtLeast(t, b)
  BY <1>1, <1>2 DEF AtLeast
<1>6. \A b \in Nat : AtLeast(t, b) \/ AtMost(t, b)
  BY <1>1 DEF AtLeast, AtMost
<1>7. QED
  BY <1>3, <1>4, <1>5, <1>6

LevelsOf(t) ==
  {i \in DOMAIN Levels : AtLeast(t, Levels[i].min) /\ AtMost(t, Levels[i].max)}

LEMMA LevelIs ==
  ASSUME NEW t
  PROVE  /\ LevelsOf(t) # {} => Level(t) \in LevelsOf(t) /\ \A i \in LevelsOf(t) : Level(t) <= i
         /\ LevelsOf(t) = {} /\ ~AtLeast(t, Levels[1].min) => Level(t) = 1
         /\ LevelsOf(t) = {} /\ AtLeast(t, Levels[1].min) => Level(t) = Len(Levels)
<1>1. Level(t) = IF LevelsOf(t) # {} THEN Min(LevelsOf(t))
                 ELSE IF ~AtLeast(t, Levels[1].min) THEN 1 ELSE Len(Levels)
  BY DEF Level, LevelsOf
<1>2. ASSUME LevelsOf(t) # {}
      PROVE  Min(LevelsOf(t)) \in LevelsOf(t) /\ \A i \in LevelsOf(t) : Min(LevelsOf(t)) <= i
  <2>1. LevelsOf(t) \subseteq Nat
    BY ScoringAssumption DEF LevelsOf
  <2>2. \E m \in LevelsOf(t) : \A i \in LevelsOf(t) : m <= i
    BY <1>2, <2>1, SmallestNumber
  <2>3. QED
    BY <2>2 DEF Min
<1>3. QED
  BY <1>1, <1>2

\* A total that is no less has no lower a level, unless the other was in a gap.
LEMMA LevelOrder ==
  ASSUME NEW t, NEW z, t.product \in Nat, z.product \in Nat, t.product <= z.product,
         t.degree \in Nat, z.degree = t.degree
  PROVE  Level(z) >= Level(t) \/ InGap(t)
<1> DEFINE n == Len(Levels)
           lo(i) == Levels[i].min
           hi(i) == Levels[i].max
<1>1. /\ n \in Nat \ {0} /\ DOMAIN Levels = 1 .. n
      /\ \A i \in 1 .. n : lo(i) \in Nat /\ hi(i) \in Nat
      /\ \A i, j \in 1 .. n : i <= j => lo(i) <= lo(j)
  <2>1. /\ Levels # <<>> /\ Levels \in Seq([min : Nat, max : Nat])
        /\ \A i, j \in DOMAIN Levels : i <= j => Levels[i].min <= Levels[j].min
    BY ScoringAssumption
  <2>2. Len(Levels) \in Nat /\ DOMAIN Levels = 1 .. Len(Levels) /\ Len(Levels) # 0
    BY <2>1
  <2>3. \A i \in 1 .. Len(Levels) : Levels[i] \in [min : Nat, max : Nat]
    <3> DEFINE R == [min : Nat, max : Nat]
    <3>1. Levels \in Seq(R)
      BY <2>1
    <3> HIDE DEF R
    <3>2. \A i \in 1 .. Len(Levels) : Levels[i] \in R
      BY <3>1, <2>2
    <3>3. QED
      BY <3>2 DEF R
  <2>4. QED
    BY <2>1, <2>2, <2>3
<1>2. /\ \A i \in 1 .. n : AtLeast(t, lo(i)) => AtLeast(z, lo(i))
      /\ \A i \in 1 .. n : AtMost(z, hi(i)) => AtMost(t, hi(i))
      /\ \A i, j \in 1 .. n : i <= j /\ AtLeast(t, lo(j)) => AtLeast(t, lo(i))
  <2>1. /\ \A b \in Nat : AtLeast(t, b) => AtLeast(z, b)
        /\ \A b \in Nat : AtMost(z, b) => AtMost(t, b)
        /\ \A b, c \in Nat : b <= c /\ AtLeast(t, c) => AtLeast(t, b)
    BY Reaches
  <2> HIDE DEF n
  <2>2. QED
    BY <1>1, <2>1
<1>3. \A x : LevelsOf(x) = {i \in 1 .. n : AtLeast(x, lo(i)) /\ AtMost(x, hi(i))}
  BY <1>1 DEF LevelsOf
<1>4. ASSUME NEW x
      PROVE  /\ Level(x) \in 1 .. n
             /\ LevelsOf(x) # {} => Level(x) \in LevelsOf(x) /\ \A i \in LevelsOf(x) : Level(x) <= i
             /\ LevelsOf(x) = {} /\ ~AtLeast(x, lo(1)) => Level(x) = 1
             /\ LevelsOf(x) = {} /\ AtLeast(x, lo(1)) => Level(x) = n
  <2>1. /\ LevelsOf(x) # {} => Level(x) \in LevelsOf(x) /\ \A i \in LevelsOf(x) : Level(x) <= i
        /\ LevelsOf(x) = {} /\ ~AtLeast(x, lo(1)) => Level(x) = 1
        /\ LevelsOf(x) = {} /\ AtLeast(x, lo(1)) => Level(x) = n
    BY LevelIs
  <2>2. LevelsOf(x) \subseteq 1 .. n /\ 1 \in 1 .. n /\ n \in 1 .. n
    BY <1>1, <1>3
  <2>3. QED
    BY <2>1, <2>2
<1>5. \A x : InGap(x) <=> \E i \in 1 .. n - 1 : ~AtMost(x, hi(i)) /\ ~AtLeast(x, lo(i + 1))
  BY DEF InGap
<1> HIDE DEF n, lo, hi
<1>6. CASE LevelsOf(t) # {}
  <2> DEFINE i == Level(t)
             j == Level(z)
  <2>1. /\ i \in 1 .. n /\ AtLeast(t, lo(i)) /\ AtMost(t, hi(i))
        /\ \A m \in 1 .. n : AtLeast(t, lo(m)) /\ AtMost(t, hi(m)) => i <= m
    BY <1>3, <1>4, <1>6
  <2>2. j \in 1 .. n
    BY <1>4
  <2>3. CASE LevelsOf(z) # {}
    <3>1. AtMost(z, hi(j))
      BY <1>3, <1>4, <2>3
    <3>2. AtMost(t, hi(j))
      BY <1>2, <2>2, <3>1
    <3> HIDE DEF i, j
    <3>3. SUFFICES ASSUME j < i PROVE FALSE
      BY <1>1, <2>1, <2>2 DEF i, j
    <3>4. AtLeast(t, lo(j))
      BY <1>1, <1>2, <2>1, <2>2, <3>3
    <3>5. i <= j
      BY <2>1, <2>2, <3>2, <3>4
    <3>6. QED
      BY <1>1, <2>1, <2>2, <3>3, <3>5
  <2>4. CASE LevelsOf(z) = {}
    <3>1. 1 \in 1 .. n /\ 1 <= i
      BY <1>1, <2>1
    <3>2. AtLeast(z, lo(1))
      BY <1>2, <2>1, <3>1
    <3>3. j = n
      BY <1>4, <2>4, <3>2
    <3>4. i <= n /\ i \in Int /\ n \in Int
      BY <1>1, <2>1
    <3> HIDE DEF i, j
    <3>5. j >= i
      BY <3>3, <3>4
    <3>6. QED
      BY <3>5 DEF i, j
  <2>5. QED
    BY <2>3, <2>4
<1>7. CASE LevelsOf(t) = {} /\ ~AtLeast(t, lo(1))
  <2>1. Level(t) = 1 /\ Level(z) \in 1 .. n
    BY <1>4, <1>7
  <2>2. QED
    BY <1>1, <2>1
<1>8. CASE LevelsOf(t) = {} /\ AtLeast(t, lo(1)) /\ ~InGap(t)
  <2>1. \A i \in 1 .. n : AtLeast(t, lo(i))
    <3> DEFINE Bad == {i \in 1 .. n : ~AtLeast(t, lo(i))}
    <3>1. SUFFICES ASSUME Bad # {} PROVE FALSE
      OBVIOUS
    <3>2. PICK i \in Bad : \A m \in Bad : i <= m
      <4>1. Bad \subseteq Nat
        BY <1>1
      <4> HIDE DEF Bad
      <4>2. QED
        BY <3>1, <4>1, SmallestNumber
    <3>3. i # 1 /\ i \in 1 .. n
      BY <1>8
    <3>4. i - 1 \in 1 .. n - 1 /\ i - 1 \in 1 .. n /\ (i - 1) + 1 = i /\ ~(i <= i - 1)
      BY <1>1, <3>3
    <3>5. AtLeast(t, lo(i - 1))
      BY <3>2, <3>4
    <3>6. ~AtMost(t, hi(i - 1))
      BY <1>3, <1>8, <3>4, <3>5
    <3>7. InGap(t)
      <4>1. ~AtLeast(t, lo((i - 1) + 1))
        BY <3>2, <3>4
      <4>2. QED
        BY <1>5, <3>4, <3>6, <4>1
    <3>8. QED
      BY <1>8, <3>7
  <2>2. \A i \in 1 .. n : ~AtMost(t, hi(i))
    BY <1>3, <1>8, <2>1
  <2>3. LevelsOf(z) = {}
    BY <1>2, <1>3, <2>2
  <2>4. AtLeast(z, lo(1))
    <3>1. 1 \in 1 .. n
      BY <1>1
    <3>2. QED
      BY <1>2, <1>8, <3>1
  <2>5. Level(t) = n /\ Level(z) = n
    BY <1>4, <1>8, <2>3, <2>4
  <2>6. QED
    BY <1>1, <2>5
<1>9. QED
  BY <1>6, <1>7, <1>8

-----------------------------------------------------------------------------
(* Scores in the states of the specification.                              *)

\* The records are readings of their KPIs.
ScoringInv ==
  /\ active \in Selections
  /\ record = [c \in Cells |-> record[c]]
  /\ \A c \in Cells : record[c] \in Readings[c[2]] \union {NoRecord}

LEMMA ScoringInvInit == ScoringInit => ScoringInv
  BY DEF ScoringInit, ScoringInv

LEMMA ScoringInvNext == ScoringInv /\ [ScoringNext]_scoringVars => ScoringInv'
<1> SUFFICES ASSUME ScoringInv, [ScoringNext]_scoringVars PROVE ScoringInv'
  OBVIOUS
<1>1. ASSUME NEW c \in Cells, NEW r \in Readings[c[2]],
             record' = [record EXCEPT ![c] = r], UNCHANGED active
      PROVE  ScoringInv'
  <2>1. record' = [d \in Cells |-> IF d = c THEN r ELSE record[d]]
    BY <1>1 DEF ScoringInv
  <2>2. \A d \in Cells : record'[d] \in Readings[d[2]] \union {NoRecord}
    BY <1>1, <2>1 DEF ScoringInv
  <2>3. record' = [d \in Cells |-> record'[d]]
    BY <2>1
  <2>4. active' \in Selections
    BY <1>1 DEF ScoringInv
  <2>5. Cells' = Cells
    BY DEF Cells
  <2>6. QED
    BY <2>2, <2>3, <2>4, <2>5 DEF ScoringInv
<1>2. ASSUME NEW c \in Cells, NEW r \in Readings[c[2]], Insert(c, r) PROVE ScoringInv'
  BY <1>1, <1>2 DEF Insert
<1>3. ASSUME NEW c \in Cells, NEW r \in Readings[c[2]], Correct(c, r) PROVE ScoringInv'
  BY <1>1, <1>3 DEF Correct
<1>4. CASE UNCHANGED scoringVars
  BY <1>4 DEF scoringVars, ScoringInv
<1>5. QED
  BY <1>2, <1>3, <1>4 DEF ScoringNext

LEMMA ScoringInvCorrect == ScoringSpec => []ScoringInv
  BY ScoringInvInit, ScoringInvNext, PTL DEF ScoringSpec

\* What the views are of, in terms of the records.
LEMMA ViewsAre ==
  /\ \A k, P : Rows(k, P) = RowsIn(record, k, P)
  /\ Covered = CoveredIn(record)
  /\ \A k : ForemanScore(k) = ForemanIn(record, k)
  /\ \A k : PeriodScore(record, k, Rows(k, Plants)) = GroupIn(record, k)
  /\ ForemanTotal = TotalIn([k \in CoveredIn(record) |-> ForemanIn(record, k)],
                            CoveredIn(record), active)
  /\ GroupTotal = TotalIn([k \in CoveredIn(record) |-> GroupIn(record, k)],
                          CoveredIn(record), active)
<1>1. \A k, P : Rows(k, P) = RowsIn(record, k, P)
  BY DEF Rows, Kept, RowsIn
<1>2. Covered = CoveredIn(record)
  BY DEF Covered, Kept, CoveredIn, RowsIn
<1>3. ASSUME NEW k PROVE ForemanScore(k) = ForemanIn(record, k)
  <2>1. PlantsWith(k) = PlantsIn(record, k)
    BY <1>1 DEF PlantsWith, PlantsIn
  <2>2. [p \in PlantsWith(k) |-> Rows(k, {p})] = PartsIn(record, k)
    BY <1>1, <2>1 DEF PartsIn
  <2>3. QED
    BY <2>1, <2>2 DEF ForemanScore, ForemanIn
<1>4. \A k : PeriodScore(record, k, Rows(k, Plants)) = GroupIn(record, k)
  BY <1>1 DEF GroupIn
<1>5. \A s, C : Combine(s, C) = TotalIn(s, C, active)
  BY DEF Combine, Insufficient, TotalIn, Multiple
<1>6. QED
  BY <1>1, <1>2, <1>3, <1>4, <1>5 DEF ForemanTotal, GroupTotal

\* And after a step.
LEMMA ViewsBecome ==
  ASSUME active' = active
  PROVE  /\ \A k : ForemanScore(k)' = ForemanIn(record', k)
         /\ \A k : PeriodScore(record, k, Rows(k, Plants))' = GroupIn(record', k)
         /\ ForemanTotal' = TotalIn([k \in CoveredIn(record') |-> ForemanIn(record', k)],
                                    CoveredIn(record'), active)
         /\ GroupTotal' = TotalIn([k \in CoveredIn(record') |-> GroupIn(record', k)],
                                  CoveredIn(record'), active)
<1>1. \A k, P : Rows(k, P)' = RowsIn(record', k, P)
  BY DEF Rows, Kept, RowsIn
<1>2. Covered' = CoveredIn(record')
  BY DEF Covered, Kept, CoveredIn, RowsIn
<1>3. ASSUME NEW k PROVE ForemanScore(k)' = ForemanIn(record', k)
  <2>1. PlantsWith(k)' = PlantsIn(record', k)
    BY <1>1 DEF PlantsWith, PlantsIn
  <2>2. [p \in PlantsWith(k) |-> Rows(k, {p})]' = PartsIn(record', k)
    BY <1>1, <2>1 DEF PartsIn
  <2>3. QED
    BY <2>1, <2>2 DEF ForemanScore, ForemanIn
<1>4. \A k : PeriodScore(record, k, Rows(k, Plants))' = GroupIn(record', k)
  BY <1>1 DEF GroupIn
<1>5. \A s, C : TotalIn(s, C, active') = TotalIn(s, C, active)
  OBVIOUS
<1>6. ForemanTotal' = TotalIn([k \in CoveredIn(record') |-> ForemanIn(record', k)],
                              CoveredIn(record'), active')
  BY <1>2, <1>3 DEF ForemanTotal, Combine, Insufficient, TotalIn, Multiple
<1>7. GroupTotal' = TotalIn([k \in CoveredIn(record') |-> GroupIn(record', k)],
                            CoveredIn(record'), active')
  BY <1>2, <1>4 DEF GroupTotal, Combine, Insufficient, TotalIn, Multiple
<1>8. QED
  BY <1>3, <1>4, <1>5, <1>6, <1>7

\* A score means the same for every KPI, period and group: it is never
\* negative and OEE has its ceiling; 100 is the target, also of many plants and
\* days with targets of their own; and the weighted geometric mean of
\* kpi_engine.py lets no KPI make up for one that earned nothing and is never
\* above the arithmetic mean: for any plants, days, readings and weights.
THEOREM ScoresMeanTheSameCorrect == ScoringSpec => []ScoresMeanTheSame
<1>1. ScoringInv => ScoresMeanTheSame
  <2> SUFFICES ASSUME ScoringInv PROVE ScoresMeanTheSame
    OBVIOUS
  <2>1. RecordsFit(record)
    BY DEF ScoringInv, RecordsFit
  <2>2. ScoringTypeOK
    <3>1. ASSUME NEW k \in Covered, NEW P \in SUBSET Plants, Rows(k, P) # {}
          PROVE  /\ PeriodScore(record, k, Rows(k, P)) \in Nat
                 /\ k = "OEE" => PeriodScore(record, k, Rows(k, P)) <= 10500
      <4>1. k \in CoveredIn(record) /\ Rows(k, P) = RowsIn(record, k, P)
        BY ViewsAre
      <4>2. QED
        BY <2>1, <3>1, <4>1, CoveredScores
    <3>2. QED
      BY <3>1 DEF ScoringTypeOK, ScoringInv
  <2>3. TargetMeansHundred
    <3> SUFFICES ASSUME NEW k \in Covered
                 PROVE  LET S == Rows(k, Plants)
                        IN  /\ (\A c \in S : OnTarget(k, record[c])) =>
                                 PeriodScore(record, k, S) >= 10000 /\ ForemanScore(k) >= 10000
                            /\ k # "OEE" /\ (\A c \in S : OffTarget(k, record[c])) =>
                                 PeriodScore(record, k, S) < 10000 /\ ForemanScore(k) < 10000
      BY DEF TargetMeansHundred
    <3>1. /\ k \in CoveredIn(record) /\ Rows(k, Plants) = RowsIn(record, k, Plants)
          /\ PeriodScore(record, k, Rows(k, Plants)) = GroupIn(record, k)
          /\ ForemanScore(k) = ForemanIn(record, k)
      BY ViewsAre
    <3>2. /\ AllOnTarget(k, record, RowsIn(record, k, Plants)) =>
               GroupIn(record, k) >= 10000 /\ ForemanIn(record, k) >= 10000
          /\ k # "OEE" /\ AllOffTarget(k, record, RowsIn(record, k, Plants)) =>
               GroupIn(record, k) < 10000 /\ ForemanIn(record, k) < 10000
      BY <2>1, <3>1, CoveredTargets
    <3>3. QED
      BY <3>1, <3>2 DEF AllOnTarget, AllOffTarget
  <2>4. NoKpiHidesAnother
    <3> DEFINE C        == CoveredIn(record)
               s        == [k \in C |-> ForemanIn(record, k)]
               weighted == [k \in C |-> Weight[k] * s[k]]
               total    == TotalIn(s, C, active)
    <3>1. /\ Covered = C /\ ForemanTotal = total
          /\ [k \in Covered |-> ForemanScore(k)] = s
      BY ViewsAre
    <3>2. C \in SUBSET Kpis /\ \A k \in C : s[k] \in Nat
      BY <2>1, CoveredScores DEF CoveredIn
    <3> HIDE DEF C, s
    <3>3. C # {} =>
            /\ (\E k \in C : s[k] = 0) => total.product = 0
            /\ total.product * Power(WeightOf(C), total.degree)
                 <= Power(SumOf(weighted, C), total.degree)
      BY <3>2, TotalInHidesNothing
    <3> HIDE DEF total
    <3>4. QED
      BY <3>1, <3>3 DEF NoKpiHidesAnother
  <2>5. QED
    BY <2>2, <2>3, <2>4 DEF ScoresMeanTheSame
<1>2. QED
  BY <1>1, ScoringInvCorrect, PTL

\* What a step that improves records does to the totals.
LEMMA ImprovedTotals ==
  ASSUME ScoringInv, ScoringInv', active' = active, Improved
  PROVE  /\ \A k \in Covered :
              /\ PeriodScore(record, k, Rows(k, Plants))' >= PeriodScore(record, k, Rows(k, Plants))
              /\ ForemanScore(k)' >= ForemanScore(k)
         /\ ForemanTotal.product \in Nat /\ ForemanTotal'.product \in Nat
         /\ ForemanTotal.product <= ForemanTotal'.product
         /\ ForemanTotal.degree \in Nat /\ ForemanTotal'.degree = ForemanTotal.degree
         /\ GroupTotal.product \in Nat /\ GroupTotal'.product \in Nat
         /\ GroupTotal.product <= GroupTotal'.product
         /\ GroupTotal.degree \in Nat /\ GroupTotal'.degree = GroupTotal.degree
<1> DEFINE new == record'
           C   == CoveredIn(record)
<1>1. RecordsFit(record) /\ RecordsFit(new) /\ Improvement(record, new)
  <2>1. Cells' = Cells
    BY DEF Cells
  <2>2. QED
    BY <2>1 DEF ScoringInv, RecordsFit, Improved, Improvement
<1>2. /\ \A k : ForemanScore(k)' = ForemanIn(new, k)
      /\ \A k : PeriodScore(record, k, Rows(k, Plants))' = GroupIn(new, k)
      /\ ForemanTotal' = TotalIn([k \in CoveredIn(new) |-> ForemanIn(new, k)], CoveredIn(new), active)
      /\ GroupTotal' = TotalIn([k \in CoveredIn(new) |-> GroupIn(new, k)], CoveredIn(new), active)
  BY ViewsBecome
<1> HIDE DEF new
<1>3. /\ CoveredIn(new) = C
      /\ \A k \in C :
           GroupIn(new, k) >= GroupIn(record, k) /\ ForemanIn(new, k) >= ForemanIn(record, k)
  BY <1>1, ImprovedScores
<1>4. /\ \A k \in C : GroupIn(record, k) \in Nat /\ ForemanIn(record, k) \in Nat
      /\ \A k \in C : GroupIn(new, k) \in Nat /\ ForemanIn(new, k) \in Nat
  BY <1>1, <1>3, CoveredScores
<1>5. C \in SUBSET Kpis
  BY DEF CoveredIn
<1> HIDE DEF C
<1>6. /\ Covered = C
      /\ \A k : ForemanScore(k) = ForemanIn(record, k)
      /\ \A k : PeriodScore(record, k, Rows(k, Plants)) = GroupIn(record, k)
      /\ ForemanTotal = TotalIn([k \in C |-> ForemanIn(record, k)], C, active)
      /\ GroupTotal = TotalIn([k \in C |-> GroupIn(record, k)], C, active)
  BY ViewsAre DEF C
<1>7. ASSUME NEW k \in Covered
      PROVE  /\ PeriodScore(record, k, Rows(k, Plants))' >= PeriodScore(record, k, Rows(k, Plants))
             /\ ForemanScore(k)' >= ForemanScore(k)
  <2>1. GroupIn(new, k) >= GroupIn(record, k) /\ ForemanIn(new, k) >= ForemanIn(record, k)
    BY <1>3, <1>6
  <2>2. QED
    BY <1>2, <1>6, <2>1
<1>8. /\ ForemanTotal.product \in Nat /\ ForemanTotal'.product \in Nat
      /\ ForemanTotal.product <= ForemanTotal'.product
      /\ ForemanTotal.degree \in Nat /\ ForemanTotal'.degree = ForemanTotal.degree
  <2> DEFINE s == [k \in C |-> ForemanIn(record, k)]
             z == [k \in C |-> ForemanIn(new, k)]
  <2>1. \A k \in C : s[k] \in Nat /\ z[k] \in Nat /\ s[k] <= z[k]
    BY <1>3, <1>4
  <2>2. ForemanTotal = TotalIn(s, C, active) /\ ForemanTotal' = TotalIn(z, C, active)
    BY <1>2, <1>3, <1>6
  <2> HIDE DEF s, z
  <2>3. /\ TotalIn(s, C, active).product \in Nat /\ TotalIn(z, C, active).product \in Nat
        /\ TotalIn(s, C, active).product <= TotalIn(z, C, active).product
        /\ TotalIn(s, C, active).degree \in Nat
        /\ TotalIn(z, C, active).degree = TotalIn(s, C, active).degree
    BY <1>5, <2>1, TotalInOrder
  <2>4. QED
    BY <2>2, <2>3
<1>9. /\ GroupTotal.product \in Nat /\ GroupTotal'.product \in Nat
      /\ GroupTotal.product <= GroupTotal'.product
      /\ GroupTotal.degree \in Nat /\ GroupTotal'.degree = GroupTotal.degree
  <2> DEFINE s == [k \in C |-> GroupIn(record, k)]
             z == [k \in C |-> GroupIn(new, k)]
  <2>1. \A k \in C : s[k] \in Nat /\ z[k] \in Nat /\ s[k] <= z[k]
    BY <1>3, <1>4
  <2>2. GroupTotal = TotalIn(s, C, active) /\ GroupTotal' = TotalIn(z, C, active)
    BY <1>2, <1>3, <1>6
  <2> HIDE DEF s, z
  <2>3. /\ TotalIn(s, C, active).product \in Nat /\ TotalIn(z, C, active).product \in Nat
        /\ TotalIn(s, C, active).product <= TotalIn(z, C, active).product
        /\ TotalIn(s, C, active).degree \in Nat
        /\ TotalIn(z, C, active).degree = TotalIn(s, C, active).degree
    BY <1>5, <2>1, TotalInOrder
  <2>4. QED
    BY <2>2, <2>3
<1>10. QED
  BY <1>7, <1>8, <1>9

\* No step changes what is asked for.
LEMMA SameSelection == [ScoringNext]_scoringVars => active' = active
  BY DEF ScoringNext, Insert, Correct, scoringVars

\* Correcting records for the better never lowers a score: of a KPI, of the
\* plants together or of the foreman, and neither total, wherever the limits of
\* calculate_score's piecewise formulas and their roundings lie.
THEOREM BetterNeverScoresLessCorrect == ScoringSpec => BetterNeverScoresLess
<1>1. ScoringInv /\ ScoringInv' /\ [ScoringNext]_scoringVars =>
        [Improved =>
           /\ \A k \in Covered :
                /\ PeriodScore(record, k, Rows(k, Plants))' >= PeriodScore(record, k, Rows(k, Plants))
                /\ ForemanScore(k)' >= ForemanScore(k)
           /\ ForemanTotal'.product >= ForemanTotal.product
           /\ GroupTotal'.product >= GroupTotal.product]_scoringVars
  <2> SUFFICES ASSUME ScoringInv, ScoringInv', [ScoringNext]_scoringVars, Improved
               PROVE  /\ \A k \in Covered :
                           /\ PeriodScore(record, k, Rows(k, Plants))'
                                >= PeriodScore(record, k, Rows(k, Plants))
                           /\ ForemanScore(k)' >= ForemanScore(k)
                      /\ ForemanTotal'.product >= ForemanTotal.product
                      /\ GroupTotal'.product >= GroupTotal.product
    OBVIOUS
  <2>1. active' = active
    BY SameSelection
  <2>2. /\ \A k \in Covered :
             /\ PeriodScore(record, k, Rows(k, Plants))' >= PeriodScore(record, k, Rows(k, Plants))
             /\ ForemanScore(k)' >= ForemanScore(k)
        /\ ForemanTotal.product \in Nat /\ ForemanTotal'.product \in Nat
        /\ ForemanTotal.product <= ForemanTotal'.product
        /\ GroupTotal.product \in Nat /\ GroupTotal'.product \in Nat
        /\ GroupTotal.product <= GroupTotal'.product
    BY <2>1, ImprovedTotals
  <2>3. QED
    BY <2>2
<1>2. QED
  BY <1>1, ScoringInvCorrect, PTL DEF ScoringSpec, BetterNeverScoresLess

\* Nor does it lower the level resolve_performance_level gives, unless that
\* came from a score between two levels, which gets the last one: for any
\* levels sorted by their minimum.
THEOREM LevelNeverDropsCorrect == ScoringSpec => LevelNeverDrops
<1>1. ScoringInv /\ ScoringInv' /\ [ScoringNext]_scoringVars =>
        [Improved =>
           /\ Level(GroupTotal)' >= Level(GroupTotal) \/ InGap(GroupTotal)
           /\ Level(ForemanTotal)' >= Level(ForemanTotal) \/ InGap(ForemanTotal)]_scoringVars
  <2> SUFFICES ASSUME ScoringInv, ScoringInv', [ScoringNext]_scoringVars, Improved
               PROVE  /\ Level(GroupTotal)' >= Level(GroupTotal) \/ InGap(GroupTotal)
                      /\ Level(ForemanTotal)' >= Level(ForemanTotal) \/ InGap(ForemanTotal)
    OBVIOUS
  <2>1. active' = active
    BY SameSelection
  <2> DEFINE f == ForemanTotal
             g == GroupTotal
             x == ForemanTotal'
             y == GroupTotal'
  <2>2. /\ f.product \in Nat /\ x.product \in Nat /\ f.product <= x.product
        /\ f.degree \in Nat /\ x.degree = f.degree
        /\ g.product \in Nat /\ y.product \in Nat /\ g.product <= y.product
        /\ g.degree \in Nat /\ y.degree = g.degree
    BY <2>1, ImprovedTotals
  <2>3. Level(GroupTotal)' = Level(y) /\ Level(ForemanTotal)' = Level(x)
    BY DEF Level, AtLeast, AtMost
  <2> HIDE DEF f, g, x, y
  <2>4. Level(y) >= Level(g) \/ InGap(g)
    BY <2>2, LevelOrder
  <2>5. Level(x) >= Level(f) \/ InGap(f)
    BY <2>2, LevelOrder
  <2>6. QED
    BY <2>3, <2>4, <2>5 DEF f, g
<1>2. QED
  BY <1>1, ScoringInvCorrect, PTL DEF ScoringSpec, LevelNeverDrops
=============================================================================
