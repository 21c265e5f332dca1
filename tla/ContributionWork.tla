-------------------------- MODULE ContributionWork --------------------------
(***************************************************************************)
(* The works of the Operational Impact+ module and the requests that edit  *)
(* them (contribution_work_service.py).  A request reads a work when it    *)
(* begins and decides by what it has read; nothing is locked until it      *)
(* writes.  What it writes are the columns that differ from what it has    *)
(* read, a score of the work as it has read it, and the rows of foremen    *)
(* and gains it was given, in place of those it found.                     *)
(*                                                                         *)
(* "complete" stands for the texts and the type a published work needs,    *)
(* "lasting" for the marks of scope and permanence, links for the foremen  *)
(* of a work (its plants are set, and required, in the same way), and a    *)
(* gain row is named by the request that has inserted it.                  *)
(***************************************************************************)
EXTENDS Integers, FiniteSets, FiniteSetsExt, Combinatorics

CONSTANTS
  Works, Editors, Foremen,
  Payloads,      (* the bodies of requests: records of some of the fields   *)
  NoWork, NoDuration, NoMinutes, NoTarget,
  MaxRequests    (* bound on the requests                                   *)

Impacts == {"none", "low", "medium", "high"}
Gains == 1 .. MaxRequests

\* The columns of a work that a request may name.
Named == {"status", "complete", "date", "end", "impact", "lasting", "duration", "saving", "monthly"}
Columns == Named \union {"publishedAt", "score"}

VARIABLES
  work,       (* work[w]: the row, or NoWork                                *)
  links,      (* links[w]: the foremen of w with their roles                *)
  gains,      (* gains[w]: its measurable gains                             *)
  audited,    (* the requests that have left an audit record                *)
  pc,         (* pc[e]: where request e is in update                        *)
  target,     (* target[e]: the work it updates                             *)
  payload,    (* payload[e]: its body                                       *)
  number,     (* number[e]: which request it is                             *)
  seen,       (* seen[e]: the row as it was read                            *)
  dropped,    (* dropped[e]: the rows of links and gains it has deleted     *)
  score,      (* score[e]: the score it has computed                        *)
  requests,   (* requests so far                                            *)
  quiet,      (* history: e is the only one that has committed since it began *)
  strained    (* strained[w]: history: what of w was last written by a request *)
              (* that was not quiet, or that was not asked to check it         *)

tables == <<work, links, gains, audited>>
editorVars == <<pc, target, payload, number, seen, dropped, score>>
vars == <<tables, editorVars, requests, quiet, strained>>

Nothing == [links |-> {}, gains |-> {}]
Concerns == {"score", "links", "required"}

Roles == {"LEAD", "CONTRIBUTOR"}
Link == [foreman : Foremen, role : Roles]

\* NULL dates are 0.
Row == [status : {"DRAFT", "PUBLISHED"}, complete : BOOLEAN, date : Nat, end : Nat,
        impact : Impacts, lasting : BOOLEAN, duration : (Nat \X Nat) \union {NoDuration},
        saving : Nat \union {NoMinutes}, monthly : Nat \union {NoMinutes},
        publishedAt : 0 .. MaxRequests, score : 1 .. 5]

TypeOK ==
  /\ work \in [Works -> Row \union {NoWork}]
  /\ links \in [Works -> SUBSET Link] /\ gains \in [Works -> SUBSET Gains]
  /\ audited \subseteq 1 .. requests
  /\ pc \in [Editors -> {"idle", "loaded", "dropped", "flushed"}]
  /\ target \in [Editors -> Works \union {NoTarget}]
  /\ payload \in [Editors -> Payloads \union {<<>>}]
  /\ number \in [Editors -> 0 .. requests]
  /\ seen \in [Editors -> Row \union {NoWork}]
  /\ dropped \in [Editors -> [links : SUBSET Link, gains : SUBSET Gains]]
  /\ score \in [Editors -> 0 .. 5]
  /\ requests \in 0 .. MaxRequests
  /\ quiet \in [Editors -> BOOLEAN]
  /\ strained \in [Works -> SUBSET Concerns]

Init ==
  /\ work = [w \in Works |-> NoWork]
  /\ links = [w \in Works |-> {}]
  /\ gains = [w \in Works |-> {}]
  /\ audited = {}
  /\ pc = [e \in Editors |-> "idle"]
  /\ target = [e \in Editors |-> NoTarget]
  /\ payload = [e \in Editors |-> <<>>]
  /\ number = [e \in Editors |-> 0]
  /\ seen = [e \in Editors |-> NoWork]
  /\ dropped = [e \in Editors |-> Nothing]
  /\ score = [e \in Editors |-> 0]
  /\ requests = 0
  /\ quiet = [e \in Editors |-> FALSE]
  /\ strained = [w \in Works |-> {}]

-----------------------------------------------------------------------------
(* contribution_calc: the score, the derived columns, the publish check.   *)

Repeats == 4    (* repeat_count times occurrences per month                 *)

Saving(duration) ==
  IF duration = NoDuration THEN NoMinutes
  ELSE IF duration[2] >= duration[1] THEN NoMinutes ELSE duration[1] - duration[2]

Monthly(saving) == IF saving = NoMinutes THEN NoMinutes ELSE saving * Repeats

ImpactPoints(impact) == CASE impact = "high" -> 4 [] impact = "medium" -> 2 [] OTHER -> 0

Measurable(row, G) == row.monthly # NoMinutes \/ G # {}

Points(row, G) ==
  ImpactPoints(row.impact) + (IF row.lasting THEN 6 ELSE 0) + (IF Measurable(row, G) THEN 2 ELSE 0)

Score(row, G) ==
  LET p == Points(row, G)
  IN  CASE p >= 11 -> 5 [] p >= 8 -> 4 [] p >= 5 -> 3 [] p >= 2 -> 2 [] OTHER -> 1

InOrder(row) == row.date = 0 \/ row.end = 0 \/ row.end >= row.date

\* validate_for_publish: nothing that is required is missing.
MayPublish(row, F) == row.complete /\ row.date # 0 /\ InOrder(row) /\ F # {}

\* Columns that were not given stay as they are.
Merged(row, P) == [c \in Columns |-> IF c \in DOMAIN P THEN P[c] ELSE row[c]]

Given(P, c) == c \in DOMAIN P /\ P[c] # NoMinutes

WithSavings(row, saving, monthly) == [row EXCEPT !.saving = saving, !.monthly = monthly]

\* The savings follow from the durations unless the request gives them.
Derived(row, P) ==
  LET s == IF Given(P, "saving") THEN row.saving ELSE Saving(row.duration)
  IN  WithSavings(row, s, IF Given(P, "monthly") THEN row.monthly ELSE Monthly(s))

\* Seeded fault: publishing is noticed only after the status was set.
PublishingLate(row, P) ==
  /\ "status" \in DOMAIN P /\ P.status = "PUBLISHED"
  /\ Merged(row, P).status # "PUBLISHED"

Publishing(row, P) == "status" \in DOMAIN P /\ P.status = "PUBLISHED" /\ row.status # "PUBLISHED"

\* The row as request n means to leave it, the score aside.
Edited(row, P, n) ==
  LET new == Derived(Merged(row, P), P)
  IN  IF Publishing(row, P) THEN [new EXCEPT !.publishedAt = n] ELSE new

\* sync_foremen: a work of one foreman is led by him.
WithRoles(F) ==
  {[foreman |-> f, role |-> IF Cardinality(F) = 1 THEN "LEAD" ELSE "CONTRIBUTOR"] : f \in F}

ForemenOf(L) == {l.foreman : l \in L}
NewLinks(P) == IF "foremen" \in DOMAIN P THEN WithRoles(P.foremen) ELSE {}
NewGains(P, n) == IF "gains" \in DOMAIN P /\ P.gains THEN {n} ELSE {}

Blank == [status |-> "DRAFT", complete |-> FALSE, date |-> 0, end |-> 0, impact |-> "none",
          lasting |-> FALSE, duration |-> NoDuration, saving |-> NoMinutes,
          monthly |-> NoMinutes, publishedAt |-> 0, score |-> 1]

\* A body gives values to columns of a work, foremen, and whether there is a gain.
ASSUME ContributionAssumption ==
  /\ MaxRequests \in Nat
  /\ IsFiniteSet(Works) /\ IsFiniteSet(Foremen)
  /\ \A P \in Payloads :
       /\ DOMAIN P \subseteq Named \union {"foremen", "gains"}
       /\ Merged(Blank, P) \in Row
       /\ "foremen" \in DOMAIN P => P.foremen \subseteq Foremen
       /\ "gains" \in DOMAIN P => P.gains \in BOOLEAN
  /\ NoWork \notin Row /\ NoTarget \notin Works
  /\ NoMinutes \notin Nat /\ NoDuration \notin Nat \X Nat

-----------------------------------------------------------------------------
(* Requests.                                                               *)

Others(e) == {d \in Editors \ {e} : pc[d] # "idle" /\ target[d] = target[e]}

\* record_audit: the record is committed with the change it tells of.
record_audit(n) == audited' = audited \union {n}

\* create: one transaction, and nobody else knows of the work before.
Create(w, P) ==
  LET n == requests + 1
      new == Edited(Blank, P, n)
      G == NewGains(P, n)
  IN  /\ requests < MaxRequests
      /\ work[w] = NoWork
      /\ \A e \in Editors : target[e] # w
      /\ InOrder(new)
      /\ new.status = "PUBLISHED" => MayPublish(new, ForemenOf(NewLinks(P)))
      /\ work' = [work EXCEPT ![w] = [new EXCEPT !.score = Score(new, G)]]
      /\ links' = [links EXCEPT ![w] = NewLinks(P)]
      /\ gains' = [gains EXCEPT ![w] = G]
      /\ record_audit(n)
      /\ requests' = n
      /\ strained' = [strained EXCEPT ![w] = {}]
      /\ UNCHANGED <<editorVars, quiet>>

\* update reads the work and checks the request by it; a refused request
\* changes nothing.
Load(e, w, P) ==
  LET new == Merged(work[w], P)
      F == IF "foremen" \in DOMAIN P THEN P.foremen ELSE ForemenOf(links[w])
  IN  /\ pc[e] = "idle"
      /\ requests < MaxRequests
      /\ work[w] # NoWork
      /\ {"date", "end"} \intersect DOMAIN P # {} => InOrder(new)
      /\ "status" \in DOMAIN P /\ P.status = "PUBLISHED" => MayPublish(new, F)
      /\ pc' = [pc EXCEPT ![e] = "loaded"]
      /\ target' = [target EXCEPT ![e] = w]
      /\ payload' = [payload EXCEPT ![e] = P]
      /\ number' = [number EXCEPT ![e] = requests + 1]
      /\ seen' = [seen EXCEPT ![e] = work[w]]
      /\ requests' = requests + 1
      /\ quiet' = [quiet EXCEPT ![e] = TRUE]
      /\ UNCHANGED <<tables, dropped, score, strained>>

\* The rows that the DELETE statements of e find.
Found(e) ==
  [links |-> IF "foremen" \in DOMAIN payload[e] THEN links[target[e]] ELSE {},
   gains |-> IF "gains" \in DOMAIN payload[e] THEN gains[target[e]] ELSE {}]

\* The old rows of foremen and gains are deleted; a row somebody else is
\* deleting has to be waited for.
Drop(e) ==
  /\ pc[e] = "loaded"
  /\ \A d \in Others(e) : /\ dropped[d].links \intersect Found(e).links = {}
                          /\ dropped[d].gains \intersect Found(e).gains = {}
  /\ pc' = [pc EXCEPT ![e] = "dropped"]
  /\ dropped' = [dropped EXCEPT ![e] = Found(e)]
  /\ UNCHANGED <<tables, target, payload, number, seen, score, requests, quiet, strained>>

New(e) == Edited(seen[e], payload[e], number[e])

\* Seeded fault: all columns are written, as read.
ChangedAll(e) == Columns \ {"score"}

\* Only columns that differ from what was read are written.
Changed(e) == {c \in Columns \ {"score"} : New(e)[c] # seen[e][c]}

Overwritten(row, e) == [c \in Columns |-> IF c \in Changed(e) THEN New(e)[c] ELSE row[c]]

\* Whoever has written the row keeps it locked until the end.
Locked(e) == \E d \in Others(e) : pc[d] = "flushed" /\ Changed(d) # {}

Conflicting(e) ==
  {l \in links[target[e]] \ dropped[e].links : l.foreman \in ForemenOf(NewLinks(payload[e]))}

\* The constraints: the row is there, the dates are in order, and no foreman
\* is linked twice.
Admissible(e) ==
  /\ work[target[e]] # NoWork
  /\ InOrder(Overwritten(work[target[e]], e))
  /\ Conflicting(e) = {}

\* The UPDATE and the INSERTs, and the score of the work as it was read with
\* the gains there are now.
Flush(e) ==
  /\ pc[e] = "dropped"
  /\ Changed(e) = {} \/ ~Locked(e)
  /\ \A d \in Others(e) : pc[d] = "flushed" =>
       ForemenOf(NewLinks(payload[d])) \intersect ForemenOf(NewLinks(payload[e])) = {}
  /\ Admissible(e)
  /\ pc' = [pc EXCEPT ![e] = "flushed"]
  /\ score' = [score EXCEPT ![e] =
       Score(New(e), (gains[target[e]] \ dropped[e].gains) \union NewGains(payload[e], number[e]))]
  /\ UNCHANGED <<tables, target, payload, number, seen, dropped, requests, quiet, strained>>

\* Seeded fault: the score is written back only if it was raised.
NewScoreRaised(e) ==
  IF score[e] > seen[e].score THEN score[e] ELSE work[target[e]].score

NewScore(e) == IF score[e] # seen[e].score THEN score[e] ELSE work[target[e]].score

\* Something of the request is worth an audit record.
Noted(e) ==
  \/ {"foremen", "gains"} \intersect DOMAIN payload[e] # {}
  \/ \E c \in DOMAIN payload[e] : payload[e][c] # seen[e][c]

\* What a commit of e leaves as it should be, and what it may not.
Settled(e) ==
  {c \in Concerns : quiet[e] /\ CASE c = "score" -> TRUE
                                 [] c = "links" -> "foremen" \in DOMAIN payload[e]
                                 [] c = "required" -> New(e).status = "PUBLISHED" /\ "status" \in DOMAIN payload[e]}
Unsettled(e) ==
  IF quiet[e] THEN {"required"} \ Settled(e) ELSE Concerns

Leave(e) ==
  /\ pc' = [pc EXCEPT ![e] = "idle"]
  /\ target' = [target EXCEPT ![e] = NoTarget]
  /\ payload' = [payload EXCEPT ![e] = <<>>]
  /\ number' = [number EXCEPT ![e] = 0]
  /\ seen' = [seen EXCEPT ![e] = NoWork]
  /\ dropped' = [dropped EXCEPT ![e] = Nothing]
  /\ score' = [score EXCEPT ![e] = 0]

Commit(e) ==
  LET w == target[e]
  IN  /\ pc[e] = "flushed"
      /\ score[e] = seen[e].score \/ ~Locked(e)
      /\ work' = [work EXCEPT ![w] = [Overwritten(work[w], e) EXCEPT !.score = NewScore(e)]]
      /\ links' = [links EXCEPT ![w] = (@ \ dropped[e].links) \union NewLinks(payload[e])]
      /\ gains' = [gains EXCEPT ![w] = (@ \ dropped[e].gains) \union NewGains(payload[e], number[e])]
      /\ IF Noted(e) THEN record_audit(number[e]) ELSE UNCHANGED audited
      /\ Leave(e)
      /\ quiet' = [d \in Editors |-> quiet[d] /\ target[d] # w]
      /\ strained' = [strained EXCEPT ![w] = (@ \ Settled(e)) \union Unsettled(e)]
      /\ UNCHANGED requests

\* Nothing is left to be written, and the work is gone: only the audit record
\* of the request is committed.
CommitNothing(e) ==
  /\ pc[e] = "dropped"
  /\ work[target[e]] = NoWork
  /\ Changed(e) = {} /\ NewLinks(payload[e]) = {} /\ NewGains(payload[e], number[e]) = {}
  /\ Score(New(e), {}) = seen[e].score
  /\ IF Noted(e) THEN record_audit(number[e]) ELSE UNCHANGED audited
  /\ Leave(e)
  /\ quiet' = [quiet EXCEPT ![e] = FALSE]
  /\ UNCHANGED <<work, links, gains, requests, strained>>

\* A constraint, a deadlock, a lost connection: everything is rolled back.
RollBack(e) ==
  /\ pc[e] # "idle"
  /\ Leave(e)
  /\ quiet' = [quiet EXCEPT ![e] = FALSE]
  /\ UNCHANGED <<tables, requests, strained>>

\* The foreign keys: what belongs to a work is deleted with it.
Cascaded(rows, w) == [rows EXCEPT ![w] = {}]

\* delete waits for whoever has written rows of the work; its links and
\* gains go with it.
Delete(w) ==
  /\ requests < MaxRequests
  /\ work[w] # NoWork
  /\ \A e \in Editors : target[e] = w =>
       pc[e] # "flushed" /\ dropped[e] = Nothing
  /\ work' = [work EXCEPT ![w] = NoWork]
  /\ links' = Cascaded(links, w)
  /\ gains' = Cascaded(gains, w)
  /\ record_audit(requests + 1)
  /\ requests' = requests + 1
  /\ quiet' = [d \in Editors |-> quiet[d] /\ target[d] # w]
  /\ UNCHANGED <<editorVars, strained>>

Next ==
  \/ \E w \in Works, P \in Payloads : Create(w, P)
  \/ \E w \in Works : Delete(w)
  \/ \E e \in Editors :
       \/ \E w \in Works, P \in Payloads : Load(e, w, P)
       \/ Drop(e) \/ Flush(e) \/ Commit(e) \/ CommitNothing(e) \/ RollBack(e)

Spec == Init /\ [][Next]_vars

-----------------------------------------------------------------------------
(* What foremen see of it.                                                 *)

PublishedOf(f) ==
  {w \in Works : work[w] # NoWork /\ work[w].status = "PUBLISHED" /\ f \in ForemenOf(links[w])}

Participants(w) == Cardinality(links[w])
Minutes(w) == IF work[w].monthly = NoMinutes THEN 0 ELSE work[w].monthly

\* Seeded fault: each participant is credited with all of the saving.
TimeSavingWhole(f, scale) ==
  LET whole(w) == Minutes(w) * scale IN MapThenSumSet(whole, PublishedOf(f))

\* foreman_summary: the saving of a work is shared among its foremen; times
\* scale, which their number divides.
TimeSaving(f, scale) ==
  LET share(w) == (Minutes(w) * scale) \div Participants(w)
  IN  MapThenSumSet(share, PublishedOf(f))

-----------------------------------------------------------------------------
(* Properties.                                                             *)

\* A work never ends before it begins, although two requests that each look
\* at one of its dates do not see each other.
DatesInOrder == \A w \in Works : work[w] # NoWork => InOrder(work[w])

\* The score is that of the columns and gains the work has, unless the last
\* request that wrote it had read it before somebody else's commit.
ScoreCurrent ==
  \A w \in Works : work[w] # NoWork /\ "score" \notin strained[w] =>
    work[w].score = Score(work[w], gains[w])

\* A work has a leader exactly if it has one foreman, unless two requests
\* have exchanged its foremen at the same time.
LeaderIsAlone ==
  \A w \in Works : "links" \notin strained[w] =>
    ((\E l \in links[w] : l.role = "LEAD") <=> Cardinality(links[w]) = 1)

\* What was published by a request that nobody disturbed has all it needs, and
\* the time of its publication, until it is edited without being checked.
PublishedComplete ==
  \A w \in Works : work[w] # NoWork /\ work[w].status = "PUBLISHED" =>
    /\ work[w].publishedAt # 0
    /\ "required" \notin strained[w] => MayPublish(work[w], ForemenOf(links[w]))

\* A deleted work leaves nothing behind, and nobody who had read it before
\* brings anything of it back.
GoneIsGone == \A w \in Works : work[w] = NoWork => links[w] = {} /\ gains[w] = {}

\* Whoever shares a work, all of its saving is credited, and nothing twice.
SharesAddUp ==
  LET scale == factorial[Cardinality(Foremen)]
      credited(f) == TimeSaving(f, scale)
      whole(w) == Minutes(w) * scale
  IN  MapThenSumSet(credited, Foremen)
        = MapThenSumSet(whole, UNION {PublishedOf(f) : f \in Foremen})

\* A request changes no column of a work that it does not name, apart from
\* what is derived: a change somebody else has committed meanwhile stays.
OnlyNamedChange ==
  [][\A w \in Works : work[w] # NoWork /\ work'[w] # NoWork =>
       \A c \in Named \ {"saving", "monthly"} :
         work'[w][c] # work[w][c] =>
           \E e \in Editors : target[e] = w /\ pc'[e] = "idle"
                              /\ c \in DOMAIN payload[e] /\ work'[w][c] = payload[e][c]]_vars

\* Nothing of a work that somebody can enter changes without an audit record,
\* except that a saving entered by hand is silently recomputed.
EveryChangeAudited ==
  [][\A w \in Works :
       (\/ links'[w] # links[w] \/ gains'[w] # gains[w]
        \/ work'[w] # work[w] /\ NoWork \in {work[w], work'[w]}
        \/ /\ NoWork \notin {work[w], work'[w]}
           /\ \E c \in Named \ {"saving", "monthly"} : work'[w][c] # work[w][c])
       => audited' # audited]_vars

\* However requests for one work overlap, its rows fit together: dates, score,
\* foremen and gains are those of one work, and of a deleted one none is left.
WorkHangsTogether == TypeOK /\ DatesInOrder /\ ScoreCurrent /\ LeaderIsAlone /\ GoneIsGone

\* A request changes only what it names, and leaves a record whenever it
\* changes what a person can enter.
ChangesAreAccounted == OnlyNamedChange /\ EveryChangeAudited

-----------------------------------------------------------------------------
(* What makes them inductive.                                              *)

Active(e) == pc[e] # "idle"

\* A request on its way has a number of its own that no record bears yet, and
\* has deleted only rows that it is to replace.
EditorShape ==
  /\ \A e \in Editors : Active(e) =>
       /\ target[e] \in Works /\ payload[e] \in Payloads /\ seen[e] \in Row
       /\ number[e] \in (1 .. requests) \ audited
       /\ seen[e].publishedAt < number[e]
       /\ dropped[e].links = {} \/ "foremen" \in DOMAIN payload[e]
       /\ dropped[e].gains = {} \/ "gains" \in DOMAIN payload[e]
  /\ \A e \in Editors : ~Active(e) => dropped[e] = Nothing
  /\ \A d, e \in Editors : Active(d) /\ Active(e) /\ number[d] = number[e] => d = e

\* The time of publication is that of a request that was made.
TimeShape == \A w \in Works : work[w] # NoWork => work[w].publishedAt <= requests

\* What was flushed can be committed, and of the requests that have flushed for
\* one work at most one has written its row.
FlushedShape ==
  /\ \A e \in Editors : pc[e] = "flushed" =>
       /\ work[target[e]] # NoWork
       /\ InOrder(Overwritten(work[target[e]], e))
       /\ score[e] \in 1 .. 5
  /\ \A d, e \in Editors :
       pc[d] = "flushed" /\ pc[e] = "flushed" /\ target[d] = target[e] /\ d # e =>
         Changed(d) = {} \/ Changed(e) = {}

ForemenAfter(e) ==
  IF "foremen" \in DOMAIN payload[e] THEN payload[e].foremen ELSE ForemenOf(links[target[e]])

\* For a request nobody has disturbed the work is still what it has read and checked.
QuietShape ==
  \A e \in Editors : Active(e) /\ quiet[e] =>
    /\ work[target[e]] = seen[e]
    /\ pc[e] # "loaded" => dropped[e] = Found(e)
    /\ pc[e] = "flushed" =>
         score[e] = Score(New(e), (gains[target[e]] \ dropped[e].gains)
                                    \union NewGains(payload[e], number[e]))
    /\ "status" \in DOMAIN payload[e] /\ payload[e].status = "PUBLISHED" =>
         MayPublish(Merged(seen[e], payload[e]), ForemenAfter(e))

\* A work has a foreman once, and keeps him once whichever of the requests that
\* have flushed for it commits first.
LinkShape ==
  /\ \A w \in Works : \A k, l \in links[w] : k.foreman = l.foreman => k = l
  /\ \A e \in Editors : pc[e] = "flushed" => Conflicting(e) = {}
  /\ \A d, e \in Editors :
       pc[d] = "flushed" /\ pc[e] = "flushed" /\ target[d] = target[e] /\ d # e =>
         ForemenOf(NewLinks(payload[d])) \intersect ForemenOf(NewLinks(payload[e])) = {}

IInv ==
  /\ WorkHangsTogether
  /\ PublishedComplete
  /\ EditorShape
  /\ TimeShape
  /\ FlushedShape
  /\ QuietShape
  /\ LinkShape
=============================================================================
