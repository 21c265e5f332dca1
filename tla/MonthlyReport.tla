---------------------------- MODULE MonthlyReport ----------------------------
(***************************************************************************)
(* One foreman's report of one completed month (monthly_foreman_report.py) *)
(* and the sessions that create it, regenerate it, render and store its    *)
(* PDF, download it and mail it.  A session works on the row as it has     *)
(* loaded it and writes back the columns it has changed; the row is        *)
(* loaded again after each of its commits.                                 *)
(*                                                                         *)
(* What the analytics say of the month is a number that corrections raise; *)
(* 0 is insufficient data.  A PDF is the number it was rendered from.      *)
(***************************************************************************)
EXTENDS Naturals

CONSTANTS
  Sessions,
  Regenerators,   (* those among them that may ask with force=True          *)
  NoReport,
  MaxCorrections, (* bound on late corrections of the month's data          *)
  MaxRequests     (* bound on requests                                      *)

VARIABLES
  source,     (* what the analytics say of the month now                    *)
  row,        (* the row of foreman_monthly_reports, or NoReport            *)
  stored,     (* the object under the report's key, {} if there is none     *)
  pc,         (* pc[s]: where session s is                                  *)
  kind,       (* kind[s]: what it was asked for                             *)
  mem,        (* mem[s]: the row as it has loaded it                        *)
  work,       (* work[s]: the data it has built, or the PDF it has fetched  *)
  ticket,     (* ticket[s]: the number of its request, its claim_token      *)
  requests,
  had,        (* history: the data the row has had                          *)
  given,      (* history: the data and PDFs that were handed out            *)
  mailed,     (* history: the PDF that was mailed last, {} if there is none *)
  alone,      (* history: alone[s]: nobody else was active since s updated  *)
  clean       (* history: no regeneration is unfinished or was disturbed    *)

sessionVars == <<pc, kind, mem, work, ticket>>
historyVars == <<had, given, mailed, alone, clean>>
vars == <<source, row, stored, sessionVars, requests, historyVars>>

Data == 0 .. MaxCorrections + 1
Kinds == {"detail", "pdf", "access", "mail", "force"}
PdfStatus == {"PENDING", "GENERATING", "READY", "FAILED"}
EmailStatus == {"PENDING", "SENDING", "SENT", "FAILED", "SKIPPED"}
Places == {"idle", "building", "built", "unread", "got", "begun", "loaded", "uploaded",
           "ready", "failed", "raised", "send"}

Row == [data : Data, version : 1 .. MaxRequests + 1, pdf : PdfStatus, key : BOOLEAN,
        email : EmailStatus, token : 0 .. MaxRequests]

ASSUME MonthlyAssumption ==
  /\ Regenerators \subseteq Sessions
  /\ MaxCorrections \in Nat /\ MaxRequests \in Nat
  /\ NoReport \notin Row

TypeOK ==
  /\ source \in Data
  /\ row \in Row \union {NoReport}
  /\ stored \in {{}} \union {{d} : d \in Data}
  /\ pc \in [Sessions -> Places]
  /\ kind \in [Sessions -> Kinds]
  /\ mem \in [Sessions -> Row \union {NoReport}]
  /\ work \in [Sessions -> Data]
  /\ ticket \in [Sessions -> 0 .. MaxRequests]
  /\ requests \in 0 .. MaxRequests
  /\ had \subseteq Data /\ given \subseteq Data
  /\ mailed \in {{}} \union {{d} : d \in Data}
  /\ alone \in [Sessions -> BOOLEAN] /\ clean \in BOOLEAN

Init ==
  /\ source \in {0, 1}
  /\ row = NoReport
  /\ stored = {}
  /\ pc = [s \in Sessions |-> "idle"]
  /\ kind = [s \in Sessions |-> "detail"]
  /\ mem = [s \in Sessions |-> NoReport]
  /\ work = [s \in Sessions |-> 0]
  /\ ticket = [s \in Sessions |-> 0]
  /\ requests = 0
  /\ had = {} /\ given = {} /\ mailed = {}
  /\ alone = [s \in Sessions |-> FALSE]
  /\ clean = TRUE

-----------------------------------------------------------------------------
(* The row and its copies.                                                 *)

\* A late correction: a rescored day, a work entered for the month.
Correct ==
  /\ source <= MaxCorrections
  /\ source' = source + 1
  /\ UNCHANGED <<row, stored, sessionVars, requests, historyVars>>

\* The columns of new that differ from the loaded ones are written.
WriteBack(s, new) ==
  [c \in DOMAIN row |-> IF new[c] # mem[s][c] THEN new[c] ELSE row[c]]

Goto(s, where) == pc' = [pc EXCEPT ![s] = where]

Finished(s) ==
  /\ Goto(s, "idle")
  /\ mem' = [mem EXCEPT ![s] = NoReport]
  /\ work' = [work EXCEPT ![s] = 0]
  /\ ticket' = [ticket EXCEPT ![s] = 0]
  /\ kind' = [kind EXCEPT ![s] = "detail"]
  /\ alone' = [alone EXCEPT ![s] = FALSE]

\* Somebody has begun to work on the report.
Begun(s, k) ==
  /\ pc[s] = "idle"
  /\ requests < MaxRequests
  /\ requests' = requests + 1
  /\ kind' = [kind EXCEPT ![s] = k]
  /\ ticket' = [ticket EXCEPT ![s] = requests + 1]
  /\ alone' = [t \in Sessions |-> FALSE]

-----------------------------------------------------------------------------
(* get_or_generate_monthly_report.                                         *)

\* The report is there: it is what the caller gets.
Find(s, k) ==
  /\ Begun(s, k)
  /\ k \in {"detail", "pdf", "access"}
  /\ row # NoReport
  /\ Goto(s, "got")
  /\ mem' = [mem EXCEPT ![s] = row]
  /\ UNCHANGED <<source, row, stored, work, had, given, mailed, clean>>

\* It is not, or it has to be made anew.
Miss(s, k) ==
  /\ Begun(s, k)
  /\ k \in {"detail", "pdf", "access", "force"}
  /\ k = "force" => s \in Regenerators
  /\ k = "force" \/ row = NoReport
  /\ Goto(s, "building")
  /\ mem' = [mem EXCEPT ![s] = row]
  /\ UNCHANGED <<source, row, stored, work, had, given, mailed, clean>>

\* _build_report_data
Build(s) ==
  /\ pc[s] = "building"
  /\ Goto(s, "built")
  /\ work' = [work EXCEPT ![s] = source]
  /\ UNCHANGED <<source, row, stored, kind, mem, ticket, requests, historyVars>>

NewRow(d) ==
  [data |-> d, version |-> 1, pdf |-> "PENDING", key |-> FALSE, email |-> "PENDING", token |-> 0]

\* Seeded fault: who loses against the unique constraint goes on with his own.
InsertedOwn(s) == NewRow(work[s])

\* The row that is there in the end: that of whoever came first.
Inserted(s) == IF row = NoReport THEN NewRow(work[s]) ELSE row

\* db.add and commit; after an IntegrityError the other one's row is selected.
Insert(s) ==
  /\ pc[s] = "built" /\ mem[s] = NoReport
  /\ row' = IF row = NoReport THEN NewRow(work[s]) ELSE row
  /\ mem' = [mem EXCEPT ![s] = Inserted(s)]
  /\ had' = had \union {row'.data}
  /\ Goto(s, IF kind[s] = "detail" THEN "got" ELSE "unread")
  /\ UNCHANGED <<source, stored, kind, work, ticket, requests, given, mailed, alone, clean>>

Idle(s) == pc[s] \in {"idle", "building"}

Regenerated(r, data, version) == [r EXCEPT !.data = data, !.version = version]

\* Seeded fault: a regeneration is not counted.
NewVersionKept(s) == mem[s].version

NewVersion(s) == mem[s].version + 1

\* force=True: the row is changed in place, by the version that was loaded.
Update(s) ==
  /\ pc[s] = "built" /\ mem[s] # NoReport
  /\ row' = Regenerated(row, work[s], NewVersion(s))
  /\ had' = had \union {work[s]}
  /\ Goto(s, "unread")
  /\ alone' = [t \in Sessions |-> t = s /\ \A u \in Sessions \ {s} : Idle(u)]
  /\ clean' = FALSE
  /\ UNCHANGED <<source, stored, kind, mem, work, ticket, requests, given, mailed>>

\* report_detail: what is answered is the row as loaded.
Answer(s) ==
  /\ pc[s] = "got" /\ kind[s] = "detail"
  /\ given' = given \union {mem[s].data}
  /\ Finished(s)
  /\ UNCHANGED <<source, row, stored, requests, had, mailed, clean>>

-----------------------------------------------------------------------------
(* generate_and_store_report_pdf.                                          *)

Keeps(s) == kind[s] # "force" /\ mem[s].pdf = "READY" /\ mem[s].key

\* Attributes that a commit has expired are loaded when they are looked at.
Refresh(s) ==
  /\ pc[s] \in {"unread", "begun"}
  /\ Goto(s, IF pc[s] = "begun" THEN "loaded" ELSE "got")
  /\ mem' = [mem EXCEPT ![s] = row]
  /\ UNCHANGED <<source, row, stored, kind, work, ticket, requests, historyVars>>

Started(s) == [mem[s] EXCEPT !.pdf = "GENERATING"]

Begin(s) ==
  /\ pc[s] = "got" /\ kind[s] # "detail" /\ ~Keeps(s)
  /\ kind[s] = "mail" => mem[s].data # 0 /\ mem[s].pdf # "READY"
  /\ row' = WriteBack(s, Started(s))
  /\ Goto(s, "begun")
  /\ UNCHANGED <<source, stored, kind, mem, work, ticket, requests, historyVars>>

\* ReportStorage.upload: the object of the key is replaced.
Put(data) == stored' = {data}

Failed(s) == [mem[s] EXCEPT !.pdf = "FAILED"]

\* A PDF that cannot be rendered, or a storage that refuses it, perhaps after
\* it has taken it.
Fail(s) ==
  /\ pc[s] = "loaded"
  /\ UNCHANGED stored \/ Put(mem[s].data)
  /\ row' = WriteBack(s, Failed(s))
  /\ Goto(s, "failed")
  /\ UNCHANGED <<source, kind, mem, work, ticket, requests, historyVars>>

\* A storage that cannot be built or reached raises what nobody turns into
\* a ReportStorageError: nothing is written.
Raise(s) ==
  /\ pc[s] = "loaded"
  /\ UNCHANGED stored \/ Put(mem[s].data)
  /\ Goto(s, "raised")
  /\ UNCHANGED <<source, row, kind, mem, work, ticket, requests, historyVars>>

Upload(s) ==
  /\ pc[s] = "loaded"
  /\ Put(mem[s].data)
  /\ Goto(s, "uploaded")
  /\ UNCHANGED <<source, row, kind, mem, work, ticket, requests, historyVars>>

\* Seeded fault: a new PDF is not mailed again.
CompletedUnsent(s) == [mem[s] EXCEPT !.pdf = "READY", !.key = TRUE]

\* A regenerated report has to be mailed again.
Completed(s) ==
  [mem[s] EXCEPT !.pdf = "READY", !.key = TRUE, !.email = IF kind[s] = "force" THEN "PENDING" ELSE @]

Store(s) ==
  /\ pc[s] = "uploaded"
  /\ row' = WriteBack(s, Completed(s))
  /\ Goto(s, "ready")
  /\ clean' = (clean \/ alone[s])
  /\ UNCHANGED <<source, stored, kind, mem, work, ticket, requests, had, given, mailed, alone>>

-----------------------------------------------------------------------------
(* pdf_bytes, access and the batch.                                        *)

\* What pdf_bytes goes by after all that.
View(s) == IF pc[s] \in {"got", "raised"} THEN mem[s] ELSE row

\* The stored PDF, or one rendered on the fly if it is not to be had.
Download(s) ==
  /\ kind[s] = "pdf"
  /\ pc[s] \in {"ready", "failed", "raised"} \/ (pc[s] = "got" /\ Keeps(s))
  /\ \/ /\ View(s).pdf = "READY" /\ View(s).key
        /\ given' = given \union stored
     \/ given' = given \union {View(s).data}
  /\ Finished(s)
  /\ UNCHANGED <<source, row, stored, requests, had, mailed, clean>>

\* access: a link to the stored PDF, which the caller follows.
Access(s) ==
  /\ kind[s] = "access"
  /\ pc[s] = "ready" \/ (pc[s] = "got" /\ Keeps(s))
  /\ given' = given \union stored
  /\ Finished(s)
  /\ UNCHANGED <<source, row, stored, requests, had, mailed, clean>>

\* The batch that prepares the reports, a regeneration, or an access that
\* has failed: nothing is handed out.
EndEmpty(s) ==
  /\ kind[s] \in {"force", "access"}
  /\ pc[s] \in {"ready", "failed", "raised"}
  /\ Finished(s)
  /\ UNCHANGED <<source, row, stored, requests, had, given, mailed, clean>>

-----------------------------------------------------------------------------
(* send_monthly_report_email; ReportEmail has the rest of its life.        *)

Mailed(r, status, token) == [r EXCEPT !.email = status, !.token = token]

Claim(s) ==
  /\ Begun(s, "mail")
  /\ row # NoReport
  /\ row.email \in {"PENDING", "FAILED"}
  /\ row' = Mailed(row, "SENDING", requests + 1)
  /\ Goto(s, "unread")
  /\ UNCHANGED <<source, stored, mem, work, had, given, mailed, clean>>

Complete(s, status) ==
  /\ row' = IF row.email = "SENDING" /\ row.token = ticket[s]
            THEN Mailed(row, status, 0) ELSE row
  /\ Finished(s)

Skip(s) ==
  /\ pc[s] = "got" /\ kind[s] = "mail"
  /\ mem[s].data = 0
  /\ Complete(s, "SKIPPED")
  /\ UNCHANGED <<source, stored, requests, had, given, mailed, clean>>

\* The object in the storage is what is attached.
Attach(s) ==
  /\ kind[s] = "mail"
  /\ pc[s] = "ready" \/ (pc[s] = "got" /\ mem[s].data # 0 /\ mem[s].pdf = "READY")
  /\ stored # {}
  /\ work' = [work EXCEPT ![s] = CHOOSE d \in Data : d \in stored]
  /\ Goto(s, "send")
  /\ UNCHANGED <<source, row, stored, kind, mem, ticket, requests, historyVars>>

Send(s) ==
  /\ pc[s] = "send"
  /\ mailed' = {work[s]}
  /\ given' = given \union {work[s]}
  /\ Complete(s, "SENT")
  /\ UNCHANGED <<source, stored, requests, had, clean>>

\* No PDF, a download or the server fails.
FailMail(s) ==
  /\ kind[s] = "mail"
  /\ \/ pc[s] \in {"ready", "failed", "raised", "send"}
     \/ pc[s] = "got" /\ mem[s].data # 0 /\ mem[s].pdf = "READY"
  /\ Complete(s, "FAILED")
  /\ UNCHANGED <<source, stored, requests, had, given, mailed, clean>>

\* The process dies.
Crash(s) ==
  /\ pc[s] # "idle"
  /\ Finished(s)
  /\ UNCHANGED <<source, row, stored, requests, had, given, mailed, clean>>

Next ==
  \/ Correct
  \/ \E s \in Sessions :
       \/ \E k \in Kinds : Find(s, k) \/ Miss(s, k)
       \/ Build(s) \/ Insert(s) \/ Update(s) \/ Answer(s)
       \/ Refresh(s) \/ Begin(s) \/ Fail(s) \/ Raise(s) \/ Upload(s) \/ Store(s)
       \/ Download(s) \/ Access(s) \/ EndEmpty(s)
       \/ Claim(s) \/ Skip(s) \/ Attach(s) \/ Send(s) \/ FailMail(s)
       \/ Crash(s)

Spec == Init /\ [][Next]_vars

-----------------------------------------------------------------------------
(* Properties.                                                             *)

\* Whatever races to create a report, everybody is given the data and the PDF
\* of the row that won: nobody sees a report that was never the report.
OnlyTheReportIsShown == given \union stored \union mailed \subseteq had

\* A PDF that is READY is there to be downloaded, also while another session
\* is making it again or failing to.
ReadyIsThere ==
  row # NoReport /\ row.pdf = "READY" => row.key /\ stored # {}

\* The PDF that is READY and the mail that was SENT show the report as it is,
\* unless somebody was at work on it while it was regenerated; a month of
\* insufficient data is not mailed.
DeliveredIsCurrent ==
  row # NoReport /\ clean =>
    /\ row.pdf = "READY" => stored = {row.data}
    /\ row.email = "SENT" => mailed = {row.data} /\ row.data # 0

\* A report changes only with its version, unless a regeneration that has
\* loaded another version than there is now overlaps with one that made it: the
\* versions of overlapping regenerations may fall back and may leave a gap.
NewDataNewVersion ==
  [][row # NoReport /\ row'.data # row.data =>
       \/ row'.version = row.version + 1
       \/ \E s \in Sessions : pc[s] = "built" /\ kind[s] = "force" /\ mem[s].version # row.version]_vars

\* There is one report, whoever races to make it: what anybody was given was at
\* some time its content, and what is announced as ready can be downloaded.
OneReport == TypeOK /\ OnlyTheReportIsShown /\ ReadyIsThere

-----------------------------------------------------------------------------
(* What makes them inductive.                                              *)

Building == {"building", "built"}
Holding == {"got", "begun", "loaded", "uploaded", "raised"}

\* A session that is past building has a report; one that builds has loaded
\* it only to regenerate it.
SessionShape ==
  \A s \in Sessions :
    /\ pc[s] \in Holding => mem[s] # NoReport
    /\ pc[s] \notin Building \union {"idle"} \/ mem[s] # NoReport => row # NoReport
    /\ pc[s] \in Building => kind[s] # "mail" /\ (mem[s] # NoReport => kind[s] = "force")
    /\ pc[s] = "idle" => kind[s] = "detail"
    /\ pc[s] = "send" => kind[s] = "mail"

\* A version is never above the number of requests, nor is the one a
\* regeneration is about to write above its own.
VersionShape ==
  /\ row # NoReport => row.version <= requests
  /\ \A s \in Sessions :
       /\ ticket[s] <= requests
       /\ pc[s] # "idle" => ticket[s] > 0
       /\ pc[s] \in Building /\ mem[s] # NoReport => mem[s].version < ticket[s]

\* Whatever a session has loaded or attached, the report has had it.
CopiesHad ==
  /\ row # NoReport => row.data \in had
  /\ \A s \in Sessions : /\ mem[s] # NoReport => mem[s].data \in had
                         /\ pc[s] = "send" => work[s] \in had

\* A key is never taken back, and an object is never deleted.
StoredStays ==
  /\ row = NoReport => stored = {}
  /\ \A s \in Sessions : /\ mem[s] # NoReport /\ mem[s].key => row.key
                         /\ pc[s] = "uploaded" => stored # {}

\* While nobody disturbs the report, every copy is that of its data.
CopiesFresh ==
  clean \/ (\E s \in Sessions : alone[s]) =>
    \A s \in Sessions : pc[s] \in Holding => mem[s].data = row.data

\* A regeneration nobody disturbs puts its own PDF, and nobody mails.
AloneShape ==
  \A s \in Sessions : alone[s] =>
    /\ kind[s] = "force" /\ pc[s] \notin Building \union {"idle"}
    /\ \A t \in Sessions : kind[t] # "mail"
    /\ pc[s] \in Holding => row.email \in {mem[s].email, "PENDING"}
    /\ pc[s] = "uploaded" => stored = {row.data}

\* The PDF and the mail of an undisturbed report are those of its data.
CleanShape ==
  row # NoReport /\ clean =>
    /\ stored \subseteq {row.data}
    /\ row.email = "SENT" => mailed = {row.data} /\ row.data # 0
    /\ \A s \in Sessions :
         /\ kind[s] = "mail" /\ pc[s] \in {"begun", "loaded", "uploaded", "ready", "send"}
              => row.data # 0
         /\ pc[s] = "send" => work[s] = row.data

IInv ==
  /\ TypeOK
  /\ SessionShape
  /\ VersionShape
  /\ CopiesHad
  /\ StoredStays
  /\ OnlyTheReportIsShown
  /\ ReadyIsThere
  /\ CopiesFresh
  /\ AloneShape
  /\ CleanShape
=============================================================================
