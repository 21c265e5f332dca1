------------------------- MODULE MonthlyReportProofs -------------------------
(***************************************************************************)
(* Proofs about the monthly report, for any number of sessions,            *)
(* regenerations, corrections and requests.                                *)
(***************************************************************************)
EXTENDS MonthlyReport, TLAPS

-----------------------------------------------------------------------------
(* The operators the handlers are built from.                              *)

\* Writing back changes exactly the columns that were changed in the copy.
LEMMA WriteBackColumns ==
  ASSUME row \in Row, NEW s \in Sessions, mem[s] \in Row, NEW new \in Row
  PROVE  /\ WriteBack(s, new) \in Row
         /\ WriteBack(s, new).data = IF new.data # mem[s].data THEN new.data ELSE row.data
         /\ WriteBack(s, new).version = IF new.version # mem[s].version THEN new.version ELSE row.version
         /\ WriteBack(s, new).pdf = IF new.pdf # mem[s].pdf THEN new.pdf ELSE row.pdf
         /\ WriteBack(s, new).key = IF new.key # mem[s].key THEN new.key ELSE row.key
         /\ WriteBack(s, new).email = IF new.email # mem[s].email THEN new.email ELSE row.email
<1>1. DOMAIN row = {"data", "version", "pdf", "key", "email", "token"}
  BY DEF Row
<1>2. WriteBack(s, new) =
        [data |-> IF new.data # mem[s].data THEN new.data ELSE row.data,
         version |-> IF new.version # mem[s].version THEN new.version ELSE row.version,
         pdf |-> IF new.pdf # mem[s].pdf THEN new.pdf ELSE row.pdf,
         key |-> IF new.key # mem[s].key THEN new.key ELSE row.key,
         email |-> IF new.email # mem[s].email THEN new.email ELSE row.email,
         token |-> IF new.token # mem[s].token THEN new.token ELSE row.token]
  BY <1>1 DEF WriteBack
<1>3. QED
  BY <1>2 DEF Row

\* What the PDF pipeline writes back: the state of the PDF, its key, and, for
\* a regeneration, that the report has to be mailed.
LEMMA Marked ==
  ASSUME NEW s \in Sessions, mem[s] \in Row
  PROVE  /\ Started(s) \in Row /\ Completed(s) \in Row /\ Failed(s) \in Row
         /\ Started(s).data = mem[s].data /\ Started(s).version = mem[s].version
         /\ Started(s).key = mem[s].key /\ Started(s).email = mem[s].email
         /\ Started(s).pdf = "GENERATING"
         /\ Failed(s).data = mem[s].data
         /\ Failed(s).version = mem[s].version
         /\ Failed(s).key = mem[s].key
         /\ Failed(s).email = mem[s].email
         /\ Failed(s).pdf = "FAILED"
         /\ Completed(s).data = mem[s].data /\ Completed(s).version = mem[s].version
         /\ Completed(s).key /\ Completed(s).pdf = "READY"
         /\ Completed(s).email = IF kind[s] = "force" THEN "PENDING" ELSE mem[s].email
BY DEF Started, Completed, Failed, Row, PdfStatus, EmailStatus

-----------------------------------------------------------------------------
(* Types.                                                                  *)

LEMMA InitInv == ASSUME Init PROVE IInv
<1>1. TypeOK
  BY MonthlyAssumption DEF Init, TypeOK, Data, Kinds, Places
<1>2. SessionShape /\ VersionShape /\ CopiesHad /\ StoredStays
  BY MonthlyAssumption DEF Init, SessionShape, VersionShape, CopiesHad, StoredStays, Building, Holding
<1>3. OnlyTheReportIsShown /\ ReadyIsThere /\ CopiesFresh /\ AloneShape /\ CleanShape
  BY DEF Init, OnlyTheReportIsShown, ReadyIsThere, CopiesFresh, AloneShape, CleanShape, Holding
<1>4. QED
  BY <1>1, <1>2, <1>3 DEF IInv

\* The columns that are set by name.
LEMMA RegeneratedColumns ==
  ASSUME NEW r \in Row, NEW d \in Data, NEW v \in 1 .. MaxRequests + 1
  PROVE  /\ Regenerated(r, d, v) \in Row
         /\ Regenerated(r, d, v).data = d
         /\ Regenerated(r, d, v).version = v
         /\ Regenerated(r, d, v).pdf = r.pdf
         /\ Regenerated(r, d, v).key = r.key
         /\ Regenerated(r, d, v).email = r.email
<1>1. /\ [r EXCEPT !.data = d] \in Row
      /\ [r EXCEPT !.data = d].data = d /\ [r EXCEPT !.data = d].pdf = r.pdf
      /\ [r EXCEPT !.data = d].key = r.key /\ [r EXCEPT !.data = d].email = r.email
  BY DEF Row
<1>2. ASSUME NEW q \in Row
      PROVE  /\ [q EXCEPT !.version = v] \in Row
             /\ [q EXCEPT !.version = v].data = q.data /\ [q EXCEPT !.version = v].version = v
             /\ [q EXCEPT !.version = v].pdf = q.pdf /\ [q EXCEPT !.version = v].key = q.key
             /\ [q EXCEPT !.version = v].email = q.email
  BY DEF Row
<1>3. QED
  BY <1>1, <1>2 DEF Regenerated

LEMMA MailedColumns ==
  ASSUME NEW r \in Row, NEW e \in EmailStatus, NEW t \in 0 .. MaxRequests
  PROVE  /\ Mailed(r, e, t) \in Row
         /\ Mailed(r, e, t).data = r.data
         /\ Mailed(r, e, t).version = r.version
         /\ Mailed(r, e, t).pdf = r.pdf
         /\ Mailed(r, e, t).key = r.key
         /\ Mailed(r, e, t).email = e
<1>1. /\ [r EXCEPT !.email = e] \in Row
      /\ [r EXCEPT !.email = e].data = r.data /\ [r EXCEPT !.email = e].version = r.version
      /\ [r EXCEPT !.email = e].pdf = r.pdf /\ [r EXCEPT !.email = e].key = r.key
      /\ [r EXCEPT !.email = e].email = e
  BY DEF Row
<1>2. ASSUME NEW q \in Row
      PROVE  /\ [q EXCEPT !.token = t] \in Row
             /\ [q EXCEPT !.token = t].data = q.data /\ [q EXCEPT !.token = t].version = q.version
             /\ [q EXCEPT !.token = t].pdf = q.pdf /\ [q EXCEPT !.token = t].key = q.key
             /\ [q EXCEPT !.token = t].email = q.email
  BY DEF Row
<1>3. QED
  BY <1>1, <1>2 DEF Mailed

LEMMA NewRowType == ASSUME TypeOK, NEW s \in Sessions PROVE NewRow(work[s]) \in Row
  BY MonthlyAssumption DEF NewRow, TypeOK, Row, PdfStatus, EmailStatus

\* The end of a mail session writes the row only if its claim still holds.
LEMMA CompleteRow ==
  ASSUME TypeOK, row \in Row, NEW s \in Sessions, NEW e \in EmailStatus, Complete(s, e)
  PROVE  /\ row' \in Row
         /\ row'.data = row.data /\ row'.version = row.version
         /\ row'.pdf = row.pdf /\ row'.key = row.key
         /\ row'.email = row.email \/ row'.email = e
<1>1. 0 \in 0 .. MaxRequests
  BY MonthlyAssumption
<1>2. CASE row.email = "SENDING" /\ row.token = ticket[s]
  <2>1. row' = Mailed(row, e, 0)
    BY <1>2 DEF Complete
  <2>2. QED
    BY <1>1, <2>1, MailedColumns
<1>3. CASE ~(row.email = "SENDING" /\ row.token = ticket[s])
  BY <1>3 DEF Complete
<1>4. QED
  BY <1>2, <1>3

LEMMA TypeFinished ==
  ASSUME TypeOK, NEW s \in Sessions, Finished(s)
  PROVE  /\ pc' \in [Sessions -> Places] /\ kind' \in [Sessions -> Kinds]
         /\ mem' \in [Sessions -> Row \union {NoReport}]
         /\ work' \in [Sessions -> Data] /\ ticket' \in [Sessions -> 0 .. MaxRequests]
         /\ alone' \in [Sessions -> BOOLEAN]
BY MonthlyAssumption DEF TypeOK, Finished, Goto, Places, Kinds, Data

LEMMA TypeBegun ==
  ASSUME TypeOK, NEW s \in Sessions, NEW k \in Kinds, Begun(s, k)
  PROVE  /\ kind' \in [Sessions -> Kinds] /\ ticket' \in [Sessions -> 0 .. MaxRequests]
         /\ requests' \in 0 .. MaxRequests /\ alone' \in [Sessions -> BOOLEAN]
BY MonthlyAssumption DEF TypeOK, Begun

LEMMA TypeStep == ASSUME IInv, [Next]_vars PROVE TypeOK'
<1> USE MonthlyAssumption DEF IInv, sessionVars, historyVars
<1>1. CASE UNCHANGED vars
  BY <1>1 DEF vars, TypeOK
<1>2. CASE Correct
  <2>1. source + 1 \in Data
    BY <1>2 DEF Correct, TypeOK, Data
  <2>2. QED
    BY <1>2, <2>1 DEF Correct, TypeOK
<1>3. ASSUME NEW s \in Sessions, NEW k \in Kinds, Find(s, k) \/ Miss(s, k) PROVE TypeOK'
  <2>1. mem' \in [Sessions -> Row \union {NoReport}] /\ pc' \in [Sessions -> Places]
    BY <1>3 DEF Find, Miss, TypeOK, Places, Goto
  <2>2. QED
    BY <1>3, <2>1, TypeBegun DEF Find, Miss, TypeOK
<1>4. ASSUME NEW s \in Sessions, Build(s) PROVE TypeOK'
  BY <1>4 DEF Build, TypeOK, Places, Goto
<1>5. ASSUME NEW s \in Sessions, Insert(s) PROVE TypeOK'
  <2>1. NewRow(work[s]) \in Row
    BY NewRowType
  <2>2. row' = Inserted(s) /\ row' \in Row /\ row'.data \in Data
    BY <1>5, <2>1 DEF Insert, Inserted, TypeOK, Row
  <2>3. pc' \in [Sessions -> Places]
    BY <1>5 DEF Insert, TypeOK, Places, Goto
  <2>4. QED
    BY <1>5, <2>2, <2>3 DEF Insert, TypeOK
<1>6. ASSUME NEW s \in Sessions, Update(s) PROVE TypeOK'
  <2>1. row \in Row /\ work[s] \in Data /\ NewVersion(s) \in 1 .. MaxRequests + 1
    BY <1>6 DEF Update, NewVersion, TypeOK, SessionShape, VersionShape, Building, Row
  <2>2. row' \in Row
    BY <1>6, <2>1, RegeneratedColumns DEF Update
  <2>3. pc' \in [Sessions -> Places] /\ alone' \in [Sessions -> BOOLEAN]
    BY <1>6 DEF Update, TypeOK, Places, Goto
  <2>4. QED
    BY <1>6, <2>1, <2>2, <2>3 DEF Update, TypeOK
<1>7. ASSUME NEW s \in Sessions, Answer(s) \/ Download(s) \/ Access(s) PROVE TypeOK'
  <2>1. given' \subseteq Data
    BY <1>7 DEF Answer, Download, Access, View, TypeOK, SessionShape, Row, Building, Holding
  <2>2. QED
    BY <1>7, <2>1, TypeFinished DEF Answer, Download, Access, TypeOK
<1>8. ASSUME NEW s \in Sessions, EndEmpty(s) \/ Crash(s) PROVE TypeOK'
  BY <1>8, TypeFinished DEF EndEmpty, Crash, TypeOK
<1>9. ASSUME NEW s \in Sessions, Refresh(s) PROVE TypeOK'
  <2>1. pc' \in [Sessions -> Places] /\ mem' \in [Sessions -> Row \union {NoReport}]
    BY <1>9 DEF Refresh, TypeOK, Places, Goto
  <2>2. QED
    BY <1>9, <2>1 DEF Refresh, TypeOK
<1>10. ASSUME NEW s \in Sessions, Begin(s) \/ Fail(s) \/ Store(s) PROVE TypeOK'
  <2>1. row \in Row /\ mem[s] \in Row
    BY <1>10 DEF Begin, Fail, Store, TypeOK, SessionShape, Building, Holding
  <2>2. row' \in Row
    BY <1>10, <2>1, WriteBackColumns, Marked DEF Begin, Fail, Store
  <2>3. pc' \in [Sessions -> Places] /\ clean' \in BOOLEAN
    BY <1>10 DEF Begin, Fail, Store, TypeOK, Places, Goto
  <2>4. stored' \in {{}} \union {{d} : d \in Data}
    BY <1>10, <2>1 DEF Begin, Fail, Store, Put, TypeOK, Row
  <2>5. QED
    BY <1>10, <2>2, <2>3, <2>4 DEF Begin, Fail, Store, TypeOK
<1>11. ASSUME NEW s \in Sessions, Raise(s) \/ Upload(s) PROVE TypeOK'
  <2>1. mem[s] \in Row
    BY <1>11 DEF Raise, Upload, TypeOK, SessionShape, Holding
  <2>2. stored' \in {{}} \union {{d} : d \in Data}
    BY <1>11, <2>1 DEF Raise, Upload, Put, TypeOK, Row
  <2>3. pc' \in [Sessions -> Places]
    BY <1>11 DEF Raise, Upload, TypeOK, Places, Goto
  <2>4. QED
    BY <1>11, <2>2, <2>3 DEF Raise, Upload, TypeOK
<1>12. ASSUME NEW s \in Sessions, Claim(s) PROVE TypeOK'
  <2>1. row \in Row /\ requests + 1 \in 0 .. MaxRequests
    BY <1>12 DEF Claim, Begun, TypeOK
  <2>2. row' \in Row
    BY <1>12, <2>1, MailedColumns DEF Claim, EmailStatus
  <2>3. pc' \in [Sessions -> Places] /\ "mail" \in Kinds
    BY <1>12 DEF Claim, TypeOK, Places, Goto, Kinds
  <2>4. QED
    BY <1>12, <2>2, <2>3, TypeBegun DEF Claim, TypeOK
<1>13. ASSUME NEW s \in Sessions, Skip(s) \/ Send(s) \/ FailMail(s) PROVE TypeOK'
  <2>1. row \in Row
    BY <1>13 DEF Skip, Send, FailMail, TypeOK, SessionShape, Building
  <2>2. PICK e \in EmailStatus : Complete(s, e)
    BY <1>13 DEF Skip, Send, FailMail, EmailStatus
  <2>3. row' \in Row /\ Finished(s)
    BY <2>1, <2>2, CompleteRow DEF Complete
  <2>4. QED
    BY <1>13, <2>3, TypeFinished DEF Skip, Send, FailMail, TypeOK
<1>14. ASSUME NEW s \in Sessions, Attach(s) PROVE TypeOK'
  <2>1. (CHOOSE d \in Data : d \in stored) \in Data
    BY <1>14 DEF Attach, TypeOK
  <2>2. pc' \in [Sessions -> Places] /\ work' \in [Sessions -> Data]
    BY <1>14, <2>1 DEF Attach, TypeOK, Places, Goto
  <2>3. QED
    BY <1>14, <2>2 DEF Attach, TypeOK
<1>15. QED
  BY <1>1, <1>2, <1>3, <1>4, <1>5, <1>6, <1>7, <1>8, <1>9, <1>10, <1>11, <1>12, <1>13, <1>14
  DEF Next

-----------------------------------------------------------------------------
(* The parts of the inductive invariant, one after the other.              *)

\* A regeneration writes the data it has built, and the version after the one
\* it has loaded.
LEMMA RowUpdated ==
  ASSUME IInv, NEW s \in Sessions, Update(s)
  PROVE  /\ row \in Row /\ row' \in Row /\ row'.data = work[s]
         /\ row'.version = mem[s].version + 1 /\ row'.version <= ticket[s]
         /\ row'.key = row.key /\ row'.pdf = row.pdf /\ row'.email = row.email
<1> USE MonthlyAssumption
<1>1. row \in Row /\ work[s] \in Data /\ NewVersion(s) \in 1 .. MaxRequests + 1
  BY DEF IInv, Update, NewVersion, TypeOK, SessionShape, VersionShape, Building, Row
<1>2. NewVersion(s) = mem[s].version + 1 /\ NewVersion(s) <= ticket[s]
  BY DEF IInv, Update, NewVersion, TypeOK, VersionShape, Building, Row
<1>3. row' = Regenerated(row, work[s], NewVersion(s))
  BY DEF Update
<1>4. QED
  BY <1>1, <1>2, <1>3, RegeneratedColumns

\* The others keep data and version, and take no key away.
LEMMA RowBegun ==
  ASSUME IInv, NEW s \in Sessions, Begin(s)
  PROVE  /\ row \in Row /\ row' \in Row /\ mem[s] \in Row
         /\ row'.data = row.data /\ row'.version = row.version
         /\ row'.key = row.key /\ row'.email = row.email
         /\ row'.pdf = row.pdf \/ row'.pdf # "READY"
<1>1. row \in Row /\ mem[s] \in Row /\ row' = WriteBack(s, Started(s))
  BY MonthlyAssumption DEF IInv, Begin, TypeOK, SessionShape, Building, Holding
<1>2. QED
  BY <1>1, WriteBackColumns, Marked

LEMMA RowFailed ==
  ASSUME IInv, NEW s \in Sessions, Fail(s)
  PROVE  /\ row \in Row /\ row' \in Row /\ mem[s] \in Row
         /\ row'.data = row.data /\ row'.version = row.version
         /\ row'.key = row.key /\ row'.email = row.email
         /\ row'.pdf = row.pdf \/ row'.pdf # "READY"
<1>1. row \in Row /\ mem[s] \in Row /\ row' = WriteBack(s, Failed(s))
  BY MonthlyAssumption DEF IInv, Fail, TypeOK, SessionShape, Building, Holding
<1>2. QED
  BY <1>1, WriteBackColumns, Marked

LEMMA RowCompleted ==
  ASSUME IInv, NEW s \in Sessions, Store(s)
  PROVE  /\ row \in Row /\ row' \in Row /\ mem[s] \in Row
         /\ row'.data = row.data /\ row'.version = row.version /\ row'.key
         /\ kind[s] # "force" => row'.email = row.email
         /\ kind[s] = "force" /\ row.email \in {mem[s].email, "PENDING"} => row'.email = "PENDING"
         /\ kind[s] = "force" => row'.email \in {"PENDING", row.email}
<1>1. row \in Row /\ mem[s] \in Row /\ row' = WriteBack(s, Completed(s))
  BY MonthlyAssumption DEF IInv, Store, TypeOK, SessionShape, Building, Holding
<1>2. mem[s].key => row.key
  BY <1>1, MonthlyAssumption DEF IInv, StoredStays
<1>3. row' \in Row /\ row'.data = row.data /\ row'.version = row.version
  BY <1>1, WriteBackColumns, Marked
<1>4. row'.key
  BY <1>1, <1>2, WriteBackColumns, Marked
<1>5. row'.email = (IF Completed(s).email # mem[s].email THEN Completed(s).email ELSE row.email)
  BY <1>1, WriteBackColumns, Marked
<1>6. Completed(s).email = (IF kind[s] = "force" THEN "PENDING" ELSE mem[s].email)
  BY <1>1, Marked
<1>7. QED
  BY <1>1, <1>3, <1>4, <1>5, <1>6

LEMMA RowClaimed ==
  ASSUME IInv, NEW s \in Sessions, Claim(s)
  PROVE  /\ row \in Row /\ row' \in Row
         /\ row'.data = row.data /\ row'.version = row.version
         /\ row'.key = row.key /\ row'.pdf = row.pdf /\ row'.email = "SENDING"
<1>1. row \in Row /\ requests + 1 \in 0 .. MaxRequests /\ "SENDING" \in EmailStatus
  BY MonthlyAssumption DEF IInv, Claim, Begun, TypeOK, EmailStatus
<1>2. row' = Mailed(row, "SENDING", requests + 1)
  BY DEF Claim
<1>3. QED
  BY <1>1, <1>2, MailedColumns

LEMMA RowMailed ==
  ASSUME IInv, NEW s \in Sessions, Skip(s) \/ Send(s) \/ FailMail(s)
  PROVE  /\ row \in Row /\ row' \in Row
         /\ row'.data = row.data /\ row'.version = row.version
         /\ row'.key = row.key /\ row'.pdf = row.pdf
         /\ row'.email = "SENT" => row.email = "SENT" \/ Send(s)
         /\ Finished(s)
<1>1. row \in Row /\ TypeOK
  BY DEF IInv, Skip, Send, FailMail, TypeOK, SessionShape, Building
<1>2. PICK e \in EmailStatus : Complete(s, e) /\ (e = "SENT" => Send(s))
  BY DEF Skip, Send, FailMail, EmailStatus
<1>3. QED
  BY <1>1, <1>2, CompleteRow DEF Complete

\* What a step may do to the row: nobody but who creates or regenerates the
\* report touches its data and version, and keys are only set.
LEMMA RowStep ==
  ASSUME IInv, [Next]_vars, row # NoReport
  PROVE  /\ row' \in Row
         /\ \/ row'.data = row.data /\ row'.version = row.version
            \/ \E s \in Sessions : Update(s)
         /\ row'.version <= requests'
         /\ row.key => row'.key
         /\ row'.pdf = "READY" => row.pdf = "READY" \/ (\E s \in Sessions : Store(s))
<1> USE DEF sessionVars, historyVars
<1>0. row \in Row /\ row.version <= requests /\ requests \in Nat
      /\ \A s \in Sessions : ticket[s] <= requests /\ ticket[s] \in Nat
  BY DEF IInv, TypeOK, VersionShape
<1>1. CASE row' = row /\ (requests' = requests \/ requests' = requests + 1)
  BY <1>0, <1>1 DEF Row
<1>2. ASSUME NEW s \in Sessions, Update(s)
      PROVE  /\ row' \in Row /\ row'.version <= requests' /\ row'.key = row.key /\ row'.pdf = row.pdf
  <2>1. requests' = requests
    BY <1>2 DEF Update
  <2>2. QED
    BY <1>0, <1>2, <2>1, RowUpdated DEF Row
<1>3. ASSUME NEW s \in Sessions, Begin(s) \/ Fail(s) \/ Store(s) \/ Claim(s) \/ Skip(s) \/ Send(s) \/ FailMail(s)
      PROVE  /\ row' \in Row /\ row'.data = row.data /\ row'.version = row.version
             /\ row.key => row'.key
             /\ row'.pdf = "READY" => row.pdf = "READY" \/ Store(s)
             /\ row'.version <= requests'
  <2>1. requests' = requests \/ requests' = requests + 1
    BY <1>3 DEF Begin, Fail, Store, Claim, Begun, Skip, Send, FailMail
  <2>2. row' \in Row /\ row'.data = row.data /\ row'.version = row.version /\ (row.key => row'.key)
    BY <1>3, RowBegun, RowFailed, RowCompleted, RowClaimed, RowMailed
  <2>3. row'.pdf = "READY" => row.pdf = "READY" \/ Store(s)
    BY <1>3, RowBegun, RowFailed, RowClaimed, RowMailed
  <2>4. QED
    BY <1>0, <2>1, <2>2, <2>3 DEF Row
<1>4. ASSUME NEW s \in Sessions, NEW k \in Kinds, Find(s, k) \/ Miss(s, k)
      PROVE  row' = row /\ requests' = requests + 1
  BY <1>4 DEF Find, Miss, Begun
<1>5. ASSUME NEW s \in Sessions,
             \/ Build(s) \/ Insert(s) \/ Answer(s) \/ Refresh(s) \/ Raise(s) \/ Upload(s) \/ Download(s)
             \/ Access(s) \/ EndEmpty(s) \/ Attach(s) \/ Crash(s)
      PROVE  row' = row /\ requests' = requests
  BY <1>5 DEF Build, Insert, Answer, Refresh, Raise, Upload, Download, Access, EndEmpty, Attach, Crash
<1>6. ASSUME Correct \/ UNCHANGED vars PROVE row' = row /\ requests' = requests
  BY <1>6 DEF Correct, vars
<1>7. QED
  BY <1>1, <1>2, <1>3, <1>4, <1>5, <1>6 DEF Next

LEMMA RowStays == ASSUME IInv, [Next]_vars, row # NoReport PROVE row' # NoReport
  BY RowStep, MonthlyAssumption

LEMMA SessionStep == ASSUME IInv, [Next]_vars PROVE SessionShape'
<1> USE RowStays, MonthlyAssumption DEF IInv, sessionVars, historyVars, TypeOK, SessionShape, Building, Holding
<1>1. ASSUME NEW s \in Sessions, NEW k \in Kinds, Find(s, k) \/ Miss(s, k) PROVE SessionShape'
  BY <1>1 DEF Find, Miss, Begun, Goto
<1>2. ASSUME NEW s \in Sessions, Build(s) \/ Refresh(s) PROVE SessionShape'
  BY <1>2 DEF Build, Refresh, Goto
<1>3. ASSUME NEW s \in Sessions, Insert(s) PROVE SessionShape'
  <2>1. NewRow(work[s]) \in Row
    BY NewRowType
  <2>2. QED
    BY <1>3, <2>1 DEF Insert, Inserted, Goto
<1>4. ASSUME NEW s \in Sessions, Update(s) PROVE SessionShape'
  BY <1>4 DEF Update, Goto
<1>5. ASSUME NEW s \in Sessions, Finished(s), row' = row \/ row # NoReport PROVE SessionShape'
  BY <1>5 DEF Finished, Goto
<1>6. ASSUME NEW s \in Sessions, Answer(s) \/ Download(s) \/ Access(s) \/ EndEmpty(s) \/ Crash(s)
      PROVE  SessionShape'
  BY <1>5, <1>6 DEF Answer, Download, Access, EndEmpty, Crash
<1>7. ASSUME NEW s \in Sessions, Skip(s) \/ Send(s) \/ FailMail(s) PROVE SessionShape'
  BY <1>5, <1>7 DEF Skip, Send, FailMail, Complete
<1>8. ASSUME NEW s \in Sessions, Begin(s) \/ Fail(s) \/ Store(s) \/ Raise(s) \/ Upload(s) \/ Attach(s)
      PROVE  SessionShape'
  BY <1>8 DEF Begin, Fail, Store, Raise, Upload, Attach, Goto
<1>9. ASSUME NEW s \in Sessions, Claim(s) PROVE SessionShape'
  BY <1>9 DEF Claim, Begun, Goto
<1>10. CASE Correct \/ UNCHANGED vars
  BY <1>10 DEF Correct, vars
<1>11. QED
  BY <1>1, <1>2, <1>3, <1>4, <1>6, <1>7, <1>8, <1>9, <1>10 DEF Next

LEMMA VersionStep == ASSUME IInv, [Next]_vars PROVE VersionShape'
<1> USE DEF sessionVars, historyVars, Building
<1> /\ MaxRequests \in Nat
    /\ row \in Row \union {NoReport} /\ pc \in [Sessions -> Places]
    /\ mem \in [Sessions -> Row \union {NoReport}]
    /\ ticket \in [Sessions -> 0 .. MaxRequests] /\ requests \in 0 .. MaxRequests
  BY MonthlyAssumption DEF IInv, TypeOK
<1> VersionShape /\ SessionShape
  BY DEF IInv
<1> USE DEF VersionShape
<1>0. ASSUME row # NoReport PROVE row'.version <= requests'
  BY <1>0, RowStep
<1>1. ASSUME NEW s \in Sessions, NEW k \in Kinds, Find(s, k) \/ Miss(s, k) PROVE VersionShape'
  BY <1>1 DEF Find, Miss, Begun, Goto, Row
<1>2. ASSUME NEW s \in Sessions, Insert(s) PROVE VersionShape'
  BY <1>2 DEF Insert, Inserted, NewRow, Goto, Row
<1>3. ASSUME NEW s \in Sessions,
             \/ Build(s) \/ Update(s) \/ Refresh(s) \/ Begin(s) \/ Fail(s) \/ Raise(s)
             \/ Upload(s) \/ Store(s) \/ Attach(s)
      PROVE  VersionShape'
  <2>1. row' # NoReport => row # NoReport
    BY <1>3 DEF Build, Update, Refresh, Begin, Fail, Raise, Upload, Store, Attach, SessionShape, Holding
  <2>2. UNCHANGED <<ticket, requests>>
    BY <1>3 DEF Build, Update, Refresh, Begin, Fail, Raise, Upload, Store, Attach
  <2>3. \A t \in Sessions : /\ pc'[t] # "idle" => pc[t] # "idle"
                            /\ pc'[t] \in Building => pc[t] \in Building /\ mem'[t] = mem[t]
    BY <1>3 DEF Build, Update, Refresh, Begin, Fail, Raise, Upload, Store, Attach, Goto
  <2>4. row' # NoReport => row'.version <= requests'
    BY <1>0, <2>1, <2>2
  <2>5. ASSUME NEW t \in Sessions
        PROVE  /\ ticket'[t] <= requests'
               /\ pc'[t] # "idle" => ticket'[t] > 0
               /\ pc'[t] \in Building /\ mem'[t] # NoReport => mem'[t].version < ticket'[t]
    BY <2>2, <2>3
  <2>6. QED
    BY <2>4, <2>5
<1>4. ASSUME NEW s \in Sessions, Finished(s), UNCHANGED requests, row' # NoReport => row # NoReport
      PROVE  VersionShape'
  BY <1>0, <1>4 DEF Finished, Goto
<1>5. ASSUME NEW s \in Sessions, Answer(s) \/ Download(s) \/ Access(s) \/ EndEmpty(s) \/ Crash(s)
      PROVE  VersionShape'
  BY <1>4, <1>5 DEF Answer, Download, Access, EndEmpty, Crash
<1>6. ASSUME NEW s \in Sessions, Skip(s) \/ Send(s) \/ FailMail(s) PROVE VersionShape'
  BY <1>4, <1>6 DEF Skip, Send, FailMail, Complete, SessionShape
<1>7. ASSUME NEW s \in Sessions, Claim(s) PROVE VersionShape'
  BY <1>0, <1>7 DEF Claim, Begun, Goto
<1>8. CASE Correct \/ UNCHANGED vars
  BY <1>8 DEF Correct, vars
<1>9. QED
  BY <1>1, <1>2, <1>3, <1>5, <1>6, <1>7, <1>8 DEF Next

LEMMA CopiesStep == ASSUME IInv, [Next]_vars PROVE CopiesHad' /\ OnlyTheReportIsShown'
<1> USE DEF sessionVars, historyVars
<1> /\ row \in Row \union {NoReport} /\ NoReport \notin Row
    /\ pc \in [Sessions -> Places] /\ mem \in [Sessions -> Row \union {NoReport}]
    /\ work \in [Sessions -> Data]
    /\ stored \in {{}} \union {{d} : d \in Data}
  BY MonthlyAssumption DEF IInv, TypeOK
<1> CopiesHad /\ OnlyTheReportIsShown /\ SessionShape
  BY DEF IInv
<1> USE DEF CopiesHad, OnlyTheReportIsShown
<1>1. ASSUME row # NoReport, row'.data = row.data, had \subseteq had' PROVE row'.data \in had'
  BY <1>1
<1>2. ASSUME NEW s \in Sessions, NEW k \in Kinds, Find(s, k) \/ Miss(s, k)
      PROVE  CopiesHad' /\ OnlyTheReportIsShown'
  BY <1>2 DEF Find, Miss, Begun, Goto
<1>3. ASSUME NEW s \in Sessions, Build(s) \/ Refresh(s) \/ Raise(s) \/ Upload(s)
      PROVE  CopiesHad' /\ OnlyTheReportIsShown'
  BY <1>3 DEF Build, Refresh, Raise, Upload, Put, Goto, SessionShape, Building, Holding
<1>4. ASSUME NEW s \in Sessions, Insert(s) PROVE CopiesHad' /\ OnlyTheReportIsShown'
  <2>1. row' = Inserted(s) /\ mem' = [mem EXCEPT ![s] = row'] /\ had' = had \union {row'.data}
    BY <1>4 DEF Insert, Inserted
  <2>2. \A t \in Sessions : pc'[t] = "send" => pc[t] = "send"
    BY <1>4 DEF Insert, Goto
  <2>3. QED
    BY <1>4, <2>1, <2>2 DEF Insert
<1>5. ASSUME NEW s \in Sessions, Update(s) PROVE CopiesHad' /\ OnlyTheReportIsShown'
  <2>1. row # NoReport /\ row'.data = work[s]
    BY <1>5, RowUpdated
  <2>2. \A t \in Sessions : pc'[t] = "send" => pc[t] = "send"
    BY <1>5 DEF Update, Goto
  <2>3. QED
    BY <1>5, <2>1, <2>2 DEF Update
<1>6. ASSUME NEW s \in Sessions, Finished(s)
      PROVE  \A t \in Sessions : /\ mem'[t] = mem[t] \/ mem'[t] = NoReport
                                 /\ pc'[t] = "send" => pc[t] = "send" /\ work'[t] = work[t]
  BY <1>6 DEF Finished, Goto
<1>7. ASSUME NEW s \in Sessions, Answer(s) \/ Download(s) \/ Access(s) \/ EndEmpty(s) \/ Crash(s)
      PROVE  CopiesHad' /\ OnlyTheReportIsShown'
  <2>1. given' \subseteq had
    BY <1>7 DEF Answer, Download, Access, EndEmpty, Crash, View, SessionShape, Building, Holding
  <2>2. QED
    BY <1>6, <1>7, <2>1 DEF Answer, Download, Access, EndEmpty, Crash
<1>8. ASSUME NEW s \in Sessions, Skip(s) \/ Send(s) \/ FailMail(s)
      PROVE  CopiesHad' /\ OnlyTheReportIsShown'
  <2>1. row # NoReport
    BY <1>8 DEF Skip, Send, FailMail, SessionShape, Building
  <2>2. PICK e \in EmailStatus : Complete(s, e)
    BY <1>8 DEF Skip, Send, FailMail, EmailStatus
  <2>3. row'.data = row.data /\ Finished(s)
    BY <2>1, <2>2, CompleteRow DEF Complete, IInv
  <2>4. given' \union mailed' \subseteq had
    BY <1>8 DEF Skip, Send, FailMail
  <2>5. QED
    BY <1>6, <1>8, <2>1, <2>3, <2>4 DEF Skip, Send, FailMail
<1>9. ASSUME NEW s \in Sessions, Begin(s) \/ Fail(s) \/ Store(s)
      PROVE  CopiesHad' /\ OnlyTheReportIsShown'
  <2>1. row # NoReport
    BY <1>9 DEF Begin, Fail, Store, SessionShape, Building
  <2>2. row'.data = row.data
    BY <1>9, RowBegun, RowFailed, RowCompleted
  <2>3. \A t \in Sessions : pc'[t] = "send" => pc[t] = "send"
    BY <1>9 DEF Begin, Fail, Store, Goto
  <2>4. stored' \subseteq had
    BY <1>9 DEF Begin, Fail, Store, Put, SessionShape, Building, Holding
  <2>5. QED
    BY <1>9, <2>1, <2>2, <2>3, <2>4 DEF Begin, Fail, Store
<1>10. ASSUME NEW s \in Sessions, Claim(s) PROVE CopiesHad' /\ OnlyTheReportIsShown'
  <2>1. row # NoReport /\ row'.data = row.data
    BY <1>10, RowClaimed
  <2>2. \A t \in Sessions : pc'[t] = "send" => pc[t] = "send"
    BY <1>10 DEF Claim, Goto
  <2>3. QED
    BY <1>10, <2>1, <2>2 DEF Claim
<1>11. ASSUME NEW s \in Sessions, Attach(s) PROVE CopiesHad' /\ OnlyTheReportIsShown'
  <2>1. (CHOOSE d \in Data : d \in stored) \in stored
    BY <1>11 DEF Attach
  <2>2. QED
    BY <1>11, <2>1 DEF Attach, Goto
<1>12. CASE Correct \/ UNCHANGED vars
  BY <1>12 DEF Correct, vars
<1>13. QED
  BY <1>2, <1>3, <1>4, <1>5, <1>7, <1>8, <1>9, <1>10, <1>11, <1>12 DEF Next

LEMMA StoredStep == ASSUME IInv, [Next]_vars PROVE StoredStays' /\ ReadyIsThere'
<1> USE DEF sessionVars, historyVars
<1> /\ row \in Row \union {NoReport} /\ NoReport \notin Row
    /\ pc \in [Sessions -> Places] /\ mem \in [Sessions -> Row \union {NoReport}]
  BY MonthlyAssumption DEF IInv, TypeOK
<1> StoredStays /\ ReadyIsThere /\ SessionShape
  BY DEF IInv
<1> USE DEF StoredStays, ReadyIsThere
<1>1. ASSUME NEW s \in Sessions, NEW k \in Kinds, Find(s, k) \/ Miss(s, k)
      PROVE  StoredStays' /\ ReadyIsThere'
  BY <1>1 DEF Find, Miss, Begun, Goto
<1>2. ASSUME NEW s \in Sessions, Build(s) \/ Refresh(s) \/ Attach(s) PROVE StoredStays' /\ ReadyIsThere'
  BY <1>2 DEF Build, Refresh, Attach, Goto
<1>3. ASSUME NEW s \in Sessions, Raise(s) \/ Upload(s) PROVE StoredStays' /\ ReadyIsThere'
  BY <1>3 DEF Raise, Upload, Put, Goto, SessionShape, Building
<1>4. ASSUME NEW s \in Sessions, Insert(s) PROVE StoredStays' /\ ReadyIsThere'
  <2>1. row' = Inserted(s) /\ mem' = [mem EXCEPT ![s] = row'] /\ row' # NoReport
    BY <1>4, NewRowType DEF Insert, Inserted, IInv
  <2>2. row = NoReport => row'.pdf = "PENDING" /\ ~row'.key
    BY <2>1 DEF Inserted, NewRow
  <2>3. \A t \in Sessions : pc'[t] = "uploaded" => pc[t] = "uploaded"
    BY <1>4 DEF Insert, Goto
  <2>4. row = NoReport => \A t \in Sessions : mem[t] # NoReport => FALSE
    BY DEF SessionShape
  <2>5. QED
    BY <1>4, <2>1, <2>2, <2>3, <2>4 DEF Insert, Inserted
<1>5. ASSUME NEW s \in Sessions, Update(s) PROVE StoredStays' /\ ReadyIsThere'
  <2>1. \A t \in Sessions : pc'[t] = "uploaded" => pc[t] = "uploaded"
    BY <1>5 DEF Update, Goto
  <2>2. QED
    BY <1>5, <2>1, RowUpdated DEF Update
<1>6. ASSUME NEW s \in Sessions, Finished(s), UNCHANGED stored, row' = row
      PROVE  StoredStays' /\ ReadyIsThere'
  BY <1>6 DEF Finished, Goto
<1>7. ASSUME NEW s \in Sessions, Answer(s) \/ Download(s) \/ Access(s) \/ EndEmpty(s) \/ Crash(s)
      PROVE  StoredStays' /\ ReadyIsThere'
  BY <1>6, <1>7 DEF Answer, Download, Access, EndEmpty, Crash
<1>8. ASSUME NEW s \in Sessions, Skip(s) \/ Send(s) \/ FailMail(s)
      PROVE  StoredStays' /\ ReadyIsThere'
  <2>1. UNCHANGED stored
    BY <1>8 DEF Skip, Send, FailMail
  <2>2. \A t \in Sessions : /\ mem'[t] = mem[t] \/ mem'[t] = NoReport
                            /\ pc'[t] = "uploaded" => pc[t] = "uploaded"
    BY <1>8, RowMailed DEF Finished, Goto
  <2>3. QED
    BY <1>8, <2>1, <2>2, RowMailed
<1>9. ASSUME NEW s \in Sessions, Begin(s) \/ Fail(s) PROVE StoredStays' /\ ReadyIsThere'
  <2>1. \A t \in Sessions : pc'[t] = "uploaded" => pc[t] = "uploaded"
    BY <1>9 DEF Begin, Fail, Goto
  <2>2. row' \in Row /\ row \in Row /\ row'.key = row.key /\ (row'.pdf = row.pdf \/ row'.pdf # "READY")
    BY <1>9, RowBegun, RowFailed
  <2>3. (stored # {} => stored' # {}) /\ UNCHANGED mem
    BY <1>9 DEF Begin, Fail, Put
  <2>4. QED
    BY <2>1, <2>2, <2>3
<1>10. ASSUME NEW s \in Sessions, Store(s) PROVE StoredStays' /\ ReadyIsThere'
  <2>1. stored # {} /\ UNCHANGED <<stored, mem>>
    BY <1>10 DEF Store
  <2>2. \A t \in Sessions : pc'[t] = "uploaded" => pc[t] = "uploaded"
    BY <1>10 DEF Store, Goto
  <2>3. QED
    BY <1>10, <2>1, <2>2, RowCompleted
<1>11. ASSUME NEW s \in Sessions, Claim(s) PROVE StoredStays' /\ ReadyIsThere'
  <2>1. \A t \in Sessions : pc'[t] = "uploaded" => pc[t] = "uploaded"
    BY <1>11 DEF Claim, Goto
  <2>2. QED
    BY <1>11, <2>1, RowClaimed DEF Claim
<1>12. CASE Correct \/ UNCHANGED vars
  BY <1>12 DEF Correct, vars
<1>13. QED
  BY <1>1, <1>2, <1>3, <1>4, <1>5, <1>7, <1>8, <1>9, <1>10, <1>11, <1>12 DEF Next

\* Copies taken while nobody disturbs the report stay true, and one that a
\* regeneration leaves behind belongs to a session that is not past building.
LEMMA FreshStep == ASSUME IInv, [Next]_vars PROVE CopiesFresh'
<1> USE DEF sessionVars, historyVars
<1> /\ row \in Row \union {NoReport} /\ NoReport \notin Row
    /\ pc \in [Sessions -> Places] /\ mem \in [Sessions -> Row \union {NoReport}]
    /\ alone \in [Sessions -> BOOLEAN] /\ clean \in BOOLEAN
  BY MonthlyAssumption DEF IInv, TypeOK
<1> CopiesFresh /\ SessionShape
  BY DEF IInv
<1> DEFINE Calm == clean \/ \E s \in Sessions : alone[s]
           Fresh == \A t \in Sessions : pc[t] \in Holding => mem[t].data = row.data
<1> HIDE DEF Calm
<1> USE DEF Holding
<1>0. (Calm => Fresh) /\ ((Calm' => Fresh') => CopiesFresh')
  BY DEF CopiesFresh, Calm
<1>1. ASSUME NEW s \in Sessions, NEW k \in Kinds, Find(s, k) \/ Miss(s, k) PROVE Calm' => Fresh'
  <2>1. Calm' => Calm
    BY <1>1 DEF Find, Miss, Begun, Calm
  <2>2. QED
    BY <1>0, <1>1, <2>1 DEF Find, Miss, Begun, Goto
<1>2. ASSUME NEW s \in Sessions,
             Build(s) \/ Refresh(s) \/ Raise(s) \/ Upload(s) \/ Attach(s)
      PROVE  Calm' => Fresh'
  <2>1. Calm' => Calm
    BY <1>2 DEF Build, Refresh, Raise, Upload, Attach, Calm
  <2>2. QED
    BY <1>0, <1>2, <2>1 DEF Build, Refresh, Raise, Upload, Attach, Goto
<1>3. ASSUME NEW s \in Sessions, Insert(s) PROVE Calm' => Fresh'
  <2>1. row' = Inserted(s) /\ mem' = [mem EXCEPT ![s] = row'] /\ (row # NoReport => row' = row)
    BY <1>3 DEF Insert, Inserted
  <2>2. Calm' => Calm
    BY <1>3 DEF Insert, Calm
  <2>3. row = NoReport => \A t \in Sessions : pc[t] \notin Holding
    BY DEF SessionShape
  <2>4. \A t \in Sessions : t # s => pc'[t] = pc[t]
    BY <1>3 DEF Insert, Goto
  <2>5. QED
    BY <1>0, <2>1, <2>2, <2>3, <2>4
<1>4. ASSUME NEW s \in Sessions, Update(s) PROVE Calm' => Fresh'
  <2>1. Calm' => \A t \in Sessions \ {s} : Idle(t)
    BY <1>4 DEF Update, Calm
  <2>2. pc' = [pc EXCEPT ![s] = "unread"]
    BY <1>4 DEF Update, Goto
  <2>3. QED
    BY <2>1, <2>2 DEF Idle
<1>5. ASSUME NEW s \in Sessions, Finished(s), UNCHANGED clean, row' = row \/ row'.data = row.data
      PROVE  Calm' => Fresh'
  <2>1. Calm' => Calm
    BY <1>5 DEF Finished, Calm
  <2>2. QED
    BY <1>0, <1>5, <2>1 DEF Finished, Goto
<1>6. ASSUME NEW s \in Sessions, Answer(s) \/ Download(s) \/ Access(s) \/ EndEmpty(s) \/ Crash(s)
      PROVE  Calm' => Fresh'
  BY <1>5, <1>6 DEF Answer, Download, Access, EndEmpty, Crash
<1>7. ASSUME NEW s \in Sessions, Skip(s) \/ Send(s) \/ FailMail(s) PROVE Calm' => Fresh'
  BY <1>5, <1>7, RowMailed DEF Skip, Send, FailMail
<1>8. ASSUME NEW s \in Sessions, Begin(s) \/ Fail(s) \/ Store(s) PROVE Calm' => Fresh'
  <2>1. Calm' => Calm
    BY <1>8 DEF Begin, Fail, Store, Calm
  <2>2. row'.data = row.data
    BY <1>8, RowBegun, RowFailed, RowCompleted
  <2>3. UNCHANGED mem /\ \A t \in Sessions : pc'[t] \in Holding => pc[t] \in Holding
    BY <1>8 DEF Begin, Fail, Store, Goto
  <2>4. QED
    BY <1>0, <2>1, <2>2, <2>3
<1>9. ASSUME NEW s \in Sessions, Claim(s) PROVE Calm' => Fresh'
  <2>1. Calm' => Calm
    BY <1>9 DEF Claim, Begun, Calm
  <2>2. UNCHANGED mem /\ \A t \in Sessions : pc'[t] \in Holding => pc[t] \in Holding
    BY <1>9 DEF Claim, Goto
  <2>3. QED
    BY <1>0, <1>9, <2>1, <2>2, RowClaimed
<1>10. CASE Correct \/ UNCHANGED vars
  <2>1. (Calm' => Calm) /\ UNCHANGED <<row, pc, mem>>
    BY <1>10 DEF Correct, vars, Calm
  <2>2. QED
    BY <1>0, <2>1
<1>11. QED
  BY <1>0, <1>1, <1>2, <1>3, <1>4, <1>6, <1>7, <1>8, <1>9, <1>10 DEF Next

LEMMA AloneStep == ASSUME IInv, [Next]_vars PROVE AloneShape'
<1> USE DEF sessionVars, historyVars
<1> /\ row \in Row \union {NoReport} /\ NoReport \notin Row
    /\ pc \in [Sessions -> Places] /\ mem \in [Sessions -> Row \union {NoReport}]
    /\ kind \in [Sessions -> Kinds] /\ alone \in [Sessions -> BOOLEAN]
  BY MonthlyAssumption DEF IInv, TypeOK
<1> AloneShape /\ SessionShape /\ CopiesFresh
  BY DEF IInv
<1> USE DEF AloneShape, Holding, Building
<1>1. ASSUME NEW s \in Sessions, NEW k \in Kinds, Find(s, k) \/ Miss(s, k) PROVE AloneShape'
  BY <1>1 DEF Find, Miss, Begun
<1>2. ASSUME NEW s \in Sessions, Claim(s) PROVE AloneShape'
  BY <1>2 DEF Claim, Begun
<1>3. ASSUME NEW s \in Sessions, Build(s) \/ Refresh(s) \/ Attach(s) PROVE AloneShape'
  BY <1>3 DEF Build, Refresh, Attach, Goto
<1>4. ASSUME NEW s \in Sessions, Raise(s) \/ Upload(s) PROVE AloneShape'
  <2>1. stored' = stored \/ stored' = {mem[s].data}
    BY <1>4 DEF Raise, Upload, Put
  <2>2. UNCHANGED <<row, kind, mem, alone>> /\ pc[s] = "loaded"
        /\ \A t \in Sessions : t # s => pc'[t] = pc[t]
    BY <1>4 DEF Raise, Upload, Goto
  <2>3. pc'[s] \in {"raised", "uploaded"} /\ (pc'[s] = "uploaded" => stored' = {mem[s].data})
    BY <1>4 DEF Raise, Upload, Goto, Put
  <2>4. (\E t \in Sessions : alone[t]) => mem[s].data = row.data
    BY <2>2 DEF CopiesFresh
  <2>5. QED
    BY <2>1, <2>2, <2>3, <2>4
<1>5. ASSUME NEW s \in Sessions, Insert(s) PROVE AloneShape'
  <2>1. (\E t \in Sessions : alone[t]) => row # NoReport
    BY DEF SessionShape
  <2>2. ~alone[s] /\ UNCHANGED <<stored, kind, alone>> /\ (row # NoReport => row' = row)
    BY <1>5 DEF Insert
  <2>3. \A t \in Sessions : t # s => pc'[t] = pc[t] /\ mem'[t] = mem[t]
    BY <1>5 DEF Insert, Goto
  <2>4. QED
    BY <2>1, <2>2, <2>3
<1>6. ASSUME NEW s \in Sessions, Update(s) PROVE AloneShape'
  <2>1. pc' = [pc EXCEPT ![s] = "unread"] /\ UNCHANGED kind
    BY <1>6 DEF Update, Goto
  <2>2. \A t \in Sessions : alone'[t] => t = s /\ \A u \in Sessions \ {s} : Idle(u)
    BY <1>6 DEF Update
  <2>3. kind[s] = "force" /\ \A u \in Sessions : Idle(u) => kind[u] # "mail"
    BY <1>6 DEF Update, Idle, SessionShape
  <2>4. QED
    BY <2>1, <2>2, <2>3
<1>7. ASSUME NEW s \in Sessions, Finished(s), UNCHANGED stored, row' = row
             \/ (row'.data = row.data /\ kind[s] = "mail")
      PROVE  AloneShape'
  BY <1>7 DEF Finished, Goto
<1>8. ASSUME NEW s \in Sessions, Answer(s) \/ Download(s) \/ Access(s) \/ EndEmpty(s) \/ Crash(s)
      PROVE  AloneShape'
  BY <1>7, <1>8 DEF Answer, Download, Access, EndEmpty, Crash
<1>9. ASSUME NEW s \in Sessions, Skip(s) \/ Send(s) \/ FailMail(s) PROVE AloneShape'
  <2>1. row'.data = row.data /\ UNCHANGED stored /\ Finished(s)
    BY <1>9, RowMailed DEF Skip, Send, FailMail
  <2>2. kind[s] = "mail"
    BY <1>9 DEF Skip, Send, FailMail, SessionShape
  <2>3. QED
    BY <1>7, <2>1, <2>2
<1>10. ASSUME NEW s \in Sessions, Begin(s) PROVE AloneShape'
  <2>1. row'.email = row.email /\ row'.data = row.data
    BY <1>10, RowBegun
  <2>2. QED
    BY <1>10, <2>1 DEF Begin, Goto
<1>11. ASSUME NEW s \in Sessions, Fail(s) PROVE AloneShape'
  <2>1. row'.email = row.email /\ row'.data = row.data
    BY <1>11, RowFailed
  <2>2. (\E t \in Sessions : alone[t]) => mem[s].data = row.data
    BY <1>11 DEF CopiesFresh, Fail
  <2>3. QED
    BY <1>11, <2>1, <2>2 DEF Fail, Goto, Put
<1>12. ASSUME NEW s \in Sessions, Store(s) PROVE AloneShape'
  <2>1. \A t \in Sessions : alone[t] => kind[t] = "force"
    OBVIOUS
  <2>2. row'.data = row.data /\ row'.email \in {"PENDING", row.email}
    BY <1>12, RowCompleted
  <2>3. QED
    BY <1>12, <2>1, <2>2 DEF Store, Goto
<1>13. CASE Correct \/ UNCHANGED vars
  BY <1>13 DEF Correct, vars
<1>14. QED
  BY <1>1, <1>2, <1>3, <1>4, <1>5, <1>6, <1>8, <1>9, <1>10, <1>11, <1>12, <1>13 DEF Next

LEMMA CleanStep == ASSUME IInv, [Next]_vars PROVE CleanShape'
<1> USE DEF sessionVars, historyVars
<1> /\ row \in Row \union {NoReport} /\ NoReport \notin Row
    /\ pc \in [Sessions -> Places] /\ mem \in [Sessions -> Row \union {NoReport}]
    /\ kind \in [Sessions -> Kinds] /\ work \in [Sessions -> Data] /\ clean \in BOOLEAN
  BY MonthlyAssumption DEF IInv, TypeOK
<1> CleanShape /\ AloneShape /\ SessionShape /\ StoredStays
  BY DEF IInv
<1> USE DEF CleanShape
<1>0. ASSUME clean, NEW s \in Sessions, pc[s] \in Holding PROVE mem[s].data = row.data
  BY <1>0 DEF CopiesFresh, IInv
<1>1. ASSUME NEW s \in Sessions, NEW k \in Kinds, Find(s, k) \/ Miss(s, k) PROVE CleanShape'
  BY <1>1 DEF Find, Miss, Begun, Goto
<1>2. ASSUME NEW s \in Sessions, Build(s) PROVE CleanShape'
  BY <1>2 DEF Build, Goto
<1>3. ASSUME NEW s \in Sessions, Refresh(s) PROVE CleanShape'
  BY <1>3 DEF Refresh, Goto
<1>4. ASSUME NEW s \in Sessions, Raise(s) \/ Upload(s) PROVE CleanShape'
  <2>1. clean => stored' \subseteq stored \union {row.data}
    BY <1>0, <1>4 DEF Raise, Upload, Put, Holding
  <2>2. QED
    BY <1>4, <2>1 DEF Raise, Upload, Goto
<1>5. ASSUME NEW s \in Sessions, Insert(s) PROVE CleanShape'
  <2>1. CASE row = NoReport
    <3>1. row'.email = "PENDING" /\ stored' = {}
      BY <1>5, <2>1 DEF Insert, NewRow, StoredStays
    <3>2. \A t \in Sessions : pc'[t] \in Building \union {"idle", "got", "unread"}
      BY <1>5, <2>1 DEF Insert, Goto, SessionShape
    <3>3. QED
      BY <3>1, <3>2 DEF Building
  <2>2. CASE row # NoReport
    BY <1>5, <2>2 DEF Insert, Goto
  <2>3. QED
    BY <2>1, <2>2
<1>6. ASSUME NEW s \in Sessions, Update(s) PROVE CleanShape'
  BY <1>6 DEF Update
<1>7. ASSUME NEW s \in Sessions, Finished(s), UNCHANGED <<stored, clean, row>>, UNCHANGED mailed
      PROVE  CleanShape'
  BY <1>7 DEF Finished, Goto
<1>8. ASSUME NEW s \in Sessions, Answer(s) \/ Download(s) \/ Access(s) \/ EndEmpty(s) \/ Crash(s)
      PROVE  CleanShape'
  BY <1>7, <1>8 DEF Answer, Download, Access, EndEmpty, Crash
<1>9. ASSUME NEW s \in Sessions, Skip(s) \/ FailMail(s) PROVE CleanShape'
  <2>1. /\ row # NoReport /\ row'.data = row.data /\ Finished(s)
        /\ row'.email = "SENT" => row.email = "SENT"
    <3>1. row \in Row /\ TypeOK
      BY <1>9, RowMailed DEF IInv
    <3>2. PICK e \in EmailStatus : Complete(s, e) /\ e # "SENT"
      BY <1>9 DEF Skip, FailMail, EmailStatus
    <3>3. QED
      BY <3>1, <3>2, CompleteRow DEF Complete
  <2>2. UNCHANGED <<stored, clean, mailed>>
    BY <1>9 DEF Skip, FailMail
  <2>3. QED
    BY <2>1, <2>2 DEF Finished, Goto
<1>10. ASSUME NEW s \in Sessions, Send(s) PROVE CleanShape'
  <2>1. row # NoReport /\ row'.data = row.data /\ Finished(s)
    BY <1>10, RowMailed
  <2>2. UNCHANGED <<stored, clean>> /\ mailed' = {work[s]} /\ pc[s] = "send" /\ kind[s] = "mail"
    BY <1>10 DEF Send, SessionShape
  <2>3. QED
    BY <2>1, <2>2 DEF Finished, Goto
<1>11. ASSUME NEW s \in Sessions, Begin(s) PROVE CleanShape'
  <2>1. row # NoReport /\ row'.email = row.email /\ row'.data = row.data
    BY <1>11, RowBegun
  <2>2. clean /\ kind[s] = "mail" => row.data # 0
    BY <1>0, <1>11 DEF Begin, Holding
  <2>3. QED
    BY <1>11, <2>1, <2>2 DEF Begin, Goto
<1>12. ASSUME NEW s \in Sessions, Fail(s) PROVE CleanShape'
  <2>1. row # NoReport /\ row'.email = row.email /\ row'.data = row.data
    BY <1>12, RowFailed
  <2>2. clean => stored' \subseteq stored \union {row.data}
    BY <1>0, <1>12 DEF Fail, Put, Holding
  <2>3. QED
    BY <1>12, <2>1, <2>2 DEF Fail, Goto
<1>13. ASSUME NEW s \in Sessions, Store(s) PROVE CleanShape'
  <2>1. row # NoReport /\ row'.data = row.data /\ row'.email \in {"PENDING", row.email}
    BY <1>13, RowCompleted
  <2>2. pc[s] = "uploaded" /\ pc' = [pc EXCEPT ![s] = "ready"] /\ UNCHANGED <<stored, kind, work, mailed>>
    BY <1>13 DEF Store, Goto
  <2>3. CASE clean
    BY <2>1, <2>2, <2>3
  <2>4. CASE ~clean /\ alone[s]
    <3>1. stored = {row.data} /\ kind[s] = "force" /\ \A t \in Sessions : kind[t] # "mail"
      BY <2>2, <2>4 DEF AloneShape
    <3>2. row'.email = "PENDING"
      BY <1>13, <2>2, <2>4, RowCompleted DEF AloneShape, Holding
    <3>3. \A t \in Sessions : pc'[t] # "send"
      BY <2>2, <3>1 DEF SessionShape
    <3>4. QED
      BY <2>1, <2>2, <3>1, <3>2, <3>3
  <2>5. CASE ~clean /\ ~alone[s]
    BY <1>13, <2>5 DEF Store
  <2>6. QED
    BY <2>3, <2>4, <2>5
<1>14. ASSUME NEW s \in Sessions, Claim(s) PROVE CleanShape'
  <2>1. row # NoReport /\ row'.email = "SENDING" /\ row'.data = row.data
    BY <1>14, RowClaimed
  <2>2. QED
    BY <1>14, <2>1 DEF Claim, Begun, Goto
<1>15. ASSUME NEW s \in Sessions, Attach(s) PROVE CleanShape'
  <2>1. (CHOOSE d \in Data : d \in stored) \in stored
    BY <1>15 DEF Attach, IInv, TypeOK
  <2>2. row # NoReport
    BY <1>15 DEF Attach, SessionShape, Building
  <2>3. clean => work'[s] = row.data
    BY <1>15, <2>1, <2>2 DEF Attach
  <2>4. clean => row.data # 0
    BY <1>0, <1>15, <2>2 DEF Attach, Holding
  <2>5. QED
    BY <1>15, <2>2, <2>3, <2>4 DEF Attach, Goto
<1>16. CASE Correct \/ UNCHANGED vars
  BY <1>16 DEF Correct, vars
<1>17. QED
  BY <1>1, <1>2, <1>3, <1>4, <1>5, <1>6, <1>8, <1>9, <1>10, <1>11, <1>12, <1>13, <1>14, <1>15,
     <1>16 DEF Next

-----------------------------------------------------------------------------
(* Theorems.                                                               *)

\* The inductive invariant holds of every state: in particular whoever races to
\* create, regenerate, render and mail a report, the copies they hold are of it.
THEOREM InvariantCorrect == Spec => []IInv
<1>1. Init => IInv
  BY InitInv
<1>2. IInv /\ [Next]_vars => IInv'
  <2>1. SUFFICES ASSUME IInv, [Next]_vars PROVE IInv'
    OBVIOUS
  <2>2. TypeOK' /\ SessionShape' /\ VersionShape' /\ CopiesHad' /\ OnlyTheReportIsShown'
    BY <2>1, TypeStep, SessionStep, VersionStep, CopiesStep
  <2>3. StoredStays' /\ ReadyIsThere' /\ CopiesFresh' /\ AloneShape' /\ CleanShape'
    BY <2>1, StoredStep, FreshStep, AloneStep, CleanStep
  <2>4. QED
    BY <2>2, <2>3 DEF IInv
<1>3. QED
  BY <1>1, <1>2, PTL DEF Spec

\* There is one report: what anybody was given was at some time its content, and
\* a PDF that is announced as ready can be downloaded.
THEOREM OneReportCorrect == Spec => []OneReport
<1>1. IInv => OneReport
  BY DEF IInv, OneReport
<1>2. QED
  BY <1>1, InvariantCorrect, PTL

\* The PDF and the mail of a report nobody disturbed show it as it is, however
\* many sessions regenerate, render and send it.
THEOREM DeliveredIsCurrentCorrect == Spec => []DeliveredIsCurrent
<1>1. IInv => DeliveredIsCurrent
  <2>1. SUFFICES ASSUME IInv, row # NoReport, clean
                 PROVE  /\ row.pdf = "READY" => stored = {row.data}
                        /\ row.email = "SENT" => mailed = {row.data} /\ row.data # 0
    BY DEF DeliveredIsCurrent
  <2>2. stored \subseteq {row.data} /\ (row.email = "SENT" => mailed = {row.data} /\ row.data # 0)
    BY <2>1 DEF IInv, CleanShape
  <2>3. row.pdf = "READY" => stored # {}
    BY <2>1 DEF IInv, ReadyIsThere
  <2>4. QED
    BY <2>2, <2>3
<1>2. QED
  BY <1>1, InvariantCorrect, PTL

\* The data of a report change with its version, except under a regeneration
\* that had loaded a version that is not the report's any more.
THEOREM NewDataNewVersionCorrect == Spec => NewDataNewVersion
<1>1. ASSUME IInv, [Next]_vars, row # NoReport, row'.data # row.data
      PROVE  \/ row'.version = row.version + 1
             \/ \E s \in Sessions : pc[s] = "built" /\ kind[s] = "force" /\ mem[s].version # row.version
  <2>1. PICK s \in Sessions : Update(s)
    BY <1>1, RowStep
  <2>2. row'.version = mem[s].version + 1
    BY <1>1, <2>1, RowUpdated
  <2>3. pc[s] = "built" /\ kind[s] = "force"
    BY <1>1, <2>1 DEF Update, IInv, SessionShape, Building
  <2>4. QED
    BY <2>2, <2>3
<1>2. IInv /\ [Next]_vars =>
        [row # NoReport /\ row'.data # row.data =>
           \/ row'.version = row.version + 1
           \/ \E s \in Sessions : pc[s] = "built" /\ kind[s] = "force" /\ mem[s].version # row.version]_vars
  BY <1>1
<1>3. QED
  BY <1>2, InvariantCorrect, PTL DEF Spec, NewDataNewVersion
=============================================================================
