------------------------- MODULE Verification_proofs -------------------------
(***************************************************************************)
(* Theorems of Verification, for every set of requests, versions, sources  *)
(* and spellings: what is stored was matched, what is installed was        *)
(* checked, and concurrent downloads leave no broken compiler behind.      *)
(***************************************************************************)
EXTENDS Verification, SequenceTheorems, TLAPS

Pcs == Busy \cup {"idle"}

\* Every step is one of these; the proofs below have one case for each.
LEMMA NextCases ==
  ASSUME [Next]_vars
  PROVE  \/ RefreshRemoteList \/ SetContractABI \/ Restart \/ UNCHANGED vars
         \/ \E src \in Sources : Import(src)
         \/ \E r \in Requests :
              \/ Submit(r) \/ GetCode(r) \/ GetCompiler(r) \/ Download(r) \/ OpenFile(r)
              \/ WriteFile(r) \/ Register(r) \/ Exec(r) \/ Compile(r) \/ Store(r)
  BY DEF Next, Step

\* What Goes does to the program counters.
LEMMA GoesFact ==
  ASSUME TypeOK, NEW r \in Requests, NEW a, NEW b \in Pcs, Goes(r, a, b)
  PROVE  /\ pc[r] = a /\ pc' \in [Requests -> Pcs]
         /\ pc'[r] = b /\ \A q \in Requests : q # r => pc'[q] = pc[q]
  BY DEF TypeOK, Goes, Pcs

\* What the end of a request with an error does.
LEMMA FailFact ==
  ASSUME TypeOK, NEW r \in Requests, Fail(r)
  PROVE  /\ pc' \in [Requests -> Pcs] /\ pc'[r] = "idle"
         /\ answer' \in [Requests -> {"none", "failed", "verified"}]
         /\ answer'[r] = "failed"
         /\ bytes' \in [Requests -> {"none", "good", "bad"}]
         /\ \A q \in Requests : q # r =>
              pc'[q] = pc[q] /\ answer'[q] = answer[q] /\ bytes'[q] = bytes[q]
         /\ UNCHANGED <<job, use>>
  BY DEF TypeOK, Fail, Pcs

\* While the disk is left alone and those that write go on, a file is as broken as it
\* was, and for the same reason.
LEMMA DiskKept ==
  ASSUME BrokenOnlyIfSpoilt, UNCHANGED diskVars,
         \A q \in Requests : pc[q] = "writing" => pc'[q] = "writing" /\ job'[q] = job[q]
  PROVE  BrokenOnlyIfSpoilt'
  <1>1. \A v \in Versions : Writers(v) \subseteq Writers(v)'
    BY DEF Writers
  <1>2. QED
    BY <1>1 DEF BrokenOnlyIfSpoilt, diskVars

\* A request that fails without having a file open, and touches nothing else, keeps
\* the invariant.
LEMMA FailStep ==
  ASSUME VerificationInv, NEW r \in Requests, Fail(r), pc[r] # "writing",
         UNCHANGED <<diskVars, managerVars, rows>>
  PROVE  VerificationInv'
  <1> USE DEF managerVars, diskVars
  <1>1. TypeOK'
    BY FailFact DEF VerificationInv, TypeOK, Pcs
  <1>2. StoredMatches' /\ NoForeignBinary' /\ RegisteredOnDisk'
    BY DEF VerificationInv, StoredMatches, NoForeignBinary, RegisteredOnDisk
  <1>3. BrokenOnlyIfSpoilt'
    BY FailFact, DiskKept DEF VerificationInv
  <1>4. RequestInv'
    BY FailFact DEF VerificationInv, RequestInv, RequestOK, Compare
  <1>5. QED
    BY <1>1, <1>2, <1>3, <1>4 DEF VerificationInv

\* A step that moves a request between two states in which it does not write, and
\* leaves disk and table alone, keeps what the rest of the invariant says of them.
LEMMA QuietStep ==
  ASSUME VerificationInv, NEW r \in Requests, NEW a \in Pcs \ {"writing"},
         NEW b \in Pcs, Goes(r, a, b), UNCHANGED <<diskVars, local, rows, job>>
  PROVE  /\ StoredMatches' /\ NoForeignBinary' /\ RegisteredOnDisk'
         /\ BrokenOnlyIfSpoilt'
  <1>1. StoredMatches' /\ NoForeignBinary' /\ RegisteredOnDisk'
    BY DEF VerificationInv, StoredMatches, NoForeignBinary, RegisteredOnDisk, diskVars
  <1>2. BrokenOnlyIfSpoilt'
    BY GoesFact, DiskKept DEF VerificationInv
  <1>3. QED
    BY <1>1, <1>2

\* A request keeps what it relies on while another one moves: files do not vanish.
LEMMA Bystanders ==
  ASSUME VerificationInv, NEW r \in Requests, UNCHANGED job,
         \A v \in Versions : file[v] # "absent" => file'[v] # "absent",
         \A q \in Requests : q # r =>
           pc'[q] = pc[q] /\ use'[q] = use[q] /\ bytes'[q] = bytes[q]
             /\ answer'[q] = answer[q],
         RequestOK(r)'
  PROVE  RequestInv'
  <1> SUFFICES ASSUME NEW q \in Requests, q # r
               PROVE  RequestOK(q)'
      BY DEF RequestInv
  <1>1. RequestOK(q) /\ job[q].ver \in Versions
    BY DEF VerificationInv, RequestInv, TypeOK, Jobs
  <1>2. QED
    BY <1>1 DEF RequestOK, Compare

\* A new submission: the request was idle, so nobody relies on what it was.
LEMMA SubmitStep ==
  ASSUME VerificationInv, NEW r \in Requests, Submit(r)
  PROVE  VerificationInv'
  <1> USE DEF diskVars, managerVars
  <1>1. Goes(r, "idle", "code") /\ UNCHANGED <<file, last, spoilt, local, listed, rows, use, bytes>>
    BY DEF Submit
  <1>2. PICK j \in Jobs : job' = [job EXCEPT ![r] = j]
    BY DEF Submit
  <1>3. answer' = [answer EXCEPT ![r] = "none"]
    BY DEF Submit
  <1>4. TypeOK
    BY DEF VerificationInv
  <1>5. /\ pc[r] = "idle" /\ pc' \in [Requests -> Pcs] /\ pc'[r] = "code"
        /\ \A q \in Requests : q # r => pc'[q] = pc[q]
    BY <1>1, <1>4, GoesFact DEF Pcs, Busy
  <1>6. job' \in [Requests -> Jobs] /\ \A q \in Requests : q # r => job'[q] = job[q]
    BY <1>2, <1>4 DEF TypeOK
  <1>7. /\ answer' \in [Requests -> {"none", "failed", "verified"}] /\ answer'[r] = "none"
        /\ \A q \in Requests : q # r => answer'[q] = answer[q]
    BY <1>3, <1>4 DEF TypeOK
  <1>8. TypeOK'
    BY <1>1, <1>4, <1>5, <1>6, <1>7 DEF TypeOK, Pcs
  <1>9. StoredMatches' /\ NoForeignBinary' /\ RegisteredOnDisk'
    BY <1>1 DEF VerificationInv, StoredMatches, NoForeignBinary, RegisteredOnDisk
  <1>10. BrokenOnlyIfSpoilt'
    BY <1>1, <1>5, <1>6, DiskKept DEF VerificationInv
  <1>11. RequestInv'
    <2>1. RequestOK(r)'
      BY <1>5, <1>7 DEF RequestOK
    <2>2. ASSUME NEW q \in Requests, q # r PROVE RequestOK(q)'
      BY <2>2, <1>1, <1>5, <1>6, <1>7 DEF VerificationInv, RequestInv, RequestOK, Compare
    <2>3. QED
      BY <2>1, <2>2 DEF RequestInv
  <1>12. QED
    BY <1>8, <1>9, <1>10, <1>11 DEF VerificationInv

\* GetCode goes on, or fails.
LEMMA GetCodeStep ==
  ASSUME VerificationInv, NEW r \in Requests, GetCode(r)
  PROVE  VerificationInv'
  <1> USE DEF diskVars, managerVars
  <1>1. CASE Fail(r)
    BY <1>1, FailStep DEF GetCode
  <1>2. CASE Goes(r, "code", "compiler") /\ UNCHANGED <<job, use, bytes, answer>>
    <2>1. UNCHANGED <<file, last, spoilt, local, listed, rows>>
      BY DEF GetCode
    <2>2. TypeOK
      BY DEF VerificationInv
    <2>3. /\ pc[r] = "code" /\ pc' \in [Requests -> Pcs] /\ pc'[r] = "compiler"
          /\ \A q \in Requests : q # r => pc'[q] = pc[q]
      BY <1>2, <2>2, GoesFact DEF Pcs, Busy
    <2>4. TypeOK'
      BY <1>2, <2>1, <2>2, <2>3 DEF TypeOK, Pcs
    <2>5. StoredMatches' /\ NoForeignBinary' /\ RegisteredOnDisk' /\ BrokenOnlyIfSpoilt'
      BY <1>2, <2>1, QuietStep DEF Pcs, Busy
    <2>6. RequestOK(r)'
      BY <1>2, <2>3 DEF VerificationInv, RequestInv, RequestOK
    <2>7. RequestInv'
      BY <1>2, <2>1, <2>3, <2>6, Bystanders
    <2>8. QED
      BY <2>4, <2>5, <2>7 DEF VerificationInv
  <1>3. QED
    BY <1>1, <1>2 DEF GetCode

\* GetCompiler finds a local one, sends the request to the download, or fails.
LEMMA GetCompilerStep ==
  ASSUME VerificationInv, NEW r \in Requests, GetCompiler(r)
  PROVE  VerificationInv'
  <1> USE DEF diskVars, managerVars
  <1>0. TypeOK /\ UNCHANGED <<file, last, spoilt, local, listed, rows>>
    BY DEF VerificationInv, GetCompiler
  <1>1. CASE Fail(r)
    BY <1>1, FailStep DEF GetCompiler
  <1>2. ASSUME NEW w \in Versions, Goes(r, "compiler", "exec"),
               use' = [use EXCEPT ![r] = w], UNCHANGED <<job, bytes, answer>>
        PROVE  VerificationInv'
    <2>1. /\ pc[r] = "compiler" /\ pc' \in [Requests -> Pcs] /\ pc'[r] = "exec"
          /\ \A q \in Requests : q # r => pc'[q] = pc[q]
      BY <1>0, <1>2, GoesFact DEF Pcs, Busy
    <2>2. use' \in [Requests -> Versions] /\ \A q \in Requests : q # r => use'[q] = use[q]
      BY <1>0, <1>2 DEF TypeOK
    <2>3. TypeOK'
      BY <1>0, <1>2, <2>1, <2>2 DEF TypeOK, Pcs
    <2>4. StoredMatches' /\ NoForeignBinary' /\ RegisteredOnDisk' /\ BrokenOnlyIfSpoilt'
      BY <1>0, <1>2, QuietStep DEF Pcs, Busy
    <2>5. answer[r] = "none"
      BY <2>1 DEF VerificationInv, RequestInv, RequestOK
    <2>6. RequestOK(r)'
      BY <1>2, <2>1, <2>5 DEF RequestOK
    <2>7. RequestInv'
      BY <1>0, <1>2, <2>1, <2>2, <2>6, Bystanders
    <2>8. QED
      BY <2>3, <2>4, <2>7 DEF VerificationInv
  <1>3. CASE Goes(r, "compiler", "download") /\ UNCHANGED <<job, use, bytes, answer>>
    <2>1. /\ pc[r] = "compiler" /\ pc' \in [Requests -> Pcs] /\ pc'[r] = "download"
          /\ \A q \in Requests : q # r => pc'[q] = pc[q]
      BY <1>0, <1>3, GoesFact DEF Pcs, Busy
    <2>2. TypeOK'
      BY <1>0, <1>3, <2>1 DEF TypeOK, Pcs
    <2>3. StoredMatches' /\ NoForeignBinary' /\ RegisteredOnDisk' /\ BrokenOnlyIfSpoilt'
      BY <1>0, <1>3, QuietStep DEF Pcs, Busy
    <2>4. RequestOK(r)'
      BY <1>3, <2>1 DEF VerificationInv, RequestInv, RequestOK
    <2>5. RequestInv'
      BY <1>0, <1>3, <2>1, <2>4, Bystanders
    <2>6. QED
      BY <2>2, <2>3, <2>5 DEF VerificationInv
  <1>4. Candidates(job[r].ver) \subseteq Versions
    BY <1>0 DEF TypeOK, Jobs, Candidates
  <1>5. QED
    BY <1>1, <1>2, <1>3, <1>4 DEF GetCompiler

\* Download lets through what has the published hash, or fails.
LEMMA DownloadStep ==
  ASSUME VerificationInv, NEW r \in Requests, Download(r)
  PROVE  VerificationInv'
  <1> USE DEF diskVars, managerVars
  <1>0. TypeOK /\ UNCHANGED <<file, last, spoilt, local, listed, rows>>
    BY DEF VerificationInv, Download
  <1>1. CASE Fail(r)
    BY <1>1, FailStep DEF Download
  <1>2. ASSUME NEW data \in {"good", "bad"}, Goes(r, "download", "open"),
               Accept(job[r].ver, data), bytes' = [bytes EXCEPT ![r] = data],
               UNCHANGED <<job, use, answer>>
        PROVE  VerificationInv'
    <2>1. /\ pc[r] = "download" /\ pc' \in [Requests -> Pcs] /\ pc'[r] = "open"
          /\ \A q \in Requests : q # r => pc'[q] = pc[q]
      BY <1>0, <1>2, GoesFact DEF Pcs, Busy
    <2>2. /\ bytes' \in [Requests -> {"none", "good", "bad"}] /\ bytes'[r] = "good"
          /\ \A q \in Requests : q # r => bytes'[q] = bytes[q]
      BY <1>0, <1>2 DEF TypeOK, Accept
    <2>3. TypeOK'
      BY <1>0, <1>2, <2>1, <2>2 DEF TypeOK, Pcs
    <2>4. StoredMatches' /\ NoForeignBinary' /\ RegisteredOnDisk' /\ BrokenOnlyIfSpoilt'
      BY <1>0, <1>2, QuietStep DEF Pcs, Busy
    <2>5. RequestOK(r)'
      BY <1>2, <2>1, <2>2 DEF VerificationInv, RequestInv, RequestOK
    <2>6. RequestInv'
      BY <1>0, <1>2, <2>1, <2>2, <2>5, Bystanders
    <2>7. QED
      BY <2>3, <2>4, <2>6 DEF VerificationInv
  <1>3. QED
    BY <1>1, <1>2 DEF Download

\* Opening the file truncates it: it is incomplete from here on, and being written by
\* the one that opened it last.
LEMMA OpenFileStep ==
  ASSUME VerificationInv, NEW r \in Requests, OpenFile(r)
  PROVE  VerificationInv'
  <1> USE DEF managerVars
  <1>0. TypeOK /\ UNCHANGED <<local, listed, rows>> /\ pc[r] = "open"
    BY DEF VerificationInv, OpenFile
  <1>1. CASE Fail(r) /\ UNCHANGED diskVars
    BY <1>0, <1>1, FailStep
  <1>2. CASE /\ Goes(r, "open", "writing") /\ UNCHANGED <<job, use, bytes, answer>>
             /\ file' = [file EXCEPT ![job[r].ver] = "partial"]
             /\ last' = [last EXCEPT ![job[r].ver] = r] /\ spoilt' = spoilt \ {job[r].ver}
    <2> DEFINE w == job[r].ver
    <2>1. /\ pc' \in [Requests -> Pcs] /\ pc'[r] = "writing"
          /\ \A q \in Requests : q # r => pc'[q] = pc[q]
      BY <1>0, <1>2, GoesFact DEF Pcs, Busy
    <2>2. w \in Versions
      BY <1>0 DEF TypeOK, Jobs
    <2>3. /\ file' \in [Versions -> {"absent", "partial", "whole", "foreign"}]
          /\ file'[w] = "partial" /\ \A v \in Versions : v # w => file'[v] = file[v]
      BY <1>0, <1>2, <2>2 DEF TypeOK
    <2>4. /\ last' \in [Versions -> Requests \cup {None}]
          /\ last'[w] = r /\ \A v \in Versions : v # w => last'[v] = last[v]
      BY <1>0, <1>2, <2>2 DEF TypeOK
    <2>5. TypeOK'
      BY <1>0, <1>2, <2>1, <2>3, <2>4 DEF TypeOK, Pcs
    <2>6. StoredMatches'
      BY <1>0 DEF VerificationInv, StoredMatches
    <2>7. NoForeignBinary'
      BY <2>3 DEF VerificationInv, NoForeignBinary
    <2>8. RegisteredOnDisk'
      BY <1>0, <2>3 DEF VerificationInv, RegisteredOnDisk, TypeOK
    <2>9. ASSUME NEW v \in Versions, file'[v] = "partial"
          PROVE  last'[v] \in Writers(v)' \/ v \in spoilt'
      <3>1. CASE v = w
        BY <1>2, <2>1, <2>4, <3>1 DEF Writers
      <3>2. CASE v # w
        <4>1. last[v] \in Writers(v) \/ v \in spoilt
          BY <2>3, <2>9, <3>2 DEF VerificationInv, BrokenOnlyIfSpoilt
        <4>2. Writers(v) \subseteq Writers(v)'
          BY <1>0, <1>2, <2>1 DEF Writers
        <4>3. QED
          BY <1>2, <2>4, <3>2, <4>1, <4>2
      <3>3. QED
        BY <3>1, <3>2
    <2>10. BrokenOnlyIfSpoilt'
      BY <2>9 DEF BrokenOnlyIfSpoilt
    <2>11. RequestOK(r)'
      BY <1>0, <1>2, <2>1, <2>3 DEF VerificationInv, RequestInv, RequestOK
    <2>12. RequestInv'
      BY <1>2, <2>1, <2>3, <2>11, Bystanders
    <2>13. QED
      BY <2>5, <2>6, <2>7, <2>8, <2>10, <2>12 DEF VerificationInv
  <1>3. QED
    BY <1>1, <1>2 DEF OpenFile

\* The end of a write, whole or cut short, as far as the disk goes: a file that is
\* incomplete after it was so before, and another request opened it last, or this one
\* did and its write was cut short.
LEMMA WriteEnds ==
  ASSUME VerificationInv, NEW r \in Requests, NEW f \in {"whole", file[job[r].ver]},
         pc[r] = "writing", last' = Closed(r), UNCHANGED <<local, job>>,
         file' = [file EXCEPT ![job[r].ver] = f],
         \/ spoilt' = spoilt /\ (last[job[r].ver] = r => f = "whole")
         \/ spoilt' = IF last[job[r].ver] = r THEN spoilt \cup {job[r].ver} ELSE spoilt,
         \A q \in Requests : q # r => pc'[q] = pc[q]
  PROVE  /\ file' \in [Versions -> {"absent", "partial", "whole", "foreign"}]
         /\ last' \in [Versions -> Requests \cup {None}] /\ spoilt' \subseteq Versions
         /\ \A v \in Versions : file[v] # "absent" => file'[v] # "absent"
         /\ NoForeignBinary' /\ RegisteredOnDisk' /\ BrokenOnlyIfSpoilt'
  <1> DEFINE w == job[r].ver
  <1>1. TypeOK /\ w \in Versions /\ file[w] # "absent"
    BY DEF VerificationInv, TypeOK, Jobs, RequestInv, RequestOK
  <1>2. /\ file' \in [Versions -> {"absent", "partial", "whole", "foreign"}]
        /\ file'[w] = f /\ \A v \in Versions : v # w => file'[v] = file[v]
    BY <1>1 DEF TypeOK
  <1>3. /\ last' \in [Versions -> Requests \cup {None}]
        /\ last[w] # r => last'[w] = last[w]
        /\ \A v \in Versions : v # w => last'[v] = last[v]
    BY <1>1 DEF TypeOK, Closed
  <1>4. spoilt \subseteq spoilt' /\ spoilt' \subseteq Versions
    BY <1>1 DEF TypeOK
  <1>5. NoForeignBinary'
    BY <1>1, <1>2 DEF VerificationInv, NoForeignBinary
  <1>6. RegisteredOnDisk'
    BY <1>1, <1>2 DEF VerificationInv, RegisteredOnDisk, TypeOK
  <1>7. ASSUME NEW v \in Versions, file'[v] = "partial"
        PROVE  last'[v] \in Writers(v)' \/ v \in spoilt'
    <2>1. file[v] = "partial"
      BY <1>2, <1>7
    <2>2. last[v] \in Writers(v) \/ v \in spoilt
      BY <2>1 DEF VerificationInv, BrokenOnlyIfSpoilt
    <2>3. Writers(v) \ {r} \subseteq Writers(v)'
      BY DEF Writers
    <2>4. CASE v = w
      <3>1. CASE last[w] = r
        BY <1>2, <1>7, <2>4, <3>1
      <3>2. CASE last[w] # r
        BY <1>3, <1>4, <2>2, <2>3, <2>4, <3>2
      <3>3. QED
        BY <3>1, <3>2
    <2>5. CASE v # w
      <3>1. r \notin Writers(v)
        BY <2>5 DEF Writers
      <3>2. QED
        BY <1>3, <1>4, <2>2, <2>3, <2>5, <3>1
    <2>6. QED
      BY <2>4, <2>5
  <1>8. BrokenOnlyIfSpoilt'
    BY <1>7 DEF BrokenOnlyIfSpoilt
  <1>9. QED
    BY <1>1, <1>2, <1>3, <1>4, <1>5, <1>6, <1>8

\* The write ends well, or is cut short; what is written has the published hash.
LEMMA WriteFileStep ==
  ASSUME VerificationInv, NEW r \in Requests, WriteFile(r)
  PROVE  VerificationInv'
  <1> USE DEF managerVars
  <1> DEFINE w == job[r].ver
  <1>0. TypeOK /\ UNCHANGED <<local, listed, rows, job, use>> /\ pc[r] = "writing"
    BY DEF VerificationInv, WriteFile, WholeWrite, CutShort, Fail
  <1>1. Written(r) = "whole" /\ answer[r] = "none"
    BY <1>0 DEF VerificationInv, RequestInv, RequestOK, Written
  <1>2. StoredMatches'
    BY <1>0 DEF VerificationInv, StoredMatches
  <1>3. CASE WholeWrite(r)
    <2>1. /\ pc' \in [Requests -> Pcs] /\ pc'[r] = "register"
          /\ \A q \in Requests : q # r => pc'[q] = pc[q]
      BY <1>0, <1>3, GoesFact DEF WholeWrite, Pcs, Busy
    <2>2. PICK f \in {"whole"} \cup (IF last[w] = r THEN {} ELSE {file[w]}) :
            file' = [file EXCEPT ![w] = f]
      BY <1>1, <1>3 DEF WholeWrite
    <2>3. /\ bytes' \in [Requests -> {"none", "good", "bad"}]
          /\ \A q \in Requests : q # r => bytes'[q] = bytes[q]
          /\ answer' = answer /\ spoilt' = spoilt /\ last' = Closed(r)
      BY <1>0, <1>3 DEF TypeOK, WholeWrite
    <2>4. /\ file' \in [Versions -> {"absent", "partial", "whole", "foreign"}]
          /\ last' \in [Versions -> Requests \cup {None}] /\ spoilt' \subseteq Versions
          /\ \A v \in Versions : file[v] # "absent" => file'[v] # "absent"
          /\ NoForeignBinary' /\ RegisteredOnDisk' /\ BrokenOnlyIfSpoilt'
      BY <1>0, <2>1, <2>2, <2>3, WriteEnds
    <2>5. TypeOK'
      BY <1>0, <2>1, <2>3, <2>4 DEF TypeOK, Pcs
    <2>6. w \in Versions /\ file[w] # "absent"
      BY <1>0 DEF VerificationInv, TypeOK, Jobs, RequestInv, RequestOK
    <2>7. RequestOK(r)'
      BY <1>0, <1>1, <2>1, <2>3, <2>4, <2>6 DEF RequestOK
    <2>8. RequestInv'
      BY <1>0, <2>1, <2>3, <2>4, <2>7, Bystanders
    <2>9. QED
      BY <1>2, <2>4, <2>5, <2>8 DEF VerificationInv
  <1>4. CASE CutShort(r)
    <2>1. /\ pc' \in [Requests -> Pcs] /\ pc'[r] = "idle"
          /\ answer' \in [Requests -> {"none", "failed", "verified"}]
          /\ answer'[r] = "failed"
          /\ bytes' \in [Requests -> {"none", "good", "bad"}]
          /\ \A q \in Requests : q # r =>
               pc'[q] = pc[q] /\ answer'[q] = answer[q] /\ bytes'[q] = bytes[q]
      BY <1>0, <1>4, FailFact DEF CutShort
    <2>2. PICK f \in {"whole", file[w]} : file' = [file EXCEPT ![w] = f]
      BY <1>1, <1>4 DEF CutShort
    <2>3. /\ spoilt' = IF last[w] = r THEN spoilt \cup {w} ELSE spoilt
          /\ last' = Closed(r)
      BY <1>4 DEF CutShort
    <2>4. /\ file' \in [Versions -> {"absent", "partial", "whole", "foreign"}]
          /\ last' \in [Versions -> Requests \cup {None}] /\ spoilt' \subseteq Versions
          /\ \A v \in Versions : file[v] # "absent" => file'[v] # "absent"
          /\ NoForeignBinary' /\ RegisteredOnDisk' /\ BrokenOnlyIfSpoilt'
      BY <1>0, <2>1, <2>2, <2>3, WriteEnds
    <2>5. TypeOK'
      BY <1>0, <2>1, <2>4 DEF TypeOK, Pcs
    <2>6. RequestOK(r)'
      BY <2>1 DEF RequestOK
    <2>7. RequestInv'
      BY <1>0, <2>1, <2>4, <2>6, Bystanders
    <2>8. QED
      BY <1>2, <2>4, <2>5, <2>7 DEF VerificationInv
  <1>5. QED
    BY <1>3, <1>4 DEF WriteFile

\* The compiler is registered, and is the one the request runs.
LEMMA RegisterStep ==
  ASSUME VerificationInv, NEW r \in Requests, Register(r)
  PROVE  VerificationInv'
  <1> USE DEF diskVars
  <1>0. TypeOK /\ UNCHANGED <<file, last, spoilt, listed, rows, job, bytes, answer>>
    BY DEF VerificationInv, Register
  <1>1. /\ pc[r] = "register" /\ pc' \in [Requests -> Pcs] /\ pc'[r] = "exec"
        /\ \A q \in Requests : q # r => pc'[q] = pc[q]
    BY <1>0, GoesFact DEF Register, Pcs, Busy
  <1>2. job[r].ver \in Versions /\ file[job[r].ver] # "absent" /\ answer[r] = "none"
    BY <1>1 DEF VerificationInv, TypeOK, Jobs, RequestInv, RequestOK
  <1>3. use' \in [Requests -> Versions] /\ \A q \in Requests : q # r => use'[q] = use[q]
    BY <1>0, <1>2 DEF TypeOK, Register
  <1>4. TypeOK'
    BY <1>0, <1>1, <1>2, <1>3 DEF TypeOK, Pcs, Register
  <1>5. StoredMatches' /\ NoForeignBinary'
    BY <1>0 DEF VerificationInv, StoredMatches, NoForeignBinary
  <1>6. RegisteredOnDisk'
    BY <1>0, <1>2 DEF VerificationInv, RegisteredOnDisk, Register
  <1>7. BrokenOnlyIfSpoilt'
    BY <1>0, <1>1, DiskKept DEF VerificationInv
  <1>8. RequestOK(r)'
    BY <1>0, <1>1, <1>2 DEF RequestOK
  <1>9. RequestInv'
    BY <1>0, <1>1, <1>3, <1>8, Bystanders
  <1>10. QED
    BY <1>4, <1>5, <1>6, <1>7, <1>9 DEF VerificationInv

\* The compiler starts, or its file is open for writing.
LEMMA ExecStep ==
  ASSUME VerificationInv, NEW r \in Requests, Exec(r)
  PROVE  VerificationInv'
  <1> USE DEF diskVars, managerVars
  <1>0. TypeOK /\ UNCHANGED <<file, last, spoilt, local, listed, rows>>
    BY DEF VerificationInv, Exec
  <1>1. CASE Fail(r)
    BY <1>1, FailStep DEF Exec
  <1>2. CASE Goes(r, "exec", "compiling") /\ UNCHANGED <<job, use, bytes, answer>>
    <2>1. /\ pc[r] = "exec" /\ pc' \in [Requests -> Pcs] /\ pc'[r] = "compiling"
          /\ \A q \in Requests : q # r => pc'[q] = pc[q]
      BY <1>0, <1>2, GoesFact DEF Pcs, Busy
    <2>2. TypeOK'
      BY <1>0, <1>2, <2>1 DEF TypeOK, Pcs
    <2>3. StoredMatches' /\ NoForeignBinary' /\ RegisteredOnDisk' /\ BrokenOnlyIfSpoilt'
      BY <1>0, <1>2, QuietStep DEF Pcs, Busy
    <2>4. RequestOK(r)'
      BY <1>2, <2>1 DEF VerificationInv, RequestInv, RequestOK
    <2>5. RequestInv'
      BY <1>0, <1>2, <2>1, <2>4, Bystanders
    <2>6. QED
      BY <2>2, <2>3, <2>5 DEF VerificationInv
  <1>3. QED
    BY <1>1, <1>2 DEF Exec

\* The compiler ends: only a match goes on to the table.
LEMMA CompileStep ==
  ASSUME VerificationInv, NEW r \in Requests, Compile(r)
  PROVE  VerificationInv'
  <1> USE DEF diskVars, managerVars
  <1>0. TypeOK /\ UNCHANGED <<file, last, spoilt, local, listed, rows>>
    BY DEF VerificationInv, Compile
  <1>1. CASE Fail(r)
    BY <1>1, FailStep DEF Compile
  <1>2. CASE /\ Goes(r, "compiling", "store") /\ Compare(r)
             /\ UNCHANGED <<job, use, bytes, answer>>
    <2>1. /\ pc[r] = "compiling" /\ pc' \in [Requests -> Pcs] /\ pc'[r] = "store"
          /\ \A q \in Requests : q # r => pc'[q] = pc[q]
      BY <1>0, <1>2, GoesFact DEF Pcs, Busy
    <2>2. TypeOK'
      BY <1>0, <1>2, <2>1 DEF TypeOK, Pcs
    <2>3. StoredMatches' /\ NoForeignBinary' /\ RegisteredOnDisk' /\ BrokenOnlyIfSpoilt'
      BY <1>0, <1>2, QuietStep DEF Pcs, Busy
    <2>4. RequestOK(r)'
      BY <1>2, <2>1 DEF VerificationInv, RequestInv, RequestOK, Compare
    <2>5. RequestInv'
      BY <1>0, <1>2, <2>1, <2>4, Bystanders
    <2>6. QED
      BY <2>2, <2>3, <2>5 DEF VerificationInv
  <1>3. QED
    BY <1>1, <1>2 DEF Compile

\* What is left of the code when arguments are cut off it, followed by them or by
\* nothing, is the code.
LEMMA TrimmedIsPart ==
  ASSUME NEW args \in Args
  PROVE  \E n \in 0 .. Len(OnChain), rest \in {<< >>, args} :
           /\ SubSeq(OnChain, 1, n) \o rest = OnChain
           /\ Trim(OnChain, args) = SubSeq(OnChain, 1, n)
  <1>1. OnChain \in Seq(Pieces) /\ args \in Seq(Pieces)
    BY VerificationAssumption
  <1>2. CASE args # << >> /\ EndsWith(OnChain, args)
    <2> DEFINE n == Len(OnChain) - Len(args)
    <2>1. /\ n \in 0 .. Len(OnChain) /\ n + Len(args) = Len(OnChain)
          /\ SubSeq(OnChain, n + 1, Len(OnChain)) = args
      BY <1>1, <1>2 DEF EndsWith
    <2>2. SubSeq(OnChain, 1, n) \o args = OnChain
      <3>1. /\ 1 \in 1 .. Len(OnChain) + 1 /\ n \in 1 - 1 .. Len(OnChain)
            /\ Len(OnChain) \in n .. Len(OnChain)
        BY <1>1, <2>1
      <3>2. SubSeq(OnChain, 1, n) \o SubSeq(OnChain, n + 1, Len(OnChain))
            = SubSeq(OnChain, 1, Len(OnChain))
        BY <1>1, <3>1, ConcatAdjacentSubSeq
      <3>3. QED
        BY <1>1, <2>1, <3>2, SubSeqFull
    <2>3. Trim(OnChain, args) = SubSeq(OnChain, 1, n)
      BY <1>2 DEF Trim
    <2>4. QED
      BY <2>1, <2>2, <2>3
  <1>3. CASE ~(args # << >> /\ EndsWith(OnChain, args))
    <2>1. Trim(OnChain, args) = OnChain
      BY <1>3 DEF Trim
    <2>2. SubSeq(OnChain, 1, Len(OnChain)) \o << >> = OnChain
      BY <1>1
    <2>3. SubSeq(OnChain, 1, Len(OnChain)) = OnChain /\ Len(OnChain) \in 0 .. Len(OnChain)
      BY <1>1
    <2>4. QED
      BY <2>1, <2>2, <2>3
  <1>4. QED
    BY <1>2, <1>3

\* What the comparison lets through explains the code on the chain.
LEMMA MatchesExplain ==
  ASSUME TypeOK, NEW r \in Requests, Compare(r)
  PROVE  Explains(job[r].src, use[r], job[r].args)
  <1>1. job[r].args \in Args
    BY DEF TypeOK, Jobs
  <1>2. PICK n \in 0 .. Len(OnChain), rest \in {<< >>, job[r].args} :
          /\ SubSeq(OnChain, 1, n) \o rest = OnChain
          /\ Trim(OnChain, job[r].args) = SubSeq(OnChain, 1, n)
    BY <1>1, TrimmedIsPart
  <1>3. SameCode(SubSeq(OnChain, 1, n), Gives[job[r].src][use[r]])
    BY <1>2 DEF Compare
  <1>4. QED
    BY <1>2, <1>3 DEF Explains

\* A row written over whatever was there satisfies StoredMatches if it does itself.
LEMMA UpsertKeepsMatches ==
  ASSUME TypeOK, StoredMatches, NEW at \in Spellings, NEW new \in Rows,
         new.kind = "solc" => Explains(new.src, new.used, new.args),
         rows' = [rows EXCEPT ![at] = Upsert(@, new)]
  PROVE  rows' \in [Spellings -> Rows] /\ StoredMatches'
  <1>1. rows' \in [Spellings -> Rows]
    BY DEF TypeOK, Upsert
  <1>2. ASSUME NEW s \in Spellings, rows'[s].kind = "solc"
        PROVE  Explains(rows'[s].src, rows'[s].used, rows'[s].args)
    BY <1>2 DEF TypeOK, StoredMatches, Upsert
  <1>3. QED
    BY <1>1, <1>2 DEF StoredMatches

\* The row of a match is written, or its error is logged.
LEMMA StoreStep ==
  ASSUME VerificationInv, NEW r \in Requests, Store(r)
  PROVE  VerificationInv'
  <1> USE DEF diskVars, managerVars
  <1> DEFINE new == [kind |-> "solc", src |-> job[r].src, claimed |-> job[r].ver,
                     used |-> use[r], args |-> job[r].args]
  <1>0. TypeOK /\ UNCHANGED <<file, last, spoilt, local, listed, job, use, bytes>>
    BY DEF VerificationInv, Store
  <1>1. /\ pc[r] = "store" /\ pc' \in [Requests -> Pcs] /\ pc'[r] = "idle"
        /\ \A q \in Requests : q # r => pc'[q] = pc[q]
    BY <1>0, GoesFact DEF Store, Pcs, Busy
  <1>2. Compare(r) /\ Explains(job[r].src, use[r], job[r].args)
    BY <1>0, <1>1, MatchesExplain DEF VerificationInv, RequestInv, RequestOK
  <1>3. job[r] \in Jobs /\ use[r] \in Versions
    BY <1>0 DEF TypeOK
  <1>4. new \in Rows /\ job[r].at \in Spellings
    BY <1>3 DEF Jobs, Rows
  <1>5. rows' \in [Spellings -> Rows] /\ StoredMatches'
    <2>1. CASE rows' = [rows EXCEPT ![job[r].at] = Upsert(@, new)]
      BY <1>0, <1>2, <1>4, <2>1, UpsertKeepsMatches DEF VerificationInv
    <2>2. CASE UNCHANGED rows
      BY <1>0, <2>2 DEF VerificationInv, StoredMatches, TypeOK
    <2>3. QED
      BY <2>1, <2>2 DEF Store
  <1>6. /\ answer' \in [Requests -> {"none", "failed", "verified"}]
        /\ \A q \in Requests : q # r => answer'[q] = answer[q]
    BY <1>0 DEF TypeOK, Store
  <1>7. TypeOK'
    BY <1>0, <1>1, <1>5, <1>6 DEF TypeOK, Pcs
  <1>8. NoForeignBinary' /\ RegisteredOnDisk'
    BY <1>0 DEF VerificationInv, NoForeignBinary, RegisteredOnDisk
  <1>9. BrokenOnlyIfSpoilt'
    BY <1>0, <1>1, DiskKept DEF VerificationInv
  <1>10. RequestOK(r)'
    BY <1>0, <1>1, <1>2 DEF RequestOK, Compare
  <1>11. RequestInv'
    BY <1>0, <1>1, <1>6, <1>10, Bystanders
  <1>12. QED
    BY <1>5, <1>7, <1>8, <1>9, <1>11 DEF VerificationInv

\* What is not a request writes the table or the list, and nothing else.
LEMMA OthersStep ==
  ASSUME VerificationInv,
         RefreshRemoteList \/ SetContractABI \/ \E src \in Sources : Import(src)
  PROVE  VerificationInv'
  <1>0. TypeOK /\ StoredMatches /\ UNCHANGED <<file, last, spoilt, local, pc, job, use, bytes, answer>>
    BY DEF VerificationInv, RefreshRemoteList, SetContractABI, Import, diskVars,
           managerVars, requestVars
  <1>1. rows' \in [Spellings -> Rows] /\ StoredMatches'
    <2>1. CASE RefreshRemoteList
      BY <1>0, <2>1 DEF RefreshRemoteList, TypeOK, StoredMatches
    <2>2. CASE SetContractABI
      BY <1>0, <2>2, VerificationAssumption DEF SetContractABI, TypeOK, StoredMatches, Rows
    <2>3. ASSUME NEW src \in Sources, Import(src)
          PROVE  rows' \in [Spellings -> Rows] /\ StoredMatches'
      <3> DEFINE new == [kind |-> "imported", src |-> src, claimed |-> None, used |-> None,
                         args |-> << >>]
      <3>1. new \in Rows /\ new.kind # "solc"
        BY VerificationAssumption DEF Rows
      <3>2. rows' = [rows EXCEPT ![Plain] = Upsert(@, new)]
        BY <2>3 DEF Import
      <3>3. QED
        BY <1>0, <3>1, <3>2, UpsertKeepsMatches, VerificationAssumption
    <2>4. QED
      BY <2>1, <2>2, <2>3
  <1>2. listed' \in BOOLEAN
    BY <1>0 DEF TypeOK, RefreshRemoteList, SetContractABI, Import, managerVars
  <1>3. TypeOK'
    BY <1>0, <1>1, <1>2 DEF TypeOK
  <1>4. /\ NoForeignBinary' /\ RegisteredOnDisk' /\ BrokenOnlyIfSpoilt' /\ RequestInv'
    BY <1>0 DEF VerificationInv, NoForeignBinary, RegisteredOnDisk, BrokenOnlyIfSpoilt,
                Writers, RequestInv, RequestOK, Compare
  <1>5. QED
    BY <1>1, <1>3, <1>4 DEF VerificationInv

\* A restart ends every request, and spoils a file whose last opener was writing it.
LEMMA RestartStep ==
  ASSUME VerificationInv, Restart
  PROVE  VerificationInv'
  <1>0. TypeOK /\ UNCHANGED <<file, rows, job, use>>
    BY DEF VerificationInv, Restart
  <1>1. TypeOK'
    BY <1>0 DEF Restart, TypeOK
  <1>2. StoredMatches' /\ NoForeignBinary' /\ RegisteredOnDisk'
    BY <1>0 DEF VerificationInv, Restart, StoredMatches, NoForeignBinary, RegisteredOnDisk
  <1>3. BrokenOnlyIfSpoilt'
    <2>1. \A v \in Versions : last[v] \in Writers(v) => last[v] # None
      BY VerificationAssumption DEF Writers
    <2>2. QED
      BY <1>0, <2>1 DEF VerificationInv, Restart, BrokenOnlyIfSpoilt
  <1>4. RequestInv'
    BY DEF Restart, RequestInv, RequestOK
  <1>5. QED
    BY <1>1, <1>2, <1>3, <1>4 DEF VerificationInv

\* The directory is as it was found, and no request has come yet.
LEMMA InitInv ==
  ASSUME Init
  PROVE  VerificationInv
  <1>1. TypeOK
    BY VerificationAssumption DEF Init, TypeOK, Rows, NoRow, Jobs
  <1>2. StoredMatches /\ NoForeignBinary /\ RegisteredOnDisk /\ BrokenOnlyIfSpoilt
    BY DEF Init, StoredMatches, NoRow, NoForeignBinary, RegisteredOnDisk, BrokenOnlyIfSpoilt
  <1>3. RequestInv
    BY DEF Init, RequestInv, RequestOK
  <1>4. QED
    BY <1>1, <1>2, <1>3 DEF VerificationInv

\* Whatever the interleaving of requests, imports and restarts, every state satisfies
\* the inductive invariant.
THEOREM Invariance == Spec => []VerificationInv
  <1>1. VerificationInv /\ [Next]_vars => VerificationInv'
    <2> SUFFICES ASSUME VerificationInv, [Next]_vars
                 PROVE  VerificationInv'
        OBVIOUS
    <2>1. CASE RefreshRemoteList \/ SetContractABI \/ \E src \in Sources : Import(src)
      BY <2>1, OthersStep
    <2>2. CASE Restart
      BY <2>2, RestartStep
    <2>3. CASE UNCHANGED vars
      BY <2>3 DEF vars, diskVars, managerVars, requestVars, VerificationInv, TypeOK,
                  StoredMatches, NoForeignBinary, RegisteredOnDisk, BrokenOnlyIfSpoilt,
                  Writers, RequestInv, RequestOK, Compare
    <2>4. ASSUME NEW r \in Requests,
                 \/ Submit(r) \/ GetCode(r) \/ GetCompiler(r) \/ Download(r)
                 \/ OpenFile(r) \/ WriteFile(r) \/ Register(r) \/ Exec(r)
                 \/ Compile(r) \/ Store(r)
          PROVE  VerificationInv'
      BY <2>4, SubmitStep, GetCodeStep, GetCompilerStep, DownloadStep, OpenFileStep,
         WriteFileStep, RegisterStep, ExecStep, CompileStep, StoreStep
    <2>5. QED
      BY <2>1, <2>2, <2>3, <2>4, NextCases
  <1>2. QED
    BY <1>1, InitInv, PTL DEF Spec

\* A row of a local verification holds a source that, followed by the arguments in the
\* row, explains the code on the chain with the compiler that was run, whoever else
\* writes the table.
THEOREM StoredIsMatched == Spec => []StoredMatches
  <1>1. VerificationInv => StoredMatches
    BY DEF VerificationInv
  <1>2. QED
    BY <1>1, Invariance, PTL

\* No bytes without the published hash ever become a compiler.
THEOREM OnlyCheckedBinaries == Spec => []NoForeignBinary
  <1>1. VerificationInv => NoForeignBinary
    BY DEF VerificationInv
  <1>2. QED
    BY <1>1, Invariance, PTL

\* Concurrent downloads of one compiler leave no incomplete file behind, unless a
\* full disk or a crash cut short the write of the one that opened the file last.
THEOREM RacesHeal == Spec => []BrokenOnlyIfSpoilt
  <1>1. VerificationInv => BrokenOnlyIfSpoilt
    BY DEF VerificationInv
  <1>2. QED
    BY <1>1, Invariance, PTL
===========================================================================
