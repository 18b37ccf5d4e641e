-------------------------- MODULE WritePages_proofs --------------------------
(***************************************************************************)
(* Theorems of WritePages, for all sets of files, artifacts, accounts and  *)
(* users and all bounds: files that are read in any order and removed      *)
(* meanwhile never spoil a request, and a list that counts as fresh is the *)
(* server's, although sequences outlive their card and fetches overlap     *)
(* changes; also when an import pulls the tab away from a page.            *)
(***************************************************************************)
EXTENDS WritePages, SequenceTheorems, TLAPS

-----------------------------------------------------------------------------
(* The form *)

LEMMA MainFileIsAField == "mpMainFile" \in Form!Fields /\ "hfContractFile" \in Form!Fields
  BY DEF Form!Fields, Form!Panel, Form!Methods, Form!MultiPartPanel, Form!HardhatPanel

LEMMA NoFilesListed ==
  Form!NoFiles \in [FileNames -> Seq(Contents)] /\ Form!Names(Form!NoFiles) = {}
  <1>1. <<>> \in Seq(Contents)
    BY EmptySeq
  <1>2. QED
    BY <1>1 DEF Form!NoFiles, Form!Names

\* A form that has just been mounted has no files and no main file.
LEMMA FreshForm ==
  ASSUME NEW a,
         form = Form!BlankForm(a), files = Form!NoFiles, batches = {}, mutation = Form!Idle
  PROVE  Form!FormInv
  <1>1. Form!FormShape
    BY DEF Form!FormShape, Form!BlankForm, Form!Idle
  <1>2. form["mpMainFile"] = Form!Blank
    BY MainFileIsAField DEF Form!BlankForm
  <1>3. mutation["multi-part"].state = "idle"
    BY DEF Form!Idle, Form!Methods
  <1>4. QED
    BY <1>1, <1>2, <1>3, NoFilesListed DEF Form!FormInv, Form!FilesType, Form!MultiPartWhole

LEMMA MountStep == ASSUME NEW a, Form!Mounted(a) PROVE Form!FormInv'
  <1>1. form' = Form!BlankForm(a) /\ files' = Form!NoFiles /\ batches' = {} /\ mutation' = Form!Idle
    BY DEF Form!Mounted
  <1>2. Form!FormShape'
    BY <1>1 DEF Form!FormShape, Form!BlankForm, Form!Idle
  <1>3. form'["mpMainFile"] = Form!Blank
    BY <1>1, MainFileIsAField DEF Form!BlankForm
  <1>4. mutation'["multi-part"].state = "idle"
    BY <1>1 DEF Form!Idle, Form!Methods
  <1>5. QED
    BY <1>1, <1>2, <1>3, <1>4, NoFilesListed
    DEF Form!FormInv, Form!FilesType, Form!MultiPartWhole

\* Steps that touch neither the files nor the main file nor the requests.
LEMMA OtherStep ==
  ASSUME Form!FormInv, DOMAIN form' = Form!Fields, form'["mpMainFile"] = form["mpMainFile"],
         UNCHANGED <<files, batches, mutation>>
  PROVE  Form!FormInv'
  BY DEF Form!FormInv, Form!FormShape, Form!FilesType, Form!MultiPartWhole

\* The main file is chosen among the files that are listed.
LEMMA EditStep ==
  ASSUME Form!FormInv, NEW f \in Form!Fields, NEW v \in Form!Options(f), Form!Edit(f, v)
  PROVE  Form!FormInv'
  <1>1. UNCHANGED <<files, batches, mutation>> /\ form' = Form!Filled(f, v)
    BY DEF Form!Edit
  <1>2. DOMAIN form' = Form!Fields
    BY <1>1 DEF Form!Filled, Form!FormInv, Form!FormShape
  <1>3. CASE f = "mpMainFile"
    <2>1. form'["mpMainFile"] = v
      BY <1>1, <1>3, MainFileIsAField DEF Form!Filled, Form!FormInv, Form!FormShape
    <2>2. v \in Form!Names(files) \cup {Form!Blank}
      BY <1>3 DEF Form!Options
    <2>3. QED
      BY <1>1, <1>2, <2>1, <2>2
      DEF Form!FormInv, Form!FormShape, Form!FilesType, Form!MultiPartWhole
  <1>4. CASE f # "mpMainFile"
    <2>1. form'["mpMainFile"] = form["mpMainFile"]
      BY <1>1, <1>4, MainFileIsAField DEF Form!Filled, Form!FormInv, Form!FormShape
    <2>2. QED
      BY <1>1, <1>2, <2>1, OtherStep
  <1>5. QED
    BY <1>3, <1>4

\* What is sent of a name is what is listed under it.
LEMMA SameSent ==
  ASSUME \A n \in Form!Names(files) \cap Form!Names(files') : files'[n] = files[n]
  PROVE  Form!ListedKept
  BY DEF Form!ListedKept, Form!Sent

\* A selection adds the files whose names are not listed when it has been read.
LEMMA FilesReadStep ==
  ASSUME Form!FormInv, NEW b \in batches, Form!FilesRead(b)
  PROVE  Form!FormInv' /\ Form!ListedKept
  <1>1. /\ UNCHANGED <<form, mutation>> /\ batches' = batches \ {b}
        /\ files' = [n \in FileNames |-> files[n] \o Form!NewFiles(b)[n]]
    BY DEF Form!FilesRead
  <1>2. files \in [FileNames -> Seq(Contents)] /\ b \in [FileNames -> Seq(Contents)]
    BY DEF Form!FormInv, Form!FilesType
  <1>3. ASSUME NEW n \in FileNames
        PROVE  /\ files'[n] \in Seq(Contents)
               /\ n \in Form!Names(files) => files'[n] = files[n]
    <2>1. CASE n \in Form!Names(files)
      <3>1. Form!NewFiles(b)[n] = <<>>
        BY <2>1 DEF Form!NewFiles
      <3>2. files[n] \o <<>> = files[n]
        BY <1>2, ConcatEmptySeq
      <3>3. QED
        BY <1>1, <1>2, <3>1, <3>2
    <2>2. CASE n \notin Form!Names(files)
      <3>1. Form!NewFiles(b)[n] = b[n] /\ files[n] = <<>>
        BY <2>2 DEF Form!NewFiles, Form!Names
      <3>2. <<>> \o b[n] = b[n]
        BY <1>2, ConcatEmptySeq
      <3>3. QED
        BY <1>1, <1>2, <2>2, <3>1, <3>2
    <2>3. QED
      BY <2>1, <2>2
  <1>4. Form!FilesType'
    BY <1>1, <1>3 DEF Form!FormInv, Form!FilesType
  <1>5. Form!Names(files) \subseteq Form!Names(files')
    BY <1>3 DEF Form!Names
  <1>6. Form!MultiPartWhole'
    BY <1>1, <1>5 DEF Form!FormInv, Form!MultiPartWhole
  <1>7. Form!ListedKept
    BY <1>3, SameSent DEF Form!Names
  <1>8. QED
    BY <1>1, <1>4, <1>6, <1>7 DEF Form!FormInv, Form!FormShape

\* Removing the main file unsets it.
LEMMA RemoveFileStep ==
  ASSUME Form!FormInv, NEW n \in FileNames, Form!RemoveFile(n)
  PROVE  Form!FormInv' /\ Form!ListedKept
  <1>1. /\ UNCHANGED <<batches, mutation>> /\ files' = [files EXCEPT ![n] = <<>>]
        /\ form' = IF form["mpMainFile"] = n
                      THEN [form EXCEPT !["mpMainFile"] = Form!Blank] ELSE form
    BY DEF Form!RemoveFile
  <1>2. DOMAIN form' = Form!Fields
    BY <1>1 DEF Form!FormInv, Form!FormShape
  <1>3. form'["mpMainFile"] = IF form["mpMainFile"] = n THEN Form!Blank ELSE form["mpMainFile"]
    BY <1>1, MainFileIsAField DEF Form!FormInv, Form!FormShape
  <1>4. Form!FilesType'
    BY <1>1, EmptySeq DEF Form!FormInv, Form!FilesType
  <1>5. \A k \in FileNames : files'[k] = IF k = n THEN <<>> ELSE files[k]
    BY <1>1 DEF Form!FormInv, Form!FilesType
  <1>6. Form!Names(files') = Form!Names(files) \ {n}
    BY <1>5 DEF Form!Names
  <1>7. Form!MultiPartWhole'
    BY <1>1, <1>3, <1>6 DEF Form!FormInv, Form!MultiPartWhole
  <1>8. Form!ListedKept
    BY <1>5, <1>6, SameSent DEF Form!Names
  <1>9. QED
    BY <1>1, <1>2, <1>4, <1>7, <1>8 DEF Form!FormInv, Form!FormShape

\* A request is sent only when its main file is chosen, and carries the files
\* of that moment.
LEMMA SubmitStep ==
  ASSUME Form!FormInv, Form!Submit
  PROVE  Form!FormInv'
  <1>1. UNCHANGED <<form, files, batches>> /\ ~Form!IsSubmitDisabled
    BY DEF Form!Submit
  <1>2. DOMAIN mutation' = Form!Methods
    BY DEF Form!Submit, Form!FormInv, Form!FormShape
  <1>3. \A m \in Form!Methods : m # method => mutation'[m] = mutation[m]
    BY DEF Form!Submit, Form!FormInv, Form!FormShape
  <1>4. \A m \in Form!Methods : m = method =>
          mutation'[m] = IF Form!Unsendable(m) THEN [state |-> "error", request |-> Form!NoRequest]
                         ELSE [state |-> "pending", request |-> Form!Request(m)]
    BY DEF Form!Submit, Form!FormInv, Form!FormShape
  <1>5. Form!FormShape'
    BY <1>1, <1>2, <1>3, <1>4 DEF Form!FormInv, Form!FormShape
  <1>6. CASE method # "multi-part"
    <2>1. mutation'["multi-part"] = mutation["multi-part"]
      BY <1>3, <1>6 DEF Form!Methods
    <2>2. QED
      BY <1>1, <1>5, <2>1 DEF Form!FormInv, Form!FilesType, Form!MultiPartWhole
  <1>7. CASE method = "multi-part"
    <2>1. mutation'["multi-part"] = [state |-> "pending", request |-> Form!Request("multi-part")]
      BY <1>4, <1>7 DEF Form!Methods, Form!Unsendable
    <2>2. /\ "mpMainFile" \in Form!Carried["multi-part"]
          /\ "mpMainFile" \in Form!Required["multi-part"]
      BY DEF Form!Carried, Form!Required, Form!Methods, Form!MultiPartPanel
    <2>3. /\ DOMAIN mutation'["multi-part"].request.files = Form!Names(files)
          /\ mutation'["multi-part"].request.values["mpMainFile"] = form["mpMainFile"]
      BY <2>1, <2>2 DEF Form!Request, Form!Sent
    <2>4. form["mpMainFile"] # Form!Blank
      BY <1>1, <1>7, <2>2 DEF Form!IsSubmitDisabled
    <2>5. QED
      BY <1>1, <1>5, <2>3, <2>4 DEF Form!FormInv, Form!FilesType, Form!MultiPartWhole
  <1>8. QED
    BY <1>6, <1>7

LEMMA AnsweredStep ==
  ASSUME Form!FormInv, NEW m \in Form!Methods, NEW r \in {"verified", "refused", "error"},
         Form!Answered(m, r)
  PROVE  Form!FormInv'
  <1>1. UNCHANGED <<form, files, batches>> /\ mutation[m].state = "pending"
    BY DEF Form!Answered
  <1>2. /\ DOMAIN mutation' = Form!Methods
        /\ \A k \in Form!Methods : k # m => mutation'[k] = mutation[k]
    BY DEF Form!Answered, Form!FormInv, Form!FormShape
  <1>3. mutation'[m] = [state |-> r, request |-> mutation[m].request]
    <2>1. mutation[m] = [state |-> mutation[m].state, request |-> mutation[m].request]
      BY DEF Form!FormInv, Form!FormShape
    <2>2. mutation'[m] = [mutation[m] EXCEPT !.state = r]
      BY DEF Form!Answered, Form!FormInv, Form!FormShape
    <2>3. QED
      BY <2>1, <2>2
  <1>4. Form!FormShape'
    BY <1>1, <1>2, <1>3 DEF Form!FormInv, Form!FormShape
  <1>5. \A k \in Form!Methods :
          /\ mutation'[k].request = mutation[k].request
          /\ mutation[k].state = "idle" => mutation'[k].state = "idle"
    BY <1>1, <1>2, <1>3
  <1>6. "multi-part" \in Form!Methods
    BY DEF Form!Methods
  <1>7. Form!FilesType'
    BY <1>1 DEF Form!FormInv, Form!FilesType
  <1>8. Form!MultiPartWhole'
    BY <1>1, <1>5, <1>6 DEF Form!FormInv, Form!MultiPartWhole
  <1>9. QED
    BY <1>4, <1>7, <1>8 DEF Form!FormInv

-----------------------------------------------------------------------------
LEMMA FormInvStep == Form!FormInv /\ [Form!Next]_(Form!vfVars) => Form!FormInv'
  <1> SUFFICES ASSUME Form!FormInv, [Form!Next]_(Form!vfVars)
               PROVE  Form!FormInv'
    OBVIOUS
  <1> USE DEF Form!vfVars, Form!formVars, Form!local
  <1>1. CASE \E a \in Addresses \cup {Form!Blank} : Form!Open(a)
    BY <1>1, MountStep DEF Form!Open
  <1>2. CASE Form!Leave \/ Form!ViewContract
    BY <1>2, MountStep DEF Form!Leave, Form!ViewContract, Form!Unmount
  <1>3. CASE \/ \E m \in Form!Methods : Form!SetMethod(m)
             \/ \E a \in Artifacts : Form!UploadArtifact(a)
             \/ \E a \in Addresses : Form!SourcifyChecked(a)
             \/ Form!Import \/ \E p \in fetch : Form!ImportFailed(p)
             \/ Form!StopActing \/ Form!Home \/ UNCHANGED Form!vfVars
    <2>1. UNCHANGED <<form, files, batches, mutation>>
      BY <1>3 DEF Form!SetMethod, Form!UploadArtifact, Form!SourcifyChecked, Form!Import,
         Form!ImportFailed,
                  Form!StopActing, Form!Home
    <2>2. QED
      BY <2>1, OtherStep DEF Form!FormInv, Form!FormShape
  <1>4. ASSUME NEW f \in Form!Fields, NEW v \in Form!Options(f), Form!Edit(f, v)
        PROVE  Form!FormInv'
    BY <1>4, EditStep
  <1>5. ASSUME NEW b \in Selections, Form!AddFiles(b)
        PROVE  Form!FormInv'
    BY <1>5, WritePagesAssumption DEF Form!AddFiles, Form!FormInv, Form!FormShape, Form!FilesType,
       Form!MultiPartWhole
  <1>6. CASE \E b \in batches : Form!FilesRead(b)
    BY <1>6, FilesReadStep
  <1>7. CASE \E n \in FileNames : Form!RemoveFile(n)
    BY <1>7, RemoveFileStep
  <1>8. ASSUME NEW a \in hfReads, Form!ArtifactRead(a)
        PROVE  Form!FormInv'
    <2>1. UNCHANGED <<files, batches, mutation>> /\ DOMAIN form' = Form!Fields
      BY <1>8 DEF Form!ArtifactRead
    <2>2. form'["mpMainFile"] = form["mpMainFile"]
      BY <1>8, MainFileIsAField DEF Form!ArtifactRead
    <2>3. QED
      BY <2>1, <2>2, OtherStep
  <1>9. CASE Form!Submit
    BY <1>9, SubmitStep
  <1>10. CASE \E m \in Form!Methods, r \in {"verified", "refused", "error"} : Form!Answered(m, r)
    BY <1>10, AnsweredStep
  <1>11. ASSUME NEW p \in fetch, Form!Imported(p)
         PROVE  Form!FormInv'
    BY <1>11, MountStep DEF Form!Imported
  <1>12. QED
    BY <1>1, <1>2, <1>3, <1>4, <1>5, <1>6, <1>7, <1>8, <1>9, <1>10, <1>11
    DEF Form!Next, Form!FormNext

\* The other steps leave the list alone or take it away with the form.
LEMMA ListedKeptStep ==
  ASSUME Form!FormInv, Form!FormNext
  PROVE  Form!ListedKept
  <1> USE DEF Form!formVars, Form!local
  <1>1. ASSUME NEW a, Form!Mounted(a)
        PROVE  Form!ListedKept
    BY <1>1, NoFilesListed DEF Form!Mounted, Form!ListedKept
  <1>2. ASSUME UNCHANGED files
        PROVE  Form!ListedKept
    BY <1>2, SameSent
  <1>3. CASE \/ \E a \in Addresses \cup {Form!Blank} : Form!Open(a)
             \/ Form!Leave \/ Form!ViewContract \/ \E p \in fetch : Form!Imported(p)
    BY <1>1, <1>3 DEF Form!Open, Form!Leave, Form!ViewContract, Form!Unmount, Form!Imported
  <1>4. CASE \/ \E m \in Form!Methods : Form!SetMethod(m)
             \/ \E f \in Form!Fields : \E v \in Form!Options(f) : Form!Edit(f, v)
             \/ \E b \in Selections : Form!AddFiles(b)
             \/ \E a \in Artifacts : Form!UploadArtifact(a)
             \/ \E a \in hfReads : Form!ArtifactRead(a)
    BY <1>2, <1>4 DEF Form!SetMethod, Form!Edit, Form!AddFiles, Form!UploadArtifact, Form!ArtifactRead
  <1>5. CASE \/ Form!Submit \/ Form!Import \/ Form!StopActing
             \/ \E m \in Form!Methods, r \in {"verified", "refused", "error"} : Form!Answered(m, r)
             \/ \E a \in Addresses : Form!SourcifyChecked(a)
             \/ \E p \in fetch : Form!ImportFailed(p)
    BY <1>2, <1>5 DEF Form!Submit, Form!Import, Form!StopActing, Form!Answered,
       Form!SourcifyChecked, Form!ImportFailed
  <1>6. CASE \/ \E b \in batches : Form!FilesRead(b)
             \/ \E n \in FileNames : Form!RemoveFile(n)
    BY <1>6, FilesReadStep, RemoveFileStep
  <1>7. QED
    BY <1>3, <1>4, <1>5, <1>6 DEF Form!FormNext

-----------------------------------------------------------------------------
(* The linked addresses *)

LEMMA InitListInv == Links!Init => Links!ListInv
  BY DEF Links!Init, Links!ListInv, Links!SequencesShape, Links!FetchedWhenStale,
         Links!AnswerCurrent, Links!FreshCurrent

\* What a step may do to the sequences: it keeps those it does not drop, puts
\* a new one in, or moves one on.
LEMMA KeptSequences ==
  ASSUME Links!ListInv, links' \subseteq links, deletes' \subseteq deletes
  PROVE  Links!SequencesShape'
  BY DEF Links!ListInv, Links!SequencesShape

\* Steps that change neither the list nor the server's addresses, and after
\* which no less is done than before.
LEMMA ListUntouched ==
  ASSUME Links!ListInv, UNCHANGED <<linked, shown, fresh, listing, missed>>,
         Links!SequencesShape', Links!NothingDone' => Links!NothingDone
  PROVE  Links!ListInv'
  BY DEF Links!ListInv, Links!FetchedWhenStale, Links!AnswerCurrent, Links!FreshCurrent

LEMMA SameSequences ==
  ASSUME Links!ListInv, UNCHANGED <<linked, shown, fresh, listing, missed, links, deletes>>
  PROVE  Links!ListInv'
  BY KeptSequences, ListUntouched DEF Links!NothingDone

\* A card that goes takes its claim on the sequences with it, nothing else.
LEMMA DisownStep ==
  ASSUME Links!ListInv, UNCHANGED <<linked, shown, fresh, listing, missed>>,
         links' = Links!Disown(links), deletes' = Links!Disown(deletes)
  PROVE  Links!ListInv'
  <1>1. ASSUME NEW s \in links
        PROVE  /\ DOMAIN [s EXCEPT !.own = FALSE] = DOMAIN s
               /\ [s EXCEPT !.own = FALSE].stage = s.stage
    BY DEF Links!ListInv, Links!SequencesShape
  <1>2. ASSUME NEW d \in deletes
        PROVE  /\ DOMAIN [d EXCEPT !.own = FALSE] = DOMAIN d
               /\ [d EXCEPT !.own = FALSE].done = d.done
    BY DEF Links!ListInv, Links!SequencesShape
  <1>3. Links!SequencesShape'
    BY <1>1, <1>2 DEF Links!Disown, Links!ListInv, Links!SequencesShape
  <1>4. Links!NothingDone' => Links!NothingDone
    BY <1>1, <1>2 DEF Links!Disown, Links!NothingDone
  <1>5. QED
    BY <1>3, <1>4, ListUntouched

-----------------------------------------------------------------------------
(* The list *)

LEMMA OpenStep ==
  ASSUME Links!ListInv, Links!OpenList
  PROVE  Links!ListInv'
  <1>1. /\ UNCHANGED <<linked, shown, fresh, missed, links, deletes>>
        /\ listing' = IF fresh \/ listing # Links!NoList THEN listing ELSE Links!Asked
    BY DEF Links!OpenList, Links!list
  <1>2. Links!SequencesShape' /\ (Links!NothingDone' <=> Links!NothingDone)
    BY <1>1, KeptSequences DEF Links!NothingDone
  <1>3. QED
    BY <1>1, <1>2 DEF Links!ListInv, Links!FetchedWhenStale, Links!AnswerCurrent,
       Links!FreshCurrent

\* The server's answer is its list, whatever was missed before.
LEMMA ServerListsStep ==
  ASSUME Links!ListInv, Links!ServerLists
  PROVE  Links!ListInv'
  <1>1. /\ UNCHANGED <<linked, shown, fresh, links, deletes>>
        /\ listing = Links!Asked /\ listing' = [of |-> user, addresses |-> linked[user]]
    BY DEF Links!ServerLists
  <1>2. Links!SequencesShape'
    BY <1>1, KeptSequences
  <1>3. ~fresh'
    BY <1>1 DEF Links!ListInv, Links!FetchedWhenStale, Links!Asked, Links!NoList, Links!None
  <1>4. QED
    BY <1>1, <1>2, <1>3 DEF Links!ListInv, Links!FetchedWhenStale, Links!AnswerCurrent,
       Links!FreshCurrent

LEMMA ListedStep ==
  ASSUME Links!ListInv, Links!Listed
  PROVE  Links!ListInv'
  <1>1. /\ UNCHANGED <<linked, missed, links, deletes>>
        /\ listing \notin {Links!NoList, Links!Asked} /\ shown' = listing /\ listing' = Links!NoList
    BY DEF Links!Listed
  <1>2. Links!SequencesShape' /\ (Links!NothingDone' <=> Links!NothingDone)
    BY <1>1, KeptSequences DEF Links!NothingDone
  <1>3. QED
    BY <1>1, <1>2 DEF Links!ListInv, Links!FetchedWhenStale, Links!AnswerCurrent,
       Links!FreshCurrent

LEMMA ListFailsStep ==
  ASSUME Links!ListInv, Links!ListFails
  PROVE  Links!ListInv'
  <1>1. /\ UNCHANGED <<linked, shown, fresh, missed, links, deletes>>
        /\ listing' = Links!NoList
    BY DEF Links!ListFails
  <1>2. Links!SequencesShape' /\ (Links!NothingDone' <=> Links!NothingDone)
    BY <1>1, KeptSequences DEF Links!NothingDone
  <1>3. QED
    BY <1>1, <1>2 DEF Links!ListInv, Links!FetchedWhenStale, Links!AnswerCurrent,
       Links!FreshCurrent

LEMMA ExpireStep ==
  ASSUME Links!ListInv, Links!Expire
  PROVE  Links!ListInv'
  <1>1. /\ UNCHANGED <<linked, shown, listing, missed, links, deletes>> /\ ~fresh'
    BY DEF Links!Expire
  <1>2. Links!SequencesShape' /\ (Links!NothingDone' <=> Links!NothingDone)
    BY <1>1, KeptSequences DEF Links!NothingDone
  <1>3. QED
    BY <1>1, <1>2 DEF Links!ListInv, Links!FetchedWhenStale, Links!AnswerCurrent,
       Links!FreshCurrent

\* An invalidation leaves nothing fresh; an answer it cannot replace is missed.
LEMMA InvalidateStep ==
  ASSUME Links!ListInv, Links!Invalidate, links' \subseteq links, deletes' \subseteq deletes
  PROVE  Links!ListInv'
  <1>1. Links!SequencesShape'
    BY KeptSequences
  <1>2. ~fresh'
    BY DEF Links!Invalidate
  <1>3. missed' \/ listing' \in {Links!NoList, Links!Asked}
    BY DEF Links!Invalidate
  <1>4. QED
    BY <1>1, <1>2, <1>3 DEF Links!ListInv, Links!FetchedWhenStale, Links!AnswerCurrent,
       Links!FreshCurrent

\* A sequence that fails after the server has done its part is missed.
LEMMA FailStep ==
  ASSUME Links!ListInv, UNCHANGED <<linked, shown, fresh, listing>>,
         links' \subseteq links, deletes' \subseteq deletes,
         ~missed' => ~missed /\ (Links!NothingDone' => Links!NothingDone)
  PROVE  Links!ListInv'
  <1>1. Links!SequencesShape'
    BY KeptSequences
  <1>2. QED
    BY <1>1 DEF Links!ListInv, Links!FetchedWhenStale, Links!AnswerCurrent, Links!FreshCurrent

-----------------------------------------------------------------------------
(* The sequences *)

LEMMA HandleLinkStep ==
  ASSUME Links!ListInv, Links!HandleLink
  PROVE  Links!ListInv'
  <1>1. /\ UNCHANGED <<linked, shown, fresh, listing, missed, deletes>>
        /\ links' = links \cup {Links!NewLink}
    BY DEF Links!HandleLink, Links!list
  <1>2. Links!SequencesShape'
    BY <1>1 DEF Links!NewLink, Links!ListInv, Links!SequencesShape
  <1>3. Links!NothingDone' => Links!NothingDone
    BY <1>1 DEF Links!NothingDone
  <1>4. QED
    BY <1>1, <1>2, <1>3, ListUntouched

LEMMA HandleUnlinkStep ==
  ASSUME Links!ListInv, NEW a \in Accounts, Links!HandleUnlink(a)
  PROVE  Links!ListInv'
  <1>1. /\ UNCHANGED <<linked, shown, fresh, listing, missed, links>>
        /\ deletes' = deletes \cup {[own |-> TRUE, id |-> Links!NewId(deletes),
                                     address |-> a, done |-> FALSE]}
    BY DEF Links!HandleUnlink, Links!list
  <1>2. Links!SequencesShape'
    BY <1>1 DEF Links!ListInv, Links!SequencesShape
  <1>3. Links!NothingDone' => Links!NothingDone
    BY <1>1 DEF Links!NothingDone
  <1>4. QED
    BY <1>1, <1>2, <1>3, ListUntouched

\* A link sequence moves on: only the server's acceptance changes its addresses.
LEMMA AdvanceStep ==
  ASSUME Links!ListInv, NEW s \in links,
         Links!AccountsGiven(s) \/ Links!ChallengeGiven(s)
         \/ Links!Signed(s) \/ Links!ServerLinks(s)
  PROVE  Links!ListInv'
  <1>1. UNCHANGED <<shown, fresh, listing, missed, deletes>>
    BY DEF Links!AccountsGiven, Links!ChallengeGiven, Links!Signed, Links!ServerLinks,
       Links!Advance, Links!list
  <1>2. DOMAIN s = {"own", "id", "stage", "signer", "user"}
    BY DEF Links!ListInv, Links!SequencesShape
  <1>3. ASSUME NEW t, links' = (links \ {s}) \cup {t}, DOMAIN t = DOMAIN s
        PROVE  Links!SequencesShape'
    BY <1>1, <1>3 DEF Links!ListInv, Links!SequencesShape
  <1>4. ASSUME UNCHANGED linked, s.stage # "done", NEW t, links' = (links \ {s}) \cup {t},
               Links!SequencesShape'
        PROVE  Links!ListInv'
    BY <1>1, <1>4, ListUntouched DEF Links!NothingDone
  <1>5. CASE Links!AccountsGiven(s)
    <2> DEFINE t == [s EXCEPT !.stage = "challenge", !.signer = selected]
    <2>1. /\ UNCHANGED linked /\ s.stage # "done"
          /\ links' = (links \ {s}) \cup {t} /\ DOMAIN t = DOMAIN s /\ t.stage = "challenge"
      BY <1>2, <1>5 DEF Links!AccountsGiven, Links!Advance
    <2>2. QED
      BY <1>3, <1>4, <2>1
  <1>6. CASE Links!ChallengeGiven(s)
    <2> DEFINE t == [s EXCEPT !.stage = "sign", !.user = user]
    <2>1. /\ UNCHANGED linked /\ s.stage # "done"
          /\ links' = (links \ {s}) \cup {t} /\ DOMAIN t = DOMAIN s /\ t.stage = "sign"
      BY <1>2, <1>6 DEF Links!ChallengeGiven, Links!Advance
    <2>2. QED
      BY <1>3, <1>4, <2>1
  <1>7. CASE Links!Signed(s)
    <2> DEFINE t == [s EXCEPT !.stage = "verify"]
    <2>1. /\ UNCHANGED linked /\ s.stage # "done"
          /\ links' = (links \ {s}) \cup {t} /\ DOMAIN t = DOMAIN s
      BY <1>2, <1>7 DEF Links!Signed, Links!Advance
    <2>2. QED
      BY <1>3, <1>4, <2>1
  <1>8. CASE Links!ServerLinks(s)
    <2> DEFINE t == [s EXCEPT !.stage = "done"]
    <2>1. /\ links' = (links \ {s}) \cup {t} /\ DOMAIN t = DOMAIN s /\ t.stage = "done"
      BY <1>2, <1>8 DEF Links!ServerLinks, Links!Advance
    <2>2. Links!SequencesShape' /\ ~Links!NothingDone'
      BY <1>3, <2>1 DEF Links!NothingDone
    <2>3. QED
      BY <1>1, <2>2 DEF Links!ListInv, Links!FetchedWhenStale, Links!AnswerCurrent,
         Links!FreshCurrent
  <1>9. QED
    BY <1>5, <1>6, <1>7, <1>8

LEMMA ServerUnlinksStep ==
  ASSUME Links!ListInv, NEW d \in deletes, Links!ServerUnlinks(d)
  PROVE  Links!ListInv'
  <1> DEFINE e == [d EXCEPT !.done = TRUE]
  <1>1. /\ UNCHANGED <<shown, fresh, listing, missed, links>>
        /\ deletes' = (deletes \ {d}) \cup {e}
    BY DEF Links!ServerUnlinks, Links!list
  <1>2. DOMAIN e = DOMAIN d /\ e.done
    BY DEF Links!ListInv, Links!SequencesShape
  <1>3. Links!SequencesShape' /\ ~Links!NothingDone'
    <2> HIDE DEF e
    <2>1. QED
      BY <1>1, <1>2 DEF Links!ListInv, Links!SequencesShape, Links!NothingDone
  <1>4. QED
    BY <1>1, <1>3 DEF Links!ListInv, Links!FetchedWhenStale, Links!AnswerCurrent,
       Links!FreshCurrent

LEMMA EndStep ==
  ASSUME Links!ListInv,
         \/ \E s \in links : Links!LinkDone(s) \/ Links!LinkFails(s)
         \/ \E d \in deletes : Links!Unlinked(d) \/ Links!UnlinkFails(d)
  PROVE  Links!ListInv'
  <1>1. ASSUME NEW s \in links, Links!LinkDone(s)
        PROVE  Links!ListInv'
    BY <1>1, InvalidateStep DEF Links!LinkDone, Links!Finish
  <1>2. ASSUME NEW s \in links, Links!LinkFails(s)
        PROVE  Links!ListInv'
    <2>1. /\ UNCHANGED <<linked, shown, fresh, listing, deletes>> /\ links' = links \ {s}
          /\ missed' = (missed \/ s.stage = "done")
      BY <1>2 DEF Links!LinkFails, Links!Finish
    <2>2. ~missed' => ~missed /\ (Links!NothingDone' => Links!NothingDone)
      BY <2>1 DEF Links!NothingDone
    <2>3. QED
      BY <2>1, <2>2, FailStep
  <1>3. ASSUME NEW d \in deletes, Links!Unlinked(d)
        PROVE  Links!ListInv'
    BY <1>3, InvalidateStep DEF Links!Unlinked, Links!Settle
  <1>4. ASSUME NEW d \in deletes, Links!UnlinkFails(d)
        PROVE  Links!ListInv'
    <2>1. /\ UNCHANGED <<linked, shown, fresh, listing, links>> /\ deletes' = deletes \ {d}
          /\ missed' = (missed \/ d.done)
      BY <1>4 DEF Links!UnlinkFails, Links!Settle
    <2>2. ~missed' => ~missed /\ (Links!NothingDone' => Links!NothingDone)
      BY <2>1 DEF Links!NothingDone
    <2>3. QED
      BY <2>1, <2>2, FailStep
  <1>5. QED
    BY <1>1, <1>2, <1>3, <1>4

-----------------------------------------------------------------------------
LEMMA ListInvStep == Links!ListInv /\ [Links!Next]_(Links!lwVars) => Links!ListInv'
  <1> SUFFICES ASSUME Links!ListInv, [Links!Next]_(Links!lwVars)
               PROVE  Links!ListInv'
    OBVIOUS
  <1>1. CASE Links!OpenList \/ Links!CloseList
    BY <1>1, OpenStep, DisownStep DEF Links!CloseList, Links!list
  <1>2. CASE Links!ServerLists \/ Links!Listed \/ Links!ListFails \/ Links!Expire
    BY <1>2, ServerListsStep, ListedStep, ListFailsStep, ExpireStep
  <1>3. CASE Links!HandleLink
    BY <1>3, HandleLinkStep
  <1>4. CASE Links!CancelUnlink \/ Links!DismissError \/ UNCHANGED Links!lwVars
    BY <1>4, SameSequences DEF Links!CancelUnlink, Links!DismissError, Links!lwVars, Links!list
  <1>5. CASE \E s \in links : Links!AccountsGiven(s) \/ Links!ChallengeGiven(s)
                              \/ Links!Signed(s) \/ Links!ServerLinks(s)
    BY <1>5, AdvanceStep
  <1>6. CASE \/ \E s \in links : Links!LinkDone(s) \/ Links!LinkFails(s)
             \/ \E d \in deletes : Links!Unlinked(d) \/ Links!UnlinkFails(d)
    BY <1>6, EndStep
  <1>7. CASE \E a \in Accounts : Links!HandleUnlink(a)
    BY <1>7, HandleUnlinkStep
  <1>8. CASE \/ \E a \in Accounts : Links!AskUnlink(a) \/ Links!SwitchSelected(a)
             \/ \E u \in Users : Links!SignInElsewhere(u)
    BY <1>8, SameSequences DEF Links!AskUnlink, Links!SwitchSelected, Links!SignInElsewhere,
       Links!list
  <1>9. CASE \E d \in deletes : Links!ServerUnlinks(d)
    BY <1>9, ServerUnlinksStep
  <1>10. QED
    BY <1>1, <1>2, <1>3, <1>4, <1>5, <1>6, <1>7, <1>8, <1>9 DEF Links!Next

-----------------------------------------------------------------------------
(* The wallet of an address page *)

LEMMA NothingSaid ==
  /\ <<>> \in Seq(Panel!Kinds \cup {"revoke"}) /\ <<>> \in Seq(Panel!Messages) /\ DOMAIN <<>> = {}
  /\ <<"mount">> \in Seq(Panel!Kinds \cup {"revoke"})
  <1>1. <<>> \in Seq(Panel!Kinds \cup {"revoke"}) /\ <<>> \in Seq(Panel!Messages)
    BY EmptySeq
  <1>2. "mount" \in Panel!Kinds \cup {"revoke"}
    BY DEF Panel!Kinds
  <1> HIDE DEF Panel!Kinds
  <1>3. <<"mount">> \in Seq(Panel!Kinds \cup {"revoke"})
    BY <1>2
  <1>4. DOMAIN <<>> = {}
    OBVIOUS
  <1>5. QED
    BY <1>1, <1>3, <1>4

LEMMA InitPanelInv == ASSUME Panel!Init PROVE Panel!PanelInv
  <1>1. /\ asked \in Seq(Panel!Kinds \cup {"revoke"}) /\ inbox \in Seq(Panel!Messages)
        /\ DOMAIN inbox = {}
    BY NothingSaid, Zenon DEF Panel!Init
  <1>2. ~Panel!IsCallPage(page)
    BY DEF Panel!Init, Panel!IsCallPage
  <1>3. QED
    BY <1>1, <1>2 DEF Panel!Init, Panel!PanelInv, Panel!PanelTypeOK, Panel!MessagesCurrent,
       Panel!WalletFollows

\* A page that is not the panel, or that has just been opened or left.
LEMMA FreshPanel ==
  ASSUME asked' \in {<<>>, <<"mount">>}, inbox' = <<>>,
         account' \in Accounts \cup {Panel!None}, manual' = FALSE, wallet' = Panel!None,
         injected' \in BOOLEAN, listens' \in BOOLEAN, failed' \in BOOLEAN,
         ~Panel!IsCallPage(page') \/ ~listens' \/ asked' = <<"mount">>
  PROVE  Panel!PanelInv'
  <1>1. asked' \in Seq(Panel!Kinds \cup {"revoke"}) /\ inbox' \in Seq(Panel!Messages) /\ DOMAIN inbox' = {}
    BY NothingSaid, Zenon
  <1>2. Panel!PanelTypeOK' /\ Panel!MessagesCurrent'
    BY <1>1 DEF Panel!PanelTypeOK, Panel!MessagesCurrent
  <1>3. asked' = <<"mount">> => Panel!ReadUnderWay'
    BY DEF Panel!ReadUnderWay
  <1>4. Panel!WalletFollows'
    BY <1>3 DEF Panel!WalletFollows
  <1>5. QED
    BY <1>2, <1>4 DEF Panel!PanelInv

\* Steps that neither ask nor tell anything, and do not touch what is shown.
LEMMA PanelKept ==
  ASSUME Panel!PanelInv, UNCHANGED <<account, asked, inbox, listens, wallet, manual, failed>>,
         injected' \in {injected, TRUE},
         Panel!IsCallPage(page') => Panel!IsCallPage(page)
  PROVE  Panel!PanelInv'
  BY DEF Panel!PanelInv, Panel!PanelTypeOK, Panel!MessagesCurrent, Panel!WalletFollows,
         Panel!ReadUnderWay, Panel!ChangeUntold

\* What is asked more is answered like the rest.
LEMMA AskStep ==
  ASSUME Panel!PanelInv, NEW r \in Panel!Kinds \cup {"revoke"}, Panel!Ask(r),
         UNCHANGED <<page, injected, account, inbox, listens, failed>>,
         UNCHANGED <<wallet, manual>> \/ manual' = TRUE
           \/ (r = "connect" /\ manual' = FALSE /\ wallet' = Panel!None)
  PROVE  Panel!PanelInv'
  <1>1. /\ asked \in Seq(Panel!Kinds \cup {"revoke"}) /\ asked' = Append(asked, r)
        /\ inbox \in Seq(Panel!Messages) /\ account \in Accounts \cup {Panel!None} /\ manual \in BOOLEAN
    BY DEF Panel!PanelInv, Panel!PanelTypeOK, Panel!Ask
  <1>2. /\ asked' \in Seq(Panel!Kinds \cup {"revoke"})
        /\ \A i \in DOMAIN asked : i \in DOMAIN asked' /\ asked'[i] = asked[i]
        /\ \E i \in DOMAIN asked' : asked'[i] = r
    <2>1. /\ asked' \in Seq(Panel!Kinds \cup {"revoke"}) /\ Len(asked) \in Nat /\ Len(asked') = Len(asked) + 1
          /\ \A i \in 1 .. Len(asked) : asked'[i] = asked[i]
          /\ asked'[Len(asked) + 1] = r
      BY <1>1, AppendProperties, LenProperties
    <2>2. DOMAIN asked = 1 .. Len(asked) /\ DOMAIN asked' = 1 .. Len(asked) + 1
      BY <1>1, <2>1, LenProperties
    <2>3. QED
      BY <2>1, <2>2
  <1>3. Panel!ReadUnderWay => Panel!ReadUnderWay'
    BY <1>2 DEF Panel!ReadUnderWay
  <1>4. r = "connect" => Panel!ReadUnderWay'
    BY <1>2 DEF Panel!ReadUnderWay
  <1>5. Panel!PanelTypeOK'
    BY <1>1, <1>2 DEF Panel!PanelInv, Panel!PanelTypeOK
  <1>6. Panel!MessagesCurrent'
    BY DEF Panel!PanelInv, Panel!MessagesCurrent
  <1>7. Panel!WalletFollows'
    BY <1>3, <1>4 DEF Panel!PanelInv, Panel!WalletFollows, Panel!ChangeUntold
  <1>8. QED
    BY <1>5, <1>6, <1>7 DEF Panel!PanelInv

\* The wallet says something: its account as it is now, or that a read fails, and
\* to a page that listens a change if it is another.
LEMMA TellStep ==
  ASSUME Panel!PanelInv, NEW ms \in Seq(Panel!Messages), Panel!Tell(ms),
         asked' \in Seq(Panel!Kinds \cup {"revoke"}), account' \in Accounts \cup {Panel!None},
         \A j \in 1 .. Len(ms) : \/ ms[j].account = account'
                                \/ /\ ms[j].account = Panel!Failed
                                   /\ ms[j].kind \in {"mount", "connect", "poll"},
         listens => account' = account \/ \E j \in 1 .. Len(ms) : ms[j].kind = "accountsChanged",
         UNCHANGED <<page, injected, listens, wallet, manual, failed>>,
         Panel!ReadUnderWay => Panel!ReadUnderWay'
  PROVE  Panel!PanelInv'
  <1> DEFINE n == Len(inbox)
             k == Len(ms)
  <1>1. inbox \in Seq(Panel!Messages) /\ manual \in BOOLEAN /\ inbox' = inbox \o ms
    BY DEF Panel!PanelInv, Panel!PanelTypeOK, Panel!Tell
  <1>2. /\ inbox' \in Seq(Panel!Messages) /\ n \in Nat /\ k \in Nat
        /\ DOMAIN inbox = 1 .. n /\ DOMAIN inbox' = 1 .. n + k
        /\ \A i \in 1 .. n + k : inbox'[i] = IF i <= n THEN inbox[i] ELSE ms[i - n]
    BY <1>1, ConcatProperties, LenProperties
  <1> HIDE DEF n, k
  <1>3. \A i \in 1 .. n : i \in 1 .. n + k /\ inbox'[i] = inbox[i]
    BY <1>2
  <1>4. \A j \in 1 .. k : n + j \in 1 .. n + k /\ inbox'[n + j] = ms[j]
    BY <1>2
  <1>5. Panel!PanelTypeOK'
    BY <1>1, <1>2 DEF Panel!PanelInv, Panel!PanelTypeOK
  <1>6. (\E j \in 1 .. k : ms[j].kind = "accountsChanged") => Panel!ChangeUntold'
    BY <1>2, <1>4 DEF Panel!ChangeUntold
  <1>7. Panel!MessagesCurrent'
    <2> SUFFICES ASSUME NEW i \in 1 .. n + k, listens,
                        \A j \in 1 .. n + k : j > i => inbox'[j].kind # "accountsChanged"
                 PROVE  \/ inbox'[i].account = account'
                        \/ /\ inbox'[i].account = Panel!Failed
                           /\ inbox'[i].kind \in {"mount", "connect", "poll"}
      BY <1>2 DEF Panel!MessagesCurrent
    <2>1. CASE i <= n
      <3>1. \A j \in 1 .. k : n + j > i
        BY <1>2, <2>1
      <3>2. account' = account
        BY <1>4, <3>1 DEF k
      <3>3. \A j \in 1 .. n : j > i => inbox[j].kind # "accountsChanged"
        BY <1>3
      <3>4. i \in 1 .. n
        BY <1>2, <2>1
      <3>5. \/ inbox[i].account = account
            \/ /\ inbox[i].account = Panel!Failed
               /\ inbox[i].kind \in {"mount", "connect", "poll"}
        BY <1>2, <3>3, <3>4 DEF Panel!PanelInv, Panel!MessagesCurrent
      <3>6. QED
        BY <1>3, <3>2, <3>4, <3>5
    <2>2. CASE ~(i <= n)
      <3>1. i - n \in 1 .. k /\ inbox'[i] = ms[i - n]
        BY <1>2, <2>2
      <3>2. QED
        BY <3>1 DEF k
    <2>3. QED
      BY <2>1, <2>2
  <1>8. Panel!ChangeUntold => Panel!ChangeUntold'
    BY <1>2, <1>3 DEF Panel!ChangeUntold
  <1>9. Panel!WalletFollows'
    BY <1>6, <1>8 DEF Panel!PanelInv, Panel!WalletFollows, k
  <1>10. QED
    BY <1>5, <1>7, <1>9 DEF Panel!PanelInv

LEMMA OneMessage ==
  ASSUME NEW S, NEW m \in S, NEW ms, ms = <<m>>
  PROVE  ms \in Seq(S) /\ Len(ms) = 1 /\ ms[1] = m
  OBVIOUS

LEMMA TwoMessages ==
  ASSUME NEW S, NEW e \in S, NEW w \in S, NEW ms, ms = <<e>> \o <<w>>
  PROVE  ms \in Seq(S) /\ Len(ms) = 2 /\ ms[1] = e /\ ms[2] = w
  OBVIOUS

\* What the wallet reads of a request moves into its answer.
LEMMA WalletAnswersStep ==
  ASSUME Panel!PanelInv, Panel!WalletAnswers
  PROVE  Panel!PanelInv'
  <1> DEFINE r == Head(asked)
             n == Len(asked)
             k == Len(inbox)
  <1>1. /\ asked \in Seq(Panel!Kinds \cup {"revoke"}) /\ asked # <<>> /\ asked' = Tail(asked)
        /\ inbox \in Seq(Panel!Messages) /\ account \in Accounts \cup {Panel!None}
        /\ UNCHANGED <<page, injected, listens, wallet, manual, failed>>
    BY DEF Panel!PanelInv, Panel!PanelTypeOK, Panel!WalletAnswers, Panel!panel
  <1>2. /\ n \in Nat /\ n >= 1 /\ DOMAIN asked = 1 .. n /\ DOMAIN asked' = 1 .. n - 1
        /\ r = asked[1] /\ r \in Panel!Kinds \cup {"revoke"}
        /\ asked' \in Seq(Panel!Kinds \cup {"revoke"})
        /\ \A i \in 1 .. n - 1 : asked'[i] = asked[i + 1]
    BY <1>1, HeadTailProperties, LenProperties, EmptySeq, ElementOfSeq
  <1> HIDE DEF r, n
  <1>3. \/ \E i \in DOMAIN asked' : asked'[i] \in {"mount", "connect"}
        \/ r \in {"mount", "connect"}
        \/ ~\E i \in DOMAIN asked : asked[i] \in {"mount", "connect"}
    <2> SUFFICES ASSUME NEW i \in 1 .. n, asked[i] \in {"mount", "connect"}, i # 1
                 PROVE  \E j \in 1 .. n - 1 : asked'[j] \in {"mount", "connect"}
      BY <1>2
    <2>1. i - 1 \in 1 .. n - 1 /\ asked'[i - 1] = asked[i]
      BY <1>2
    <2>2. QED
      BY <2>1
  <1>4. ASSUME NEW ms \in Seq(Panel!Messages), Panel!Tell(ms), Len(ms) \in Nat,
               r \in {"mount", "connect"} => \E j \in 1 .. Len(ms) : ms[j].kind \in {"mount", "connect"}
        PROVE  Panel!ReadUnderWay => Panel!ReadUnderWay'
    <2> DEFINE l == Len(ms)
    <2>1. /\ k \in Nat /\ l \in Nat /\ DOMAIN inbox = 1 .. k /\ DOMAIN inbox' = 1 .. k + l
          /\ \A i \in 1 .. k + l : inbox'[i] = IF i <= k THEN inbox[i] ELSE ms[i - k]
      BY <1>1, <1>4, ConcatProperties, LenProperties DEF Panel!Tell
    <2> HIDE DEF k, l
    <2>2. \A i \in 1 .. k : i \in 1 .. k + l /\ inbox'[i] = inbox[i]
      BY <2>1
    <2>3. \A j \in 1 .. l : k + j \in 1 .. k + l /\ inbox'[k + j] = ms[j]
      BY <2>1
    <2>4. QED
      BY <1>3, <1>4, <2>1, <2>2, <2>3 DEF Panel!ReadUnderWay, l
  <1>5. ASSUME NEW m \in Panel!Messages, Panel!Tell(<<m>>),
               \/ m.account = account'
               \/ m.account = Panel!Failed /\ m.kind \in {"mount", "connect", "poll"},
               account' = account \/ m.kind = "accountsChanged", account' \in Accounts \cup {Panel!None},
               r \in {"mount", "connect"} => m.kind = r
        PROVE  Panel!PanelInv'
    <2> DEFINE ms == <<m>>
    <2>1. ms \in Seq(Panel!Messages) /\ Len(ms) = 1 /\ ms[1] = m /\ Panel!Tell(ms)
      BY <1>5, OneMessage
    <2> HIDE DEF ms
    <2>2. Panel!ReadUnderWay => Panel!ReadUnderWay'
      BY <1>4, <1>5, <2>1
    <2>3. \A j \in 1 .. Len(ms) : ms[j] = m
      BY <2>1
    <2>4. 1 \in 1 .. Len(ms)
      BY <2>1
    <2>5. QED
      BY <1>1, <1>2, <1>5, <2>1, <2>2, <2>3, <2>4, TellStep
  <1>6. <<>> \in Seq(Panel!Messages) /\ Len(<<>>) = 0 /\ inbox \o <<>> = inbox
    BY <1>1, EmptySeq, ConcatEmptySeq
  <1>7. ASSUME r \in Panel!Kinds, NEW a \in {account, Panel!Failed},
               a = account \/ r \in {"mount", "connect", "poll"},
               Panel!Tell(<<Panel!Answer(r, a)>>), UNCHANGED account
        PROVE  Panel!PanelInv'
    <2>1. Panel!Answer(r, a) \in Panel!Messages
      BY <1>1, <1>7 DEF Panel!Answer, Panel!Messages
    <2>2. QED
      BY <1>1, <1>5, <1>7, <2>1 DEF Panel!Answer
  <1>8. ASSUME r \notin {"mount", "connect"}, UNCHANGED inbox,
               account' \in Accounts \cup {Panel!None}, listens => UNCHANGED account
        PROVE  Panel!PanelInv'
    <2>1. Panel!Tell(<<>>)
      BY <1>6, <1>8 DEF Panel!Tell
    <2>2. Panel!ReadUnderWay => Panel!ReadUnderWay'
      BY <1>4, <1>6, <1>8, <2>1
    <2> DEFINE ms == <<>>
    <2>3. ms \in Seq(Panel!Messages) /\ Len(ms) = 0 /\ Panel!Tell(ms)
      BY <1>6, <2>1
    <2> HIDE DEF ms
    <2>4. 1 .. Len(ms) = {}
      BY <2>3
    <2>5. QED
      BY <1>1, <1>2, <1>8, <2>2, <2>3, <2>4, TellStep
  <1>9. ASSUME r = "revoke", account' = Panel!None, Panel!Tell(<<Panel!Event(Panel!None)>>)
        PROVE  Panel!PanelInv'
    <2>1. Panel!Event(Panel!None) \in Panel!Messages
      BY DEF Panel!Event, Panel!Messages
    <2>2. QED
      BY <1>1, <1>5, <1>9, <2>1 DEF Panel!Event
  <1>10. CASE r \in {"mount", "connect", "poll"} \/ (r \in {"request", "stale"} /\ UNCHANGED account
                                                   /\ Panel!Tell(<<Panel!Answer(r, account)>>))
    BY <1>7, <1>10 DEF Panel!WalletAnswers, Panel!Kinds, r
  <1>11. CASE r = "revoke"
    BY <1>1, <1>6, <1>8, <1>9, <1>11 DEF Panel!WalletAnswers, Panel!Tell, Panel!Change, r
  <1>12. CASE r \in {"request", "stale"} /\ UNCHANGED <<account, inbox>>
    BY <1>1, <1>8, <1>12
  <1>13. QED
    BY <1>2, <1>10, <1>11, <1>12 DEF Panel!WalletAnswers, Panel!Kinds, r

\* The user decides on the wallet's prompt, or switches the account in it.
LEMMA WalletChangeStep ==
  ASSUME Panel!PanelInv, NEW a \in Accounts \cup {Panel!None},
         Panel!PromptAnswered(a) \/ Panel!SwitchAccount(a)
  PROVE  Panel!PanelInv'
  <1> DEFINE e == Panel!Event(a)
             w == Panel!Answer(IF prompt = "live" THEN "request" ELSE "stale", a)
  <1>1. /\ e \in Panel!Messages /\ e.kind = "accountsChanged" /\ e.account = a
        /\ w \in Panel!Messages /\ w.account = a
    BY DEF Panel!Event, Panel!Answer, Panel!Messages, Panel!Kinds
  <1>2. asked \in Seq(Panel!Kinds \cup {"revoke"}) /\ inbox \in Seq(Panel!Messages)
    BY DEF Panel!PanelInv, Panel!PanelTypeOK
  <1>3. account' = a /\ UNCHANGED <<page, asked, injected, listens, wallet, manual, failed>>
    BY DEF Panel!PromptAnswered, Panel!SwitchAccount, Panel!panel
  <1>4. \/ Panel!Tell(<<e>>)
        \/ Panel!Tell(<<>>) /\ (~listens \/ a = account)
        \/ Panel!Tell(<<>> \o <<w>>) /\ (~listens \/ a = account)
        \/ Panel!Tell(<<e>> \o <<w>>)
    BY DEF Panel!PromptAnswered, Panel!SwitchAccount, Panel!Change
  <1> HIDE DEF e, w
  <1>5. <<>> \o <<w>> = <<w>>
    BY <1>1, OneMessage, ConcatEmptySeq
  <1>6. PICK ms : /\ ms \in Seq(Panel!Messages) /\ Panel!Tell(ms)
                  /\ \A j \in 1 .. Len(ms) : ms[j] \in {e, w}
                  /\ ~listens \/ a = account \/ (1 \in 1 .. Len(ms) /\ ms[1] = e)
    <2>1. CASE Panel!Tell(<<e>>)
      <3> DEFINE t == <<e>>
      <3>1. t \in Seq(Panel!Messages) /\ Len(t) = 1 /\ t[1] = e /\ Panel!Tell(t)
        BY <1>1, <2>1, OneMessage
      <3> HIDE DEF t
      <3>2. 1 \in 1 .. Len(t) /\ \A j \in 1 .. Len(t) : t[j] = e
        BY <3>1
      <3>3. QED
        BY <3>1, <3>2
    <2>2. CASE Panel!Tell(<<w>>) /\ (~listens \/ a = account)
      <3> DEFINE t == <<w>>
      <3>1. t \in Seq(Panel!Messages) /\ Len(t) = 1 /\ t[1] = w /\ Panel!Tell(t)
        BY <1>1, <2>2, OneMessage
      <3> HIDE DEF t
      <3>2. \A j \in 1 .. Len(t) : t[j] = w
        BY <3>1
      <3>3. QED
        BY <2>2, <3>1, <3>2
    <2>3. CASE Panel!Tell(<<e>> \o <<w>>)
      <3> DEFINE t == <<e>> \o <<w>>
      <3>1. t \in Seq(Panel!Messages) /\ Len(t) = 2 /\ t[1] = e /\ t[2] = w /\ Panel!Tell(t)
        BY <1>1, <2>3, TwoMessages
      <3> HIDE DEF t
      <3>2. 1 \in 1 .. Len(t) /\ \A j \in 1 .. Len(t) : t[j] \in {e, w}
        BY <3>1
      <3>3. QED
        BY <3>1, <3>2
    <2>4. CASE Panel!Tell(<<>>) /\ (~listens \/ a = account)
      <3> DEFINE t == <<>>
      <3>1. t \in Seq(Panel!Messages) /\ Len(t) = 0 /\ Panel!Tell(t)
        BY <2>4, EmptySeq
      <3> HIDE DEF t
      <3>2. 1 .. Len(t) = {}
        BY <3>1
      <3>3. QED
        BY <2>4, <3>1, <3>2
    <2>5. QED
      BY <1>4, <1>5, <2>1, <2>2, <2>3, <2>4
  <1>7. Panel!ReadUnderWay => Panel!ReadUnderWay'
    <2> DEFINE k == Len(inbox)
               l == Len(ms)
    <2>1. /\ k \in Nat /\ l \in Nat /\ DOMAIN inbox = 1 .. k /\ DOMAIN inbox' = 1 .. k + l
          /\ \A i \in 1 .. k + l : inbox'[i] = IF i <= k THEN inbox[i] ELSE ms[i - k]
      BY <1>2, <1>6, ConcatProperties, LenProperties DEF Panel!Tell
    <2> HIDE DEF k, l
    <2>2. \A i \in 1 .. k : i \in 1 .. k + l /\ inbox'[i] = inbox[i]
      BY <2>1
    <2>3. QED
      BY <1>3, <2>1, <2>2 DEF Panel!ReadUnderWay
  <1>8. QED
    BY <1>1, <1>2, <1>3, <1>6, <1>7, TellStep

\* The page takes the oldest message: the last change, and every answer that no
\* change is behind, tell the account the wallet gives.
LEMMA ReceiveStep ==
  ASSUME Panel!PanelInv, Panel!Receive
  PROVE  Panel!PanelInv'
  <1> DEFINE m == Head(inbox)
             n == Len(inbox)
  <1>1. /\ inbox \in Seq(Panel!Messages) /\ inbox # <<>> /\ inbox' = Tail(inbox)
        /\ asked \in Seq(Panel!Kinds \cup {"revoke"}) /\ account \in Accounts \cup {Panel!None}
        /\ manual \in BOOLEAN /\ failed \in BOOLEAN /\ UNCHANGED <<page, injected, account>>
        /\ injected \in BOOLEAN /\ listens \in BOOLEAN
    BY DEF Panel!PanelInv, Panel!PanelTypeOK, Panel!Receive, Panel!provider
  <1>2. /\ n \in Nat /\ n >= 1 /\ DOMAIN inbox = 1 .. n /\ DOMAIN inbox' = 1 .. n - 1
        /\ m = inbox[1] /\ m \in Panel!Messages /\ inbox' \in Seq(Panel!Messages)
        /\ \A i \in 1 .. n - 1 : inbox'[i] = inbox[i + 1]
    BY <1>1, HeadTailProperties, LenProperties, EmptySeq, ElementOfSeq
  <1> HIDE DEF n
  <1>3. /\ UNCHANGED <<manual, listens>>
        /\ asked' = asked \/ asked' = Append(asked, "request")
        /\ \/ /\ m.account = Panel!Failed
              /\ UNCHANGED <<wallet, asked>> /\ failed' = (failed \/ m.kind # "poll")
           \/ /\ m.account # Panel!Failed /\ m.kind # "stale" /\ failed' = FALSE
              /\ \/ UNCHANGED wallet /\ (manual \/ m.account = Panel!None)
                 \/ wallet' = m.account
              /\ m.kind = "accountsChanged" => manual \/ wallet' = m.account
           \/ m.kind = "stale" /\ UNCHANGED <<wallet, asked, failed>>
    BY DEF Panel!Receive, Panel!ReadFails, Panel!HandleAccountsChanged, Panel!MountRead,
       Panel!PollRead, Panel!ConnectRead, Panel!RequestAnswered, Panel!SetWallet,
       Panel!FallThroughToPending, Panel!function, Panel!panel, Panel!Ask
  <1> HIDE DEF m
  <1>4. asked' \in Seq(Panel!Kinds \cup {"revoke"})
    <2>1. "request" \in Panel!Kinds
      BY DEF Panel!Kinds
    <2>2. QED
      BY <1>1, <1>3, <2>1, AppendProperties
  <1>5. Panel!PanelTypeOK'
    BY <1>1, <1>2, <1>3, <1>4 DEF Panel!PanelTypeOK
  <1>6. ASSUME NEW i \in 1 .. n, i # 1
        PROVE  i - 1 \in 1 .. n - 1 /\ inbox'[i - 1] = inbox[i]
    BY <1>2, <1>6
  <1>7. Panel!MessagesCurrent'
    <2> SUFFICES ASSUME NEW i \in 1 .. n - 1, listens,
                        \A j \in 1 .. n - 1 : j > i => inbox'[j].kind # "accountsChanged"
                 PROVE  \/ inbox'[i].account = account'
                        \/ /\ inbox'[i].account = Panel!Failed
                           /\ inbox'[i].kind \in {"mount", "connect", "poll"}
      BY <1>2, <1>3 DEF Panel!MessagesCurrent
    <2>1. ASSUME NEW j \in 1 .. n, j > i + 1
          PROVE  inbox[j].kind # "accountsChanged"
      <3>1. j # 1 /\ j - 1 > i
        BY <1>2, <2>1
      <3>2. QED
        BY <1>6, <3>1
    <2>2. i + 1 \in 1 .. n /\ inbox'[i] = inbox[i + 1]
      BY <1>2
    <2>3. QED
      BY <1>1, <1>2, <2>1, <2>2 DEF Panel!PanelInv, Panel!MessagesCurrent
  <1>8. Panel!WalletFollows'
    <2> SUFFICES ASSUME Panel!IsCallPage(page'), listens', ~manual', ~Panel!ChangeUntold'
                 PROVE  \/ wallet' = account'
                        \/ wallet' = Panel!None /\ (Panel!ReadUnderWay' \/ failed')
      BY DEF Panel!WalletFollows
    <2>1. \A j \in 1 .. n : j # 1 => inbox[j].kind # "accountsChanged"
      BY <1>2, <1>6 DEF Panel!ChangeUntold
    <2>2. \/ m.account = account
          \/ m.account = Panel!Failed /\ m.kind \in {"mount", "connect", "poll"}
      <3>1. 1 \in DOMAIN inbox /\ \A j \in DOMAIN inbox : j > 1 => j # 1
        BY <1>2
      <3>2. QED
        BY <1>2, <1>3, <2>1, <3>1 DEF Panel!PanelInv, Panel!MessagesCurrent
    <2>3. account # Panel!Failed
      BY <1>1, WritePagesAssumption DEF Panel!Failed, Panel!None
    <2>4. m.kind # "accountsChanged" =>
            \/ wallet = account
            \/ wallet = Panel!None /\ (Panel!ReadUnderWay \/ failed)
      <3>1. m.kind # "accountsChanged" => ~Panel!ChangeUntold
        BY <1>2, <2>1 DEF Panel!ChangeUntold
      <3>2. QED
        BY <1>1, <1>3, <3>1 DEF Panel!PanelInv, Panel!WalletFollows
    <2>5. m.kind \notin {"mount", "connect"} => (Panel!ReadUnderWay => Panel!ReadUnderWay')
      <3>1. \A i \in DOMAIN asked : i \in DOMAIN asked' /\ asked'[i] = asked[i]
        <4>1. "request" \in Panel!Kinds
          BY DEF Panel!Kinds
        <4>2. QED
          BY <1>1, <1>3, <4>1, AppendProperties, LenProperties
      <3>2. QED
        BY <1>2, <1>6, <3>1 DEF Panel!ReadUnderWay
    <2>6. CASE m.kind = "accountsChanged"
      BY <1>1, <1>3, <2>2, <2>3, <2>6
    <2>7. CASE m.kind = "stale" \/ m.account = Panel!Failed
      BY <1>1, <1>3, <2>2, <2>3, <2>4, <2>5, <2>7
    <2>8. CASE m.kind \notin {"accountsChanged", "stale"} /\ m.account # Panel!Failed
      BY <1>1, <1>3, <2>2, <2>4, <2>8
    <2>9. QED
      BY <2>6, <2>7, <2>8
  <1>9. QED
    BY <1>5, <1>7, <1>8 DEF Panel!PanelInv

\* The timer only forgets whose answer it is.
LEMMA RequestTimeoutStep ==
  ASSUME Panel!PanelInv, Panel!RequestTimeout
  PROVE  Panel!PanelInv'
  <1>1. /\ inbox \in Seq(Panel!Messages) /\ asked \in Seq(Panel!Kinds \cup {"revoke"})
        /\ UNCHANGED <<page, injected, account, listens, wallet, manual, failed>>
        /\ asked' = [i \in DOMAIN asked |-> IF asked[i] = "request" THEN "stale" ELSE asked[i]]
        /\ inbox' = [i \in DOMAIN inbox |->
                       IF inbox[i].kind = "request" THEN Panel!Answer("stale", inbox[i].account)
                                                    ELSE inbox[i]]
    BY DEF Panel!PanelInv, Panel!PanelTypeOK, Panel!RequestTimeout, Panel!FallThroughToPending
  <1>2. /\ DOMAIN asked' = DOMAIN asked
        /\ \A i \in DOMAIN asked : asked'[i] = asked[i] \/ (asked[i] = "request" /\ asked'[i] = "stale")
    BY <1>1
  <1>3. /\ DOMAIN inbox' = DOMAIN inbox
        /\ \A i \in DOMAIN inbox :
             \/ inbox'[i] = inbox[i]
             \/ /\ inbox[i].kind = "request"
                /\ inbox'[i] = Panel!Answer("stale", inbox[i].account)
    BY <1>1
  <1>4. asked' \in Seq(Panel!Kinds \cup {"revoke"})
    <2>1. DOMAIN asked = 1 .. Len(asked) /\ Len(asked) \in Nat
      BY <1>1, LenProperties
    <2>2. \A i \in DOMAIN asked : asked[i] \in Panel!Kinds \cup {"revoke"}
      BY <1>1, <2>1, ElementOfSeq
    <2>3. "stale" \in Panel!Kinds
      BY DEF Panel!Kinds
    <2>4. asked' \in [1 .. Len(asked) -> Panel!Kinds \cup {"revoke"}]
      BY <1>1, <2>1, <2>2, <2>3
    <2>5. QED
      BY <2>1, <2>4, SeqDef
  <1>5. \A i \in DOMAIN inbox : inbox'[i] \in Panel!Messages /\ inbox'[i].account = inbox[i].account
                               /\ (inbox'[i].kind = inbox[i].kind
                                   \/ (inbox[i].kind = "request" /\ inbox'[i].kind = "stale"))
    <2>1. \A i \in DOMAIN inbox : inbox[i] \in Panel!Messages
      BY <1>1, LenProperties, ElementOfSeq
    <2>2. \A a \in Accounts \cup {Panel!None, Panel!Failed} :
            /\ Panel!Answer("stale", a) \in Panel!Messages
            /\ Panel!Answer("stale", a).account = a /\ Panel!Answer("stale", a).kind = "stale"
      BY DEF Panel!Answer, Panel!Messages, Panel!Kinds
    <2>3. \A i \in DOMAIN inbox : inbox[i].account \in Accounts \cup {Panel!None, Panel!Failed}
      BY <2>1 DEF Panel!Messages
    <2>4. QED
      BY <1>3, <2>1, <2>2, <2>3
  <1>6. inbox' \in Seq(Panel!Messages)
    <2>1. DOMAIN inbox = 1 .. Len(inbox) /\ Len(inbox) \in Nat
      BY <1>1, LenProperties
    <2>2. inbox' = [i \in DOMAIN inbox |-> inbox'[i]]
      BY <1>1
    <2>3. inbox' \in [1 .. Len(inbox) -> Panel!Messages]
      BY <1>5, <2>1, <2>2
    <2>4. QED
      BY <2>1, <2>3, SeqDef
  <1>7. Panel!ReadUnderWay => Panel!ReadUnderWay'
    BY <1>2, <1>3, <1>5 DEF Panel!ReadUnderWay
  <1>8. Panel!ChangeUntold => Panel!ChangeUntold'
    BY <1>3, <1>5 DEF Panel!ChangeUntold
  <1>9. Panel!MessagesCurrent'
    BY <1>1, <1>3, <1>5 DEF Panel!PanelInv, Panel!MessagesCurrent
  <1>10. QED
    BY <1>1, <1>4, <1>6, <1>7, <1>8, <1>9 DEF Panel!PanelInv, Panel!PanelTypeOK, Panel!WalletFollows

LEMMA PanelStepKept == ASSUME Panel!PanelInv, PanelStep PROVE Panel!PanelInv'
  <1> USE DEF Panel!Input, Panel!Move, Panel!provider, Panel!panel, Panel!function
  <1>1. CASE \E k \in {"read", "write"} : Panel!OpenPanel(k)
    <2>1. /\ injected' \in BOOLEAN /\ listens' = injected'
          /\ asked' = IF injected' THEN <<"mount">> ELSE <<>>
          /\ UNCHANGED account /\ Panel!Unmounted
      BY <1>1 DEF Panel!OpenPanel, Panel!PanelInv, Panel!PanelTypeOK
    <2>2. QED
      BY <2>1, FreshPanel DEF Panel!Unmounted, Panel!PanelInv, Panel!PanelTypeOK
  <1>2. CASE \E k \in {"read", "write"} : Panel!SwitchTab(k)
    BY <1>2, PanelKept DEF Panel!SwitchTab
  <1>3. CASE Panel!LeavePanel
    <2>1. ~Panel!IsCallPage(page') /\ account' \in {account, Panel!None}
      BY <1>3 DEF Panel!LeavePanel, Panel!IsCallPage
    <2>2. QED
      BY <1>3, <2>1, FreshPanel DEF Panel!LeavePanel, Panel!Unmounted, Panel!PanelInv, Panel!PanelTypeOK
  <1>4. CASE Panel!Inject \/ Panel!WalletAnswers
    BY <1>4, PanelKept, WalletAnswersStep DEF Panel!Inject
  <1>5. CASE \E a \in Accounts \cup {Panel!None} : Panel!PromptAnswered(a) \/ Panel!SwitchAccount(a)
    BY <1>5, WalletChangeStep
  <1>6. CASE Panel!Receive
    BY <1>6, ReceiveStep
  <1>7. CASE Panel!RequestTimeout
    BY <1>7, RequestTimeoutStep
  <1>8. CASE Panel!PollTick
    BY <1>8, AskStep DEF Panel!PollTick, Panel!Kinds
  <1>9. CASE Panel!ConnectWallet
    BY <1>9, AskStep DEF Panel!ConnectWallet, Panel!Kinds
  <1>10. CASE Panel!DisconnectWallet
    BY <1>10, AskStep DEF Panel!DisconnectWallet
  <1>11. CASE \/ Panel!CancelConnect \/ \E v \in Inputs : Panel!Type(v)
              \/ Panel!SubmitCall \/ Panel!CallReturns \/ Panel!CallFails
              \/ Panel!CallSent \/ Panel!CallMined \/ Panel!StopActing
    BY <1>11, PanelKept DEF Panel!CancelConnect, Panel!Type, Panel!SubmitCall, Panel!CallReturns,
       Panel!CallFails, Panel!CallSent, Panel!CallMined, Panel!StopActing
  <1>12. QED
    BY <1>1, <1>2, <1>3, <1>4, <1>5, <1>6, <1>7, <1>8, <1>9, <1>10, <1>11 DEF PanelStep, Panel!Next

-----------------------------------------------------------------------------
(* The composition: a page is left alone by the steps of the others *)

LEMMA FormKept == ASSUME Form!FormInv, UNCHANGED formVars PROVE Form!FormInv'
  BY OtherStep DEF formVars, Form!FormInv, Form!FormShape

LEMMA LinksKept == ASSUME Links!ListInv, UNCHANGED linkVars PROVE Links!ListInv'
  BY SameSequences DEF linkVars

\* Neither the form nor the list leads to the page of the panel.
LEMMA FormPages ==
  ASSUME Form!FormNext PROVE page' = page \/ page'[1] \in {"verify", "home", "address"}
  <1>1. \A a \in Addresses \cup {Form!Blank} : Form!Open(a) => page'[1] = "verify"
    BY DEF Form!Open
  <1>2. Form!Leave => page'[1] = "home"
    BY DEF Form!Leave, Form!Unmount
  <1>3. Form!ViewContract => page'[1] = "address"
    BY DEF Form!ViewContract, Form!Unmount
  <1>4. \A p \in fetch : Form!Imported(p) => page'[1] = "address"
    BY DEF Form!Imported
  <1>5. \/ \E m \in Form!Methods : Form!SetMethod(m)
        \/ \E f \in Form!Fields : \E v \in Form!Options(f) : Form!Edit(f, v)
        \/ \E c \in Selections : Form!AddFiles(c)
        \/ \E c \in batches : Form!FilesRead(c)
        \/ \E n \in FileNames : Form!RemoveFile(n)
        => page' = page
    BY DEF Form!SetMethod, Form!Edit, Form!AddFiles, Form!FilesRead, Form!RemoveFile, Form!local
  <1>6. \/ \E a \in Artifacts : Form!UploadArtifact(a)
        \/ \E a \in hfReads : Form!ArtifactRead(a)
        \/ Form!Submit \/ Form!Import \/ Form!StopActing
        \/ \E m \in Form!Methods, r \in {"verified", "refused", "error"} : Form!Answered(m, r)
        => page' = page
    BY DEF Form!UploadArtifact, Form!ArtifactRead, Form!Submit, Form!Import, Form!StopActing,
       Form!Answered, Form!local
  <1>7. \/ \E a \in Addresses : Form!SourcifyChecked(a)
        \/ \E p \in fetch : Form!ImportFailed(p)
        => page' = page
    BY DEF Form!SourcifyChecked, Form!ImportFailed
  <1>8. QED
    BY <1>1, <1>2, <1>3, <1>4, <1>5, <1>6, <1>7 DEF Form!FormNext

LEMMA LinksPages ==
  ASSUME Links!Next PROVE page' = page \/ page'[1] \in {"dashboard", "home"}
  <1>1. Links!OpenList => page'[1] = "dashboard"
    BY DEF Links!OpenList
  <1>2. Links!CloseList => page'[1] = "home"
    BY DEF Links!CloseList
  <1>3. \/ Links!ServerLists \/ Links!Listed \/ Links!ListFails \/ Links!Expire
        \/ Links!HandleLink \/ Links!CancelUnlink \/ Links!DismissError
        \/ \E u \in Users : Links!SignInElsewhere(u)
        => page' = page
    BY DEF Links!ServerLists, Links!Listed, Links!ListFails, Links!Expire, Links!HandleLink,
       Links!CancelUnlink, Links!DismissError, Links!SignInElsewhere, Links!world
  <1>4. ASSUME NEW s \in links,
               \/ Links!AccountsGiven(s) \/ Links!ChallengeGiven(s) \/ Links!Signed(s)
               \/ Links!ServerLinks(s) \/ Links!LinkDone(s) \/ Links!LinkFails(s)
        PROVE  page' = page
    BY <1>4 DEF Links!AccountsGiven, Links!ChallengeGiven, Links!Signed, Links!ServerLinks,
       Links!LinkDone, Links!LinkFails, Links!Advance, Links!Finish, Links!world
  <1>5. ASSUME NEW a \in Accounts, Links!AskUnlink(a) \/ Links!HandleUnlink(a) \/ Links!SwitchSelected(a)
        PROVE  page' = page
    BY <1>5 DEF Links!AskUnlink, Links!HandleUnlink, Links!SwitchSelected, Links!world
  <1>6. ASSUME NEW d \in deletes, Links!ServerUnlinks(d) \/ Links!Unlinked(d) \/ Links!UnlinkFails(d)
        PROVE  page' = page
    BY <1>6 DEF Links!ServerUnlinks, Links!Unlinked, Links!UnlinkFails, Links!Settle, Links!world
  <1>7. QED
    BY <1>1, <1>2, <1>3, <1>4, <1>5, <1>6 DEF Links!Next

\* An import that ends under another page mounts a blank form, and takes that page away.
LEMMA PulledAwayStep ==
  ASSUME WriteInv, NEW p \in fetch, PulledAway(p)
  PROVE  WriteInv'
  <1>1. Form!FormInv'
    BY MountStep DEF PulledAway, Form!Imported
  <1>2. Links!ListInv'
    BY LinksKept, DisownStep DEF PulledAway, UnmountPanel, UnmountLinks, linkVars, WriteInv
  <1>3. Panel!PanelInv'
    <2>1. ~Panel!IsCallPage(page')
      BY DEF PulledAway, Form!Imported, Panel!IsCallPage
    <2>2. CASE page[1] = "call"
      BY <2>1, <2>2, FreshPanel DEF PulledAway, UnmountPanel, Panel!Unmounted, WriteInv,
         Panel!PanelInv, Panel!PanelTypeOK
    <2>3. CASE page[1] # "call"
      BY <2>1, <2>3, PanelKept DEF PulledAway, panelVars, WriteInv
    <2>4. QED
      BY <2>2, <2>3
  <1>4. QED
    BY <1>1, <1>2, <1>3 DEF WriteInv

LEMMA WriteInvStep == WriteInv /\ [Next]_vars => WriteInv'
  <1> SUFFICES ASSUME WriteInv, [Next]_vars
               PROVE  WriteInv'
    OBVIOUS
  <1>1. CASE FormStep
    <2>1. page' = page \/ ~Panel!IsCallPage(page')
      BY <1>1, FormPages DEF FormStep, Panel!IsCallPage
    <2>2. Panel!PanelInv'
      BY <1>1, <2>1, PanelKept DEF FormStep, panelVars, WriteInv
    <2>3. QED
      BY <1>1, <2>2, FormInvStep, LinksKept DEF FormStep, WriteInv, Form!Next
  <1>2. CASE PanelStep
    <2>1. UNCHANGED <<formVars, linkVars>>
      BY <1>2 DEF PanelStep
    <2>2. QED
      BY <1>2, <2>1, FormKept, LinksKept, PanelStepKept DEF WriteInv
  <1>3. CASE LinksStep
    <2>1. page' = page \/ ~Panel!IsCallPage(page')
      BY <1>3, LinksPages DEF LinksStep, Panel!IsCallPage
    <2>2. Panel!PanelInv'
      BY <1>3, <2>1, PanelKept DEF LinksStep, panelVars, WriteInv
    <2>3. QED
      BY <1>3, <2>2, ListInvStep, FormKept DEF LinksStep, WriteInv
  <1>4. CASE \E p \in fetch : PulledAway(p)
    BY <1>4, PulledAwayStep
  <1>5. CASE Home
    <2>1. UNCHANGED <<formVars, linkVars, panelVars>> /\ ~Panel!IsCallPage(page')
      BY <1>5 DEF Home, Form!Home, formVars, Form!formVars, Panel!IsCallPage
    <2>2. QED
      BY <2>1, FormKept, LinksKept, PanelKept DEF WriteInv, panelVars
  <1>6. CASE UNCHANGED vars
    BY <1>6, FormKept, LinksKept, PanelKept DEF WriteInv, vars, panelVars
  <1>7. QED
    BY <1>1, <1>2, <1>3, <1>4, <1>5, <1>6 DEF Next

-----------------------------------------------------------------------------
(* The theorems *)

\* ContractVerification.tsx, useLinkedAddresses.ts, LinkedAddresses.tsx: in every
\* reachable state the main file of the form and of its requests is one of its files,
\* and the answer under way and the fresh list are current unless a change of
\* the server's addresses is still untold, or was missed.
THEOREM Invariance == Spec => []WriteInv
  <1>1. Init => WriteInv
    BY FreshForm, InitListInv, InitPanelInv DEF Init, Form!Init, WriteInv
  <1>2. WriteInv /\ [Next]_vars => WriteInv'
    BY WriteInvStep
  <1>3. QED
    BY <1>1, <1>2, PTL DEF Spec

\* Whatever is selected, dropped and removed while files are being read, the main
\* file of the form is one of those listed, and that of a request one of those sent.
THEOREM RequestsAreWhole == Spec => []MultiPartWhole
  <1>1. WriteInv => MultiPartWhole
    BY DEF WriteInv, Form!FormInv, MultiPartWhole
  <1>2. QED
    BY <1>1, Invariance, PTL

\* A file that stays in the list is sent with the content it had: whatever is
\* selected meanwhile, and in whatever order the selections have been read.
THEOREM ListedFilesStay == Spec => ListedFilesKeep
  <1>1. WriteInv /\ [Next]_vars => [Form!ListedKept]_vars
    <2> SUFFICES ASSUME WriteInv, Next
                 PROVE  Form!ListedKept
      OBVIOUS
    <2>1. CASE Form!FormNext
      BY <2>1, ListedKeptStep DEF WriteInv
    <2>2. CASE UNCHANGED files
      BY <2>2, SameSent
    <2>3. Form!FormNext \/ UNCHANGED files
      BY DEF Next, FormStep, PanelStep, LinksStep, Home, PulledAway, Form!Home, Form!FormNext,
         formVars, Form!formVars
    <2>4. QED
      BY <2>1, <2>2, <2>3
  <1>2. QED
    BY <1>1, Invariance, PTL DEF Spec, ListedFilesKeep

\* A list that is shown as fetched, with no change of it and no fetch under way
\* and none missed, is the server's list of the user it was fetched for.
THEOREM ShownIsTheServers == Spec => []ListCurrent
  <1>1. WriteInv => ListCurrent
    BY DEF WriteInv, Links!ListInv, Links!FreshCurrent, Links!NothingDone, ListCurrent,
           Links!ListCurrent, Links!CardShown
  <1>2. QED
    BY <1>1, Invariance, PTL

\* Address.tsx:168-254.  Whatever the order in which the wallet's events, the reads of
\* a mount, of connecting and of a poll, their failures, and the requests given up
\* after half a second arrive, an address page that listens, with nothing under way
\* to or from the wallet, shows the account the wallet gives the site, unless its user
\* has disconnected; or none, after a read of a mount or a connection that failed.
THEOREM AccountIsTheWallets == Spec => []AccountShownIsSelected
  <1>1. WriteInv => AccountShownIsSelected
    <2> SUFFICES ASSUME Panel!PanelInv, Panel!IsCallPage(page), listens, Panel!Quiet, ~manual
                 PROVE  wallet = account \/ (wallet = Panel!None /\ failed)
      BY DEF WriteInv, AccountShownIsSelected, Panel!AccountShownIsSelected
    <2>1. DOMAIN asked = {} /\ DOMAIN inbox = {}
      BY NothingSaid, Zenon DEF Panel!Quiet
    <2>2. QED
      BY <2>1 DEF Panel!PanelInv, Panel!WalletFollows, Panel!ChangeUntold, Panel!ReadUnderWay
  <1>2. QED
    BY <1>1, Invariance, PTL

=============================================================================
