----------------------------- MODULE VerifyForm -----------------------------
(***************************************************************************)
(* The contract verification form (pages/ContractVerification.tsx): four   *)
(* methods in tabs over one set of fields, some of them shared, files that *)
(* are read asynchronously, one mutation per method, and the import from   *)
(* Sourcify.  A value is abstracted to the choices the code tells apart:   *)
(* blank (which also stands for a default that is not sent) or not.        *)
(***************************************************************************)
EXTENDS Naturals, FiniteSets, Sequences

CONSTANTS Addresses,      \* well-formed addresses; any may be on Sourcify
          FileNames,      \* names of .sol files
          Contents,       \* contents of a .sol file
          Compilers,      \* the versions of /verify/compilers, newest first
          StartsWith,     \* the pairs <<v, w>> such that the version v starts with w
          Artifacts,      \* build artifacts: [valid, version, contracts]
          Selections,     \* bound: what the user may select or drop at once, as `files' below
          MaxReads,       \* bound: selections being read at one time
          Edited,         \* bound: the fields the instance lets the user change
          MaxMoves        \* bound: inputs of the user

Methods == {"source", "multi-part", "standard-json", "hardhat-foundry"}
Blank == ""
NoArtifact == [valid |-> FALSE, version |-> Blank, contracts |-> <<>>]
NoRequest == [values |-> <<>>, files |-> <<>>, artifact |-> NoArtifact]

VARIABLES page,      \* the route, <<"verify">> while the form is mounted
          acting,    \* useImpersonation().isActive
          moves,     \* inputs of the user (for the bound)
          method,    \* the tab
          form,      \* the text fields, selects and checkboxes
          files,     \* multiPartFiles: by name, the contents listed under it, in their order
          batches,   \* selections still being read (alike ones are one)
          artifact,  \* hfArtifact
          hfFile,    \* the artifact whose name hfFileName shows
          hfReads,   \* artifacts being read
          mutation,  \* the mutation of each method and what it sent
          checked,   \* addresses whose Sourcify status is in the query cache
          fetch      \* the Sourcify imports in flight: <<address, form still mounted>>

formVars == <<method, form, files, batches, artifact, hfFile, hfReads, mutation, checked, fetch>>
vfVars == <<page, acting, moves, formVars>>
local == <<page, acting, checked, fetch>>

-----------------------------------------------------------------------------
(* What each tab offers, and what its request carries *)

SourceSettings == {"license", "compilerVersion", "evmVersion", "optimization"}
SourcePanel == SourceSettings \cup {"sourceCode", "contractName", "constructorArgs", "libraries"}
MultiPartSettings == {"license", "compilerVersion", "mpEvmVersion", "mpOptimization"}
MultiPartPanel == MultiPartSettings \cup {"mpMainFile", "mpContractName",
                                       "mpConstructorArgs", "mpLibraries"}
StandardJsonPanel == {"compilerVersion", "contractName", "contractFile",
                      "constructorArgs", "standardJsonInput"}
HardhatPanel == {"hfCompilerVersion", "hfContractName", "hfContractFile",
                 "hfConstructorArgs", "hfLicense"}

Panel == [m \in Methods |->
  CASE m = "source" -> SourcePanel
    [] m = "multi-part" -> MultiPartPanel
    [] m = "standard-json" -> StandardJsonPanel
    [] m = "hardhat-foundry" -> HardhatPanel]
Fields == {"address"} \cup UNION {Panel[m] : m \in Methods}

NoFiles == [n \in FileNames |-> <<>>]
Names(fs) == {n \in FileNames : fs[n] # <<>>}
\* sourceFiles[f.name] = f.content, file by file: the last one of a name stays.
Sent(fs) == [n \in Names(fs) |-> fs[n][Len(fs[n])]]
ContractNames == {artifact.contracts[i].name : i \in DOMAIN artifact.contracts}
ContractFiles == {artifact.contracts[i].file : i \in DOMAIN artifact.contracts}

\* The values the control of a field offers.
Options(f) ==
  {Blank} \cup
  CASE f = "address" -> Addresses
    [] f \in {"compilerVersion", "hfCompilerVersion"} -> {Compilers[i] : i \in DOMAIN Compilers}
    [] f = "mpMainFile" -> Names(files)
    [] f = "standardJsonInput" -> {"json", "text"}
    [] f = "hfContractName" /\ ContractNames # {} -> ContractNames
    [] f = "hfContractFile" /\ ContractFiles # {} -> ContractFiles
    [] OTHER -> {"text"}

Carried == [m \in Methods |-> {"address"} \cup
  CASE m = "source" -> SourcePanel
    [] m = "multi-part" -> MultiPartPanel
    [] m = "standard-json" -> StandardJsonPanel \cup {"license"}
    [] m = "hardhat-foundry" -> HardhatPanel]

Request(m) ==
  [values   |-> [f \in Carried[m] |-> form[f]],
   files    |-> IF m = "multi-part" THEN Sent(files) ELSE <<>>,
   artifact |-> IF m = "hardhat-foundry" THEN artifact ELSE NoArtifact]

Required == [m \in Methods |-> {"address"} \cup
  CASE m = "source" -> {"contractName", "compilerVersion", "sourceCode"}
    [] m = "multi-part" -> {"mpContractName", "compilerVersion", "mpMainFile"}
    [] m = "standard-json" -> {"contractName", "compilerVersion", "standardJsonInput"}
    [] m = "hardhat-foundry" -> {"hfContractName", "hfCompilerVersion"}]

IsSubmitDisabled ==
  \/ acting
  \/ mutation[method].state = "pending"
  \/ \E f \in Required[method] : form[f] = Blank
  \/ method = "multi-part" /\ Names(files) = {}
  \/ method = "hardhat-foundry" /\ ~artifact.valid

-----------------------------------------------------------------------------
Idle == [m \in Methods |-> [state |-> "idle", request |-> NoRequest]]
BlankForm(a) == [f \in Fields |-> IF f = "address" THEN a ELSE Blank]

\* The mount state of the form for /verify?address=a.
Mounted(a) ==
  /\ method' = "source" /\ form' = BlankForm(a)
  /\ files' = NoFiles /\ batches' = {}
  /\ artifact' = NoArtifact /\ hfFile' = NoArtifact /\ hfReads' = {}
  /\ mutation' = Idle

Init ==
  /\ page = <<"home">> /\ acting \in BOOLEAN /\ moves = 0
  /\ method = "source" /\ form = BlankForm(Blank)
  /\ files = NoFiles /\ batches = {}
  /\ artifact = NoArtifact /\ hfFile = NoArtifact /\ hfReads = {}
  /\ mutation = Idle /\ checked = {} /\ fetch = {}

Move == moves < MaxMoves /\ moves' = moves + 1

Open(a) ==
  /\ page = <<"home">>
  /\ page' = <<"verify">> /\ Move
  /\ Mounted(a)
  /\ UNCHANGED <<acting, checked, fetch>>

\* The form's state dies with it; its requests go on without anybody to tell,
\* but an import still has its onSuccess.
Unmount(to) ==
  /\ page' = to
  /\ Mounted(Blank)
  /\ fetch' = {<<p[1], FALSE>> : p \in fetch}
  /\ UNCHANGED <<acting, checked>>

Leave == page = <<"verify">> /\ Move /\ Unmount(<<"home">>)

Input == page = <<"verify">> /\ Move

SetMethod(m) ==
  /\ Input /\ m # method /\ method' = m
  /\ UNCHANGED <<local, form, files, batches, artifact, hfFile, hfReads, mutation>>

\* Picking a contract of the artifact also fills in the file of the first
\* contract of that name.
Filled(f, v) ==
  LET match == SelectSeq(artifact.contracts, LAMBDA c : c.name = v)
  IN [form EXCEPT ![f] = v,
                  !["hfContractFile"] =
                     IF f = "hfContractName" /\ match # <<>> THEN match[1].file
                     ELSE IF f = "hfContractFile" THEN v ELSE @]

Edit(f, v) ==
  /\ Input
  /\ f \in (Panel[method] \cup {"address"}) \cap Edited /\ v \in Options(f) \ {form[f]}
  /\ form' = Filled(f, v)
  /\ UNCHANGED <<local, method, files, batches, artifact, hfFile, hfReads, mutation>>

-----------------------------------------------------------------------------
(* Files: a selection is read as a whole, selections finish in any order *)

AddFiles(b) ==
  /\ Input /\ method = "multi-part" /\ Cardinality(batches) < MaxReads
  /\ batches' = batches \cup {b}
  /\ UNCHANGED <<local, method, form, files, artifact, hfFile, hfReads, mutation>>

\* Mutant: no look at the names that are listed already.
AllFiles(b) == b

\* setMultiPartFiles(prev => ...): what has a name that is listed already is
\* dropped; the files of the selection are not compared with each other.
NewFiles(b) == [n \in FileNames |-> IF n \in Names(files) THEN <<>> ELSE b[n]]

FilesRead(b) ==
  /\ b \in batches /\ batches' = batches \ {b}
  /\ files' = [n \in FileNames |-> files[n] \o NewFiles(b)[n]]
  /\ UNCHANGED <<local, moves, method, form, artifact, hfFile, hfReads, mutation>>

\* Mutant: the main file is left chosen.
RemoveFromList(n) ==
  /\ Input /\ method = "multi-part" /\ n \in Names(files)
  /\ files' = [files EXCEPT ![n] = <<>>]
  /\ UNCHANGED <<local, method, form, batches, artifact, hfFile, hfReads, mutation>>

\* Every file of the name goes.
RemoveFile(n) ==
  /\ Input /\ method = "multi-part" /\ n \in Names(files)
  /\ files' = [files EXCEPT ![n] = <<>>]
  /\ form' = IF form["mpMainFile"] = n THEN [form EXCEPT !["mpMainFile"] = Blank] ELSE form
  /\ UNCHANGED <<local, method, batches, artifact, hfFile, hfReads, mutation>>

\* The compiler of an artifact: the first of the list that is the artifact's
\* version or starts with it.
CompilerOf(v) ==
  LET match == SelectSeq(Compilers, LAMBDA c : c = v \/ <<c, v>> \in StartsWith)
  IN IF match = <<>> THEN v ELSE match[1]

UploadArtifact(a) ==
  /\ Input /\ method = "hardhat-foundry"
  /\ hfFile' = a /\ hfReads' = hfReads \cup {a}
  /\ UNCHANGED <<local, method, form, files, batches, artifact, mutation>>

ArtifactRead(a) ==
  /\ a \in hfReads /\ hfReads' = hfReads \ {a}
  /\ artifact' = IF a.valid THEN a ELSE NoArtifact
  /\ form' = [f \in Fields |->
       CASE f = "hfCompilerVersion" /\ a.valid /\ a.version # Blank -> CompilerOf(a.version)
         [] f = "hfContractFile" /\ a.contracts # <<>> -> a.contracts[1].file
         [] f = "hfContractName" /\ a.contracts # <<>> -> a.contracts[1].name
         [] OTHER -> form[f]]
  /\ UNCHANGED <<local, moves, method, files, batches, hfFile, mutation>>

-----------------------------------------------------------------------------
(* Requests *)

\* The mutation function of standard-json throws on input that is not JSON.
Unsendable(m) == m = "standard-json" /\ form["standardJsonInput"] = "text"

Submit ==
  /\ Input /\ ~IsSubmitDisabled
  /\ mutation' = [mutation EXCEPT ![method] =
       IF Unsendable(method) THEN [state |-> "error", request |-> NoRequest]
       ELSE [state |-> "pending", request |-> Request(method)]]
  /\ UNCHANGED <<local, method, form, files, batches, artifact, hfFile, hfReads>>

\* success: true, success: false, or an error.
Answered(m, result) ==
  /\ mutation[m].state = "pending"
  /\ mutation' = [mutation EXCEPT ![m].state = result]
  /\ UNCHANGED <<local, moves, method, form, files, batches, artifact, hfFile, hfReads>>

ViewContract ==
  /\ page = <<"verify">> /\ mutation[method].state = "verified" /\ Move
  /\ Unmount(<<"address", form["address"]>>)

\* useQuery(['sourcify-check', address]), enabled when the address is valid.
SourcifyChecked(a) ==
  /\ page = <<"verify">> /\ form["address"] = a /\ a \notin checked
  /\ checked' = checked \cup {a}
  /\ UNCHANGED <<page, acting, moves, method, form, files, batches, artifact,
                 hfFile, hfReads, mutation, fetch>>

Import ==
  /\ Input /\ form["address"] \in checked
  /\ ~\E p \in fetch : p[2]
  /\ fetch' = fetch \cup {<<form["address"], TRUE>>}
  /\ UNCHANGED <<page, acting, method, form, files, batches, artifact, hfFile,
                 hfReads, mutation, checked>>

\* onSuccess of the mutation's options runs whether or not its form is mounted.
Imported(p) ==
  /\ p \in fetch
  /\ page' = <<"address", p[1]>>
  /\ Mounted(Blank)
  /\ fetch' = {<<q[1], FALSE>> : q \in fetch \ {p}}
  /\ UNCHANGED <<acting, moves, checked>>

ImportFailed(p) ==
  /\ p \in fetch /\ fetch' = fetch \ {p}
  /\ UNCHANGED <<page, acting, moves, method, form, files, batches, artifact,
                 hfFile, hfReads, mutation, checked>>

\* "View as user" starts from a page of its own and ends anywhere.
StopActing ==
  /\ acting /\ acting' = FALSE
  /\ UNCHANGED <<page, moves, formVars>>

FormNext ==
  \/ \E a \in Addresses \cup {Blank} : Open(a)
  \/ Leave
  \/ \E m \in Methods : SetMethod(m)
  \/ \E f \in Fields : \E v \in Options(f) : Edit(f, v)
  \/ \E b \in Selections : AddFiles(b)
  \/ \E b \in batches : FilesRead(b)
  \/ \E n \in FileNames : RemoveFile(n)
  \/ \E a \in Artifacts : UploadArtifact(a)
  \/ \E a \in hfReads : ArtifactRead(a)
  \/ Submit
  \/ \E m \in Methods, r \in {"verified", "refused", "error"} : Answered(m, r)
  \/ ViewContract
  \/ \E a \in Addresses : SourcifyChecked(a)
  \/ Import
  \/ \E p \in fetch : Imported(p) \/ ImportFailed(p)
  \/ StopActing

\* Another page is left for the home page.
Home == page # <<"verify">> /\ page # <<"home">> /\ page' = <<"home">> /\ Move
        /\ UNCHANGED <<acting, formVars>>

Next == FormNext \/ Home
Spec == Init /\ [][Next]_vfVars

-----------------------------------------------------------------------------
(* Properties *)

\* ContractVerification.tsx:221-229, 312-344.  Whatever is selected, dropped and
\* removed while files are being read, the main file is one of those listed,
\* or none is chosen, and a multi-part request sends the file it names as main.
MultiPartWhole ==
  /\ form["mpMainFile"] \in Names(files) \cup {Blank}
  /\ LET m == mutation["multi-part"] IN
     m.state # "idle" => m.request.values["mpMainFile"] \in DOMAIN m.request.files

\* ContractVerification.tsx:220-223, 331-335.  A file that stays in the list is
\* sent with the content it had: none that is read later takes its place.
ListedKept ==
  \A n \in Names(files) \cap Names(files)' : Sent(files)'[n] = Sent(files)[n]

ListedFilesKeep == [][ListedKept]_vfVars

-----------------------------------------------------------------------------
(* The inductive invariant *)

FormShape ==
  /\ DOMAIN form = Fields /\ DOMAIN mutation = Methods
  /\ \A m \in Methods :
       mutation[m] = [state |-> mutation[m].state, request |-> mutation[m].request]

FilesType ==
  /\ files \in [FileNames -> Seq(Contents)]
  /\ batches \subseteq [FileNames -> Seq(Contents)]

FormInv == FormShape /\ FilesType /\ MultiPartWhole
=============================================================================
