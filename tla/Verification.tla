---------------------------- MODULE Verification ----------------------------
(***************************************************************************)
(* Verification of one contract with a local compiler:                     *)
(* backend/internal/verifier (verifier.go, solc_manager.go, compiler.go,   *)
(* bytecode.go), the Etherscan and Sourcify handlers of internal/api, and  *)
(* the table of internal/db/verifications.go.                              *)
(*                                                                         *)
(* Requests run side by side.  Each looks for its compiler, perhaps        *)
(* downloads it into the directory all of them share, runs it, compares    *)
(* the result with the code on the chain, and writes the row of the        *)
(* contract.  A file that is open for writing cannot be run, and one that  *)
(* runs cannot be opened for writing.                                      *)
(***************************************************************************)
EXTENDS Integers, Sequences

CONSTANTS
  Requests,   \* the goroutines of POST /verify, /verify/standard-json and of
              \* verifysourcecode
  Versions,   \* compiler versions
  Longer,     \* Longer[v]: the versions whose text starts with that of v
  Unhashed,   \* versions published without a sha256
  Sources,    \* what is submitted
  Spellings,  \* how the address is written
  Plain,      \* ... by EIP-55, as every reader writes it
  Pieces,     \* what code is made of,
  Metadata,   \* ... those that are the metadata the compiler appends,
  OnChain,    \* ... the code on the chain,
  Gives,      \* ... Gives[s][v]: what version v makes of source s,
  Args,       \* ... and what may come as constructorArgs
  None

ASSUME VerificationAssumption ==
  /\ Plain \in Spellings /\ Versions # {}
  /\ Longer \in [Versions -> SUBSET Versions]
  /\ OnChain \in Seq(Pieces) /\ Metadata \subseteq Pieces
  /\ Gives \in [Sources -> [Versions -> Seq(Pieces)]]
  /\ << >> \in Args /\ \A a \in Args : a \in Seq(Pieces)
  /\ None \notin Versions \cup Sources \cup Requests

VARIABLES
  file,    \* file[v]: solc-v on the disk: "absent", "partial", "whole" or "foreign"
  last,    \* last[v]: the request that truncated solc-v last and writes it still
  spoilt,  \* versions whose write that began last was cut short
  local,   \* SolcManager.versions
  listed,  \* SolcManager.remoteBuilds has been fetched
  rows,    \* contract_verifications, by the spelling of the address
  pc,      \* pc[r]: where request r is
  job,     \* job[r]: spelling, source, version and arguments it came with
  use,     \* use[r]: the version whose binary it runs
  bytes,   \* bytes[r]: what it has downloaded: "none", "good" or "bad"
  answer   \* answer[r]: "none", "failed" or "verified"

diskVars == <<file, last, spoilt>>
managerVars == <<local, listed>>
requestVars == <<pc, job, use, bytes, answer>>
vars == <<diskVars, managerVars, rows, requestVars>>

Jobs == [at : Spellings, src : Sources, ver : Versions, args : Args]
NoRow == [kind |-> "none", src |-> None, claimed |-> None, used |-> None, args |-> << >>]
Rows == [kind : {"none", "abi", "imported", "solc"}, src : Sources \cup {None},
         claimed : Versions \cup {None}, used : Versions \cup {None}, args : Args]

Busy == {"code", "compiler", "download", "open", "writing", "register", "exec",
         "compiling", "store"}

TypeOK ==
  /\ file \in [Versions -> {"absent", "partial", "whole", "foreign"}]
  /\ last \in [Versions -> Requests \cup {None}]
  /\ spoilt \subseteq Versions /\ local \subseteq Versions /\ listed \in BOOLEAN
  /\ rows \in [Spellings -> Rows]
  /\ pc \in [Requests -> Busy \cup {"idle"}]
  /\ job \in [Requests -> Jobs]
  /\ use \in [Requests -> Versions]
  /\ bytes \in [Requests -> {"none", "good", "bad"}]
  /\ answer \in [Requests -> {"none", "failed", "verified"}]

\* NewSolcManager, over a directory that may hold compilers already.
Init ==
  /\ file \in [Versions -> {"absent", "whole"}]
  /\ last = [v \in Versions |-> None] /\ spoilt = {}
  /\ local = {v \in Versions : file[v] # "absent"} /\ listed = FALSE
  /\ rows = [s \in Spellings |-> NoRow]
  /\ pc = [r \in Requests |-> "idle"]
  /\ job \in {[r \in Requests |-> j] : j \in Jobs}
  /\ use = [r \in Requests |-> CHOOSE v \in Versions : TRUE]
  /\ bytes = [r \in Requests |-> "none"] /\ answer = [r \in Requests |-> "none"]

---------------------------------------------------------------------------
(* What a request does *)

Writers(v) == {r \in Requests : pc[r] = "writing" /\ job[r].ver = v}
Runners(v) == {r \in Requests : pc[r] = "compiling" /\ use[r] = v}

Goes(r, from, to) == pc[r] = from /\ pc' = [pc EXCEPT ![r] = to]

\* An error is the answer, and the end of the request.
Fail(r) ==
  /\ pc' = [pc EXCEPT ![r] = "idle"]
  /\ answer' = [answer EXCEPT ![r] = "failed"]
  /\ bytes' = [bytes EXCEPT ![r] = "none"]
  /\ UNCHANGED <<job, use>>

\* The request has passed every check of its parameters.
Submit(r) ==
  /\ Goes(r, "idle", "code")
  /\ \E j \in Jobs : job' = [job EXCEPT ![r] = j]
  /\ answer' = [answer EXCEPT ![r] = "none"]
  /\ UNCHANGED <<diskVars, managerVars, rows, use, bytes>>

\* GetCode answers; without code, or without an answer, there is nothing to compare.
GetCode(r) ==
  /\ pc[r] = "code"
  /\ \/ Goes(r, "code", "compiler") /\ UNCHANGED <<job, use, bytes, answer>>
     \/ Fail(r)
  /\ UNCHANGED <<diskVars, managerVars, rows>>

\* The local versions that are taken for v: itself, or any with a longer text.
Candidates(v) == IF v \in local THEN {v} ELSE Longer[v] \cap local

GetCompiler(r) ==
  LET v == job[r].ver IN
  /\ pc[r] = "compiler"
  /\ \/ /\ Goes(r, "compiler", "exec")
        /\ \E w \in Candidates(v) : use' = [use EXCEPT ![r] = w]
        /\ UNCHANGED <<job, bytes, answer>>
     \/ /\ Candidates(v) = {} /\ listed
        /\ Goes(r, "compiler", "download")
        /\ UNCHANGED <<job, use, bytes, answer>>
     \/ Candidates(v) = {} /\ Fail(r)
  /\ UNCHANGED <<diskVars, managerVars, rows>>

\* The checksum of downloadCompiler; no published hash fails closed.
Accept(v, data) == v \notin Unhashed /\ data = "good"

Download(r) ==
  /\ pc[r] = "download"
  /\ \/ /\ Goes(r, "download", "open")
        /\ \E data \in {"good", "bad"} :
             Accept(job[r].ver, data) /\ bytes' = [bytes EXCEPT ![r] = data]
        /\ UNCHANGED <<job, use, answer>>
     \/ Fail(r)
  /\ UNCHANGED <<diskVars, managerVars, rows>>

\* os.WriteFile truncates the file when it opens it, which fails while it runs.
OpenFile(r) ==
  LET v == job[r].ver IN
  /\ pc[r] = "open"
  /\ \/ /\ Runners(v) = {} /\ Goes(r, "open", "writing")
        /\ file' = [file EXCEPT ![v] = "partial"]
        /\ last' = [last EXCEPT ![v] = r] /\ spoilt' = spoilt \ {v}
        /\ UNCHANGED <<job, use, bytes, answer>>
     \/ Fail(r) /\ UNCHANGED diskVars
  /\ UNCHANGED <<managerVars, rows>>

\* What r has written, and who writes on when it has closed the file.
Written(r) == IF bytes[r] = "good" THEN "whole" ELSE "foreign"
Closed(r) == [last EXCEPT ![job[r].ver] = IF @ = r THEN None ELSE @]

\* Mutant: a writer that does not write everything takes it for success.
ShortWrite(r) ==
  /\ Goes(r, "writing", "register")
  /\ last' = Closed(r)
  /\ UNCHANGED <<file, spoilt, job, use, answer>>
  /\ bytes' = [bytes EXCEPT ![r] = "none"]

\* All of it is written: the file is whole if nobody has truncated it since, and
\* otherwise may be, for the rest of what others write is the same.
WholeWrite(r) ==
  LET v == job[r].ver IN
  /\ Goes(r, "writing", "register")
  /\ \E f \in {Written(r)} \cup (IF last[v] = r THEN {} ELSE {file[v]}) :
       file' = [file EXCEPT ![v] = f]
  /\ last' = Closed(r)
  /\ bytes' = [bytes EXCEPT ![r] = "none"]
  /\ UNCHANGED <<spoilt, job, use, answer>>

\* The disk is full, or closing the file fails when all is written.
CutShort(r) ==
  LET v == job[r].ver IN
  /\ Fail(r)
  /\ \E f \in {file[v], Written(r)} : file' = [file EXCEPT ![v] = f]
  /\ last' = Closed(r)
  /\ spoilt' = IF last[v] = r THEN spoilt \cup {v} ELSE spoilt

WriteFile(r) ==
  /\ pc[r] = "writing"
  /\ WholeWrite(r) \/ CutShort(r)
  /\ UNCHANGED <<managerVars, rows>>

Register(r) ==
  /\ Goes(r, "register", "exec")
  /\ local' = local \cup {job[r].ver}
  /\ use' = [use EXCEPT ![r] = job[r].ver]
  /\ UNCHANGED <<diskVars, listed, rows, job, bytes, answer>>

\* The binary is started; it cannot be while a request has it open for writing.
Exec(r) ==
  /\ pc[r] = "exec"
  /\ \/ Writers(use[r]) = {} /\ Goes(r, "exec", "compiling")
        /\ UNCHANGED <<job, use, bytes, answer>>
     \/ Writers(use[r]) # {} /\ Fail(r)
  /\ UNCHANGED <<diskVars, managerVars, rows>>

\* The arguments are cut off the code on the chain when it ends with them.
EndsWith(code, args) ==
  Len(args) <= Len(code) /\ SubSeq(code, Len(code) - Len(args) + 1, Len(code)) = args
Trim(code, args) ==
  IF args # << >> /\ EndsWith(code, args)
  THEN SubSeq(code, 1, Len(code) - Len(args)) ELSE code

\* Code up to its last metadata.
StripMetadata(code) ==
  LET at == {i \in DOMAIN code : code[i] \in Metadata} IN
  IF at = {} THEN code
  ELSE SubSeq(code, 1, (CHOOSE i \in at : \A j \in at : j <= i) - 1)

\* The same code, or the same up to the metadata, which is never no code at all.
SameCode(code, compiled) ==
  \/ code = compiled
  \/ /\ StripMetadata(code) = StripMetadata(compiled)
     /\ StripMetadata(code) # << >>

\* CompareBytecode.
Compare(r) == SameCode(Trim(OnChain, job[r].args), Gives[job[r].src][use[r]])

\* The compiler ends or is killed after a minute; its output may have errors or
\* lack the contract.
Compile(r) ==
  /\ pc[r] = "compiling"
  /\ \/ /\ Goes(r, "compiling", "store")
        /\ file[use[r]] \in {"whole", "foreign"} /\ Compare(r)
        /\ UNCHANGED <<job, use, bytes, answer>>
     \/ Fail(r)
  /\ UNCHANGED <<diskVars, managerVars, rows>>

\* Mutant: the update leaves the arguments out.
UpsertLessArgs(row, new) ==
  IF row.kind = "none" THEN new ELSE [new EXCEPT !.args = row.args]

\* INSERT ... ON CONFLICT (address) DO UPDATE of every column.
Upsert(row, new) == new

\* storeVerification: its error is logged, and the answer is the same.
Store(r) ==
  LET new == [kind |-> "solc", src |-> job[r].src, claimed |-> job[r].ver,
              used |-> use[r], args |-> job[r].args] IN
  /\ Goes(r, "store", "idle")
  /\ \/ rows' = [rows EXCEPT ![job[r].at] = Upsert(@, new)]
     \/ UNCHANGED rows
  /\ answer' = [answer EXCEPT ![r] = "verified"]
  /\ UNCHANGED <<diskVars, managerVars, job, use, bytes>>

---------------------------------------------------------------------------
(* What else writes *)

\* RefreshRemoteList, at the start and every hour; a failure changes nothing.
RefreshRemoteList ==
  /\ ~listed /\ listed' = TRUE
  /\ UNCHANGED <<diskVars, local, rows, requestVars>>

\* handleFetchSourcify: what Sourcify has for the address, taken as it is.
Import(src) ==
  LET new == [kind |-> "imported", src |-> src, claimed |-> None, used |-> None,
              args |-> << >>] IN
  /\ rows' = [rows EXCEPT ![Plain] = Upsert(@, new)]
  /\ UNCHANGED <<diskVars, managerVars, requestVars>>

\* handleUpdateContractABI: the row, if there is one, keeps all but its ABI.
SetContractABI ==
  /\ rows[Plain].kind = "none"
  /\ rows' = [rows EXCEPT ![Plain].kind = "abi"]
  /\ UNCHANGED <<diskVars, managerVars, requestVars>>

\* The process dies and is started again: scanVersions registers what it finds.
Restart ==
  /\ spoilt' = spoilt \cup {v \in Versions : last[v] # None}
  /\ last' = [v \in Versions |-> None]
  /\ local' = {v \in Versions : file[v] # "absent"} /\ listed' = FALSE
  /\ pc' = [r \in Requests |-> "idle"] /\ bytes' = [r \in Requests |-> "none"]
  /\ answer' = [r \in Requests |-> "none"]
  /\ UNCHANGED <<file, rows, job, use>>

---------------------------------------------------------------------------
Step(r) ==
  \/ GetCode(r) \/ GetCompiler(r) \/ Download(r) \/ OpenFile(r) \/ WriteFile(r)
  \/ Register(r) \/ Exec(r) \/ Compile(r) \/ Store(r)

Next ==
  \/ \E r \in Requests : Submit(r) \/ Step(r)
  \/ RefreshRemoteList \/ SetContractABI \/ Restart
  \/ \E src \in Sources : Import(src)

Spec == Init /\ [][Next]_vars

---------------------------------------------------------------------------
(* Properties *)

\* What version v makes of source s, followed by the arguments or by nothing, is
\* the code on the chain, up to the metadata of what the compiler makes.
Explains(s, v, args) ==
  \E n \in 0 .. Len(OnChain), rest \in {<< >>, args} :
    /\ SubSeq(OnChain, 1, n) \o rest = OnChain
    /\ SameCode(SubSeq(OnChain, 1, n), Gives[s][v])

\* verifier.go:95-137: the row of a local verification is one that was matched,
\* whatever was in the row before and whoever else writes it: its own source,
\* followed by its own arguments, explains the code on the chain, with the compiler
\* that was run.
StoredMatches ==
  \A s \in Spellings :
    rows[s].kind = "solc" => Explains(rows[s].src, rows[s].used, rows[s].args)

\* solc_manager.go:224-238: bytes that do not have the published hash never become a
\* compiler.
NoForeignBinary == \A v \in Versions : file[v] # "foreign"

\* A registered compiler has a file, whole or not.
RegisteredOnDisk == \A v \in local : file[v] # "absent"

\* Of the requests that download the same compiler at the same time the one that
\* opened the file last decides: the file is incomplete only while that one writes
\* it, or after a full disk or a crash cut that one short. How the others end, and
\* when, does no harm.
BrokenOnlyIfSpoilt ==
  \A v \in Versions : file[v] = "partial" => last[v] \in Writers(v) \/ v \in spoilt

\* What a request relies on between two of its steps, and what its answer says.
RequestOK(r) ==
  /\ pc[r] # "idle" => answer[r] = "none"
  /\ answer[r] = "verified" => Compare(r)
  /\ pc[r] \in {"open", "writing"} => bytes[r] = "good"
  /\ pc[r] \in {"writing", "register"} => file[job[r].ver] # "absent"
  /\ pc[r] = "store" => Compare(r)
RequestInv == \A r \in Requests : RequestOK(r)

\* What every step preserves.
VerificationInv ==
  /\ TypeOK /\ StoredMatches /\ NoForeignBinary /\ RegisteredOnDisk
  /\ BrokenOnlyIfSpoilt /\ RequestInv

---------------------------------------------------------------------------
(* What the repository says and the code does not do *)

\* types.go:45-46: a match is the code on the chain, or all but its metadata.
StoredIsOnChain ==
  \A s \in Spellings :
    rows[s].kind = "solc" => SameCode(OnChain, Gives[rows[s].src][rows[s].used])

\* requirements.md:33: the compiler is the version that was asked for.
UsedIsClaimed ==
  \A s \in Spellings : rows[s].kind = "solc" => rows[s].used = rows[s].claimed

\* solc_manager.go:240-252: a download that has succeeded has left a compiler.
DownloadedIsWhole ==
  \A r \in Requests : pc[r] = "register" /\ Writers(job[r].ver) = {} =>
    file[job[r].ver] = "whole"
===========================================================================
