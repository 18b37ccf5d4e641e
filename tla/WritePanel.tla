----------------------------- MODULE WritePanel -----------------------------
(***************************************************************************)
(* The wallet of an address page and the contract functions it calls       *)
(* (pages/Address.tsx, components/ContractInteraction.tsx).  The wallet is *)
(* external: it may be there late (window.ethereum), answers the page's    *)
(* requests in order, by an error too, and sends its answers and its       *)
(* accountsChanged events over one channel.  What runs between two awaits  *)
(* of the page is one action.                                              *)
(***************************************************************************)
EXTENDS Naturals, Sequences

CONSTANTS Accounts,   \* accounts of the wallet
          Inputs,     \* values of a function's argument
          MaxMoves,   \* bound: inputs of the user
          MaxQueue,   \* bound: requests and answers under way to and from the wallet
          MaxSwitches \* bound: accounts switched in the wallet while a page is mounted

None == "null"
\* What a read of the accounts rejects with.
Failed == "error"
Blank == ""

VARIABLES page,      \* <<"call", "read" or "write">> while the panel is mounted
          acting,    \* useImpersonation().isActive
          moves,     \* inputs of the user (for the bound)
          injected,  \* window.ethereum is there
          account,   \* wallet: the account the site is given, None: not authorised
          switches,  \* account changes while the page is mounted (for the bound)
          prompt,    \* wallet: an eth_requestAccounts waits for the user: none, live, stale
          asked,     \* requests under way to the wallet
          inbox,     \* answers and events under way to the page
          listens,   \* the mounted page listens to accountsChanged
          wallet,    \* walletAddress
          manual,    \* manuallyDisconnected.current
          connect,   \* connectWallet: idle, reading, requesting
          pending,   \* walletPending
          polling,   \* pollRef.current # null
          failed,    \* ghost: the last that came of a mount's or a connection's read, and
                     \* of all answers and events since, is that the read failed
          card,      \* one FunctionCard: inputs, outcome
          call       \* the call in flight: idle, or the inputs and the stage it is at

provider == <<injected, account, switches, prompt>>
panel == <<listens, wallet, manual, connect, pending, polling, failed>>
function == <<card, call>>
wpVars == <<page, acting, moves, provider, asked, inbox, panel, function>>

\* walletConnecting
Connecting == connect # "idle"
Kind == page[2]
IsCallPage(p) == p[1] = "call"
\* The card is on the page: a write card only under a connected wallet.
CardShown == IsCallPage(page) /\ (Kind = "write" => wallet # None)

NewCard == [inputs |-> Blank, result |-> None, error |-> FALSE, tx |-> FALSE]
NoCall == [stage |-> "idle", inputs |-> Blank]

\* A tab without a page: nothing mounted, nothing under way.
Unmounted ==
  /\ wallet' = None /\ manual' = FALSE /\ connect' = "idle"
  /\ pending' = FALSE /\ polling' = FALSE /\ failed' = FALSE
  /\ card' = NewCard /\ call' = NoCall
  /\ inbox' = <<>> /\ switches' = 0
  /\ prompt' = IF prompt = "none" THEN "none" ELSE "stale"

Init ==
  /\ page = <<"home">> /\ acting \in BOOLEAN /\ moves = 0
  /\ injected = FALSE
  /\ account \in Accounts \cup {None} /\ switches = 0 /\ prompt = "none"
  /\ asked = <<>> /\ inbox = <<>>
  /\ listens = FALSE /\ wallet = None /\ manual = FALSE /\ connect = "idle"
  /\ pending = FALSE /\ polling = FALSE /\ failed = FALSE
  /\ card = NewCard /\ call = NoCall

Move == moves < MaxMoves /\ moves' = moves + 1

\* The mount effect asks for the accounts and listens to accountsChanged, if
\* there is a provider (it may have come since the last address page); it does
\* not run again when one comes.
OpenPanel(kind) ==
  /\ page = <<"home">> /\ page' = <<"call", kind>> /\ Move
  /\ injected' \in {injected, TRUE}
  /\ asked' = IF injected' THEN <<"mount">> ELSE <<>>
  /\ listens' = injected'
  /\ Unmounted /\ UNCHANGED <<acting, account>>

LeavePanel ==
  /\ IsCallPage(page) /\ page' = <<"home">> /\ Move
  /\ asked' = <<>> /\ listens' = FALSE
  /\ \/ account' = account
     \/ account' = None /\ \E i \in DOMAIN asked : asked[i] = "revoke"
  /\ Unmounted /\ UNCHANGED <<acting, injected>>

\* The tabs of the page: the functions are unmounted, the wallet is not.
SwitchTab(kind) ==
  /\ IsCallPage(page) /\ kind # Kind
  /\ page' = <<"call", kind>> /\ Move
  /\ card' = NewCard /\ call' = NoCall
  /\ UNCHANGED <<acting, provider, asked, inbox, panel>>

Input == IsCallPage(page) /\ Move /\ UNCHANGED <<page, acting>>

Ask(r) == asked' = Append(asked, r)

-----------------------------------------------------------------------------
(* The wallet *)

Event(a) == [kind |-> "accountsChanged", account |-> a]
Answer(r, a) == [kind |-> r, account |-> a]
Tell(ms) == inbox' = inbox \o ms
\* A change is heard of by the page that listens.
Change(a) == IF listens /\ a # account THEN <<Event(a)>> ELSE <<>>

\* The wallet's script runs under an address page that is mounted.
Inject ==
  /\ IsCallPage(page) /\ ~injected /\ injected' = TRUE
  /\ UNCHANGED <<page, acting, moves, account, switches, prompt, asked, inbox, panel, function>>

\* eth_accounts, eth_requestAccounts and wallet_revokePermissions, in order.
WalletAnswers ==
  /\ asked # <<>> /\ Len(inbox) < MaxQueue
  /\ asked' = Tail(asked)
  /\ LET r == Head(asked) IN
     \/ /\ r \in {"mount", "connect", "poll"}
        /\ \E a \in {account, Failed} : Tell(<<Answer(r, a)>>)
        /\ UNCHANGED <<account, prompt>>
     \/ /\ r \in {"request", "stale"} /\ (account # None \/ prompt # "none")
        /\ Tell(<<Answer(r, account)>>) /\ UNCHANGED <<account, prompt>>
     \/ /\ r \in {"request", "stale"} /\ account = None /\ prompt = "none"
        /\ prompt' = IF r = "request" THEN "live" ELSE "stale"
        /\ UNCHANGED <<account, inbox>>
     \/ /\ r = "revoke" /\ account' = None
        /\ Tell(Change(None)) /\ UNCHANGED prompt
     \/ /\ r = "revoke" /\ UNCHANGED <<account, prompt, inbox>>   \* not supported
  /\ UNCHANGED <<page, acting, moves, injected, switches, panel, function>>

PromptAnswered(a) ==
  /\ prompt # "none" /\ Len(inbox) < MaxQueue
  /\ prompt' = "none" /\ account' = a
  /\ Tell(Change(a) \o <<Answer(IF prompt = "live" THEN "request" ELSE "stale", a)>>)
  /\ UNCHANGED <<page, acting, moves, injected, switches, asked, panel, function>>

SwitchAccount(a) ==
  /\ IsCallPage(page) /\ switches < MaxSwitches /\ Len(inbox) < MaxQueue
  /\ account # None /\ a # account /\ account' = a
  /\ switches' = switches + 1
  /\ Tell(Change(a))
  /\ UNCHANGED <<page, acting, moves, injected, prompt, asked, panel, function>>

-----------------------------------------------------------------------------
(* The panel *)

\* An unmounted write card takes its state with it; its call goes on unseen.
SetWallet(a) ==
  /\ wallet' = a
  /\ IF a = None /\ Kind = "write" THEN card' = NewCard /\ call' = NoCall
                                   ELSE UNCHANGED function

FallThroughToPending ==
  /\ pending' = TRUE /\ connect' = "idle" /\ polling' = TRUE
  /\ UNCHANGED <<listens, wallet, manual, function>>

\* Mutant: only a first account is taken over.
FirstAccountOnly(a) ==
  /\ IF manual \/ wallet # None THEN UNCHANGED <<wallet, function>> ELSE SetWallet(a)
  /\ UNCHANGED <<listens, manual, connect, pending, polling, asked>>

HandleAccountsChanged(a) ==
  /\ IF manual THEN UNCHANGED <<wallet, function>> ELSE SetWallet(a)
  /\ UNCHANGED <<listens, manual, connect, pending, polling, asked>>

MountRead(a) ==
  /\ IF a # None /\ ~manual THEN SetWallet(a) ELSE UNCHANGED <<wallet, function>>
  /\ UNCHANGED <<listens, manual, connect, pending, polling, asked>>

PollRead(a) ==
  /\ IF a = None THEN UNCHANGED <<wallet, connect, pending, polling, function>>
     ELSE SetWallet(a) /\ pending' = FALSE /\ connect' = "idle" /\ polling' = FALSE
  /\ UNCHANGED <<listens, manual, asked>>

\* connectWallet after its first await: connected, or the request and its
\* 500 ms timer race.
ConnectRead(a) ==
  IF a # None
  THEN /\ SetWallet(a) /\ connect' = "idle"
       /\ UNCHANGED <<listens, manual, pending, polling, asked>>
  ELSE /\ Ask("request") /\ connect' = "requesting"
       /\ UNCHANGED <<listens, wallet, manual, pending, polling, function>>

\* A rejected request falls through to pending like a slow one.
RequestAnswered(a) ==
  /\ IF a # None
     THEN SetWallet(a) /\ connect' = "idle" /\ UNCHANGED <<listens, manual, pending, polling>>
     ELSE FallThroughToPending
  /\ UNCHANGED asked

\* catch: nothing at the mount and in a poll, pending when connecting.
ReadFails(kind) ==
  /\ IF kind = "connect" THEN FallThroughToPending
     ELSE UNCHANGED <<listens, wallet, manual, connect, pending, polling, function>>
  /\ failed' = (failed \/ kind # "poll")
  /\ UNCHANGED asked

Receive ==
  /\ inbox # <<>> /\ inbox' = Tail(inbox)
  /\ LET m == Head(inbox) IN
     \/ m.account = Failed /\ ReadFails(m.kind)
     \/ /\ m.account # Failed /\ m.kind # "stale" /\ failed' = FALSE
        /\ \/ m.kind = "accountsChanged" /\ HandleAccountsChanged(m.account)
           \/ m.kind = "mount" /\ MountRead(m.account)
           \/ m.kind = "poll" /\ PollRead(m.account)
           \/ m.kind = "connect" /\ ConnectRead(m.account)
           \/ m.kind = "request" /\ RequestAnswered(m.account)
     \/ m.kind = "stale" /\ UNCHANGED <<panel, function, asked>>
  /\ UNCHANGED <<page, acting, moves, provider>>

\* The timer of the race: the request stays in the wallet, nobody awaits it.
RequestTimeout ==
  /\ connect = "requesting" /\ FallThroughToPending /\ UNCHANGED failed
  /\ asked' = [i \in DOMAIN asked |-> IF asked[i] = "request" THEN "stale" ELSE asked[i]]
  /\ inbox' = [i \in DOMAIN inbox |->
                 IF inbox[i].kind = "request" THEN Answer("stale", inbox[i].account) ELSE inbox[i]]
  /\ prompt' = IF prompt = "live" THEN "stale" ELSE prompt
  /\ UNCHANGED <<page, acting, moves, injected, account, switches>>

PollTick ==
  /\ polling /\ Len(asked) < MaxQueue
  /\ ~\E i \in DOMAIN asked : asked[i] = "poll"
  /\ ~\E i \in DOMAIN inbox : inbox[i].kind = "poll"
  /\ Ask("poll")
  /\ UNCHANGED <<page, acting, moves, provider, inbox, panel, function>>

\* Without a provider there is only an alert.
ConnectWallet ==
  /\ Input /\ Kind = "write" /\ wallet = None /\ ~pending /\ ~Connecting
  /\ injected
  /\ manual' = FALSE /\ connect' = "reading" /\ pending' = FALSE
  /\ Ask("connect")
  /\ UNCHANGED <<provider, inbox, listens, wallet, polling, failed, function>>

CancelConnect ==
  /\ Input /\ Kind = "write" /\ wallet = None /\ pending
  /\ polling' = FALSE /\ pending' = FALSE /\ connect' = "idle"
  /\ UNCHANGED <<provider, asked, inbox, listens, wallet, manual, failed, function>>

DisconnectWallet ==
  /\ Input /\ Kind = "write" /\ wallet # None
  /\ manual' = TRUE /\ SetWallet(None)
  /\ Ask("revoke")
  /\ UNCHANGED <<provider, inbox, listens, connect, pending, polling, failed>>

-----------------------------------------------------------------------------
(* One function of the contract *)

\* handleInputChange clears the outcome, also while a call is in flight.
Type(v) ==
  /\ Input /\ CardShown /\ v # card.inputs
  /\ card' = [NewCard EXCEPT !.inputs = v]
  /\ UNCHANGED <<provider, asked, inbox, panel, call>>

ReadOnlyView == Kind = "write" /\ acting

\* executeRead and executeWrite up to their first await.
SubmitCall ==
  /\ Input /\ CardShown /\ call.stage = "idle" /\ ~ReadOnlyView
  /\ card' = [card EXCEPT !.error = FALSE, !.tx = FALSE,
                          !.result = IF Kind = "read" THEN None ELSE @]
  /\ call' = [stage |-> Kind, inputs |-> card.inputs]
  /\ UNCHANGED <<provider, asked, inbox, panel>>

\* The read answers, or the node, the wallet or the transaction fails.
CallReturns ==
  /\ call.stage = "read" /\ call' = NoCall
  /\ card' = [card EXCEPT !.result = call.inputs]
  /\ UNCHANGED <<page, acting, moves, provider, asked, inbox, panel>>

CallFails ==
  /\ call.stage # "idle" /\ call' = NoCall
  /\ card' = [card EXCEPT !.error = TRUE]
  /\ UNCHANGED <<page, acting, moves, provider, asked, inbox, panel>>

\* The wallet signed and sent the transaction; wait() follows.
CallSent ==
  /\ call.stage = "write" /\ call' = [call EXCEPT !.stage = "wait"]
  /\ card' = [card EXCEPT !.tx = TRUE]
  /\ UNCHANGED <<page, acting, moves, provider, asked, inbox, panel>>

CallMined ==
  /\ call.stage = "wait" /\ call' = NoCall
  /\ UNCHANGED <<page, acting, moves, provider, asked, inbox, panel, card>>

StopActing ==
  /\ IsCallPage(page) /\ acting /\ acting' = FALSE
  /\ UNCHANGED <<page, moves, provider, asked, inbox, panel, function>>

Next ==
  \/ \E k \in {"read", "write"} : OpenPanel(k) \/ SwitchTab(k)
  \/ LeavePanel
  \/ Inject \/ WalletAnswers
  \/ \E a \in Accounts \cup {None} : PromptAnswered(a) \/ SwitchAccount(a)
  \/ Receive \/ RequestTimeout \/ PollTick
  \/ ConnectWallet \/ CancelConnect \/ DisconnectWallet
  \/ \E v \in Inputs : Type(v)
  \/ SubmitCall \/ CallReturns \/ CallFails \/ CallSent \/ CallMined
  \/ StopActing

Spec == Init /\ [][Next]_wpVars

-----------------------------------------------------------------------------
(* Properties *)

Quiet == asked = <<>> /\ inbox = <<>>

\* Address.tsx:168-254.  Once the wallet and the page have nothing more to say to
\* each other, an address page that listens to the wallet, and whose user has
\* not disconnected, shows the wallet's account; or none, when the read of its
\* mount or of connecting was the last that came, and failed.
AccountShownIsSelected ==
  IsCallPage(page) /\ listens /\ Quiet /\ ~manual =>
    wallet = account \/ (wallet = None /\ failed)

-----------------------------------------------------------------------------
(* The inductive invariant *)

Kinds == {"mount", "poll", "connect", "request", "stale"}
Messages == [kind : Kinds \cup {"accountsChanged"}, account : Accounts \cup {None, Failed}]

PanelTypeOK ==
  /\ asked \in Seq(Kinds \cup {"revoke"}) /\ inbox \in Seq(Messages)
  /\ account \in Accounts \cup {None} /\ manual \in BOOLEAN
  /\ injected \in BOOLEAN /\ listens \in BOOLEAN /\ failed \in BOOLEAN

ChangeUntold == \E i \in DOMAIN inbox : inbox[i].kind = "accountsChanged"

\* A message to a page that listens, and that no change is behind, tells the
\* account of the wallet, or that its read failed.
MessagesCurrent ==
  listens =>
    \A i \in DOMAIN inbox :
      (\A j \in DOMAIN inbox : j > i => inbox[j].kind # "accountsChanged") =>
        \/ inbox[i].account = account
        \/ inbox[i].account = Failed /\ inbox[i].kind \in {"mount", "connect", "poll"}

\* A page that has mounted, or connects, reads the account in any case.
ReadUnderWay ==
  \/ \E i \in DOMAIN asked : asked[i] \in {"mount", "connect"}
  \/ \E i \in DOMAIN inbox : inbox[i].kind \in {"mount", "connect"}

\* Unless it is about to hear of a change, a page that listens shows the account,
\* or shows none and is about to read it, or has failed to.
WalletFollows ==
  IsCallPage(page) /\ listens /\ ~manual /\ ~ChangeUntold =>
    wallet = account \/ (wallet = None /\ (ReadUnderWay \/ failed))

PanelInv == PanelTypeOK /\ MessagesCurrent /\ WalletFollows
=============================================================================
