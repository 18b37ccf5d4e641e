--------------------------- MODULE NetworkButton ----------------------------
(***************************************************************************)
(* "Add Network" (components/AddNetworkButton.tsx, lib/metamask.ts,        *)
(* hooks/useNetworkButton.ts): the button follows the chain the wallet is  *)
(* on, and adds the explorer's chain to it, through a dialog in privacy    *)
(* mode.  The wallet is external: it answers and reports over one channel, *)
(* in order.                                                               *)
(***************************************************************************)
EXTENDS Naturals, Sequences, FiniteSets

CONSTANTS Chains,       \* chain ids; "" is none
          BackendChain, \* what /chain-info says
          ConfigChain,  \* VITE_CHAIN_ID, or ""
          MaxMoves,     \* bound: inputs of the user
          MaxQueue,     \* bound: messages of the wallet under way
          MaxAdds       \* bound: additions under way

None == "null"

VARIABLES location, moves, \* of the shell; a click leaves the route alone
          privacyEnabled,  \* what /stats has said, FALSE before it answers
          installed,       \* window.ethereum is there
          chain,           \* wallet: the chain it is on
          known,           \* query cache, ['chainInfo']: a chain id, or None
          loading,         \* its first fetch is under way
          target,          \* what the wallet is watched for
          inbox,           \* wallet to page: [for, chain], for "change" or the watcher that asked
          unread,          \* watchers whose eth_chainId the wallet has not answered
          state,           \* what the button shows
          blind,           \* ghost: the last read failed
          dialogOpen, adding, \* state of the button, and of its dialog
          adds             \* additions under way: [from, own, id, stage, chain]

walletVars == <<chain, inbox, unread>>
watchVars == <<known, loading, target, state, blind>>
addVars == <<dialogOpen, adding, adds>>
buttonVars == <<installed, walletVars, watchVars, addVars>>

ResolveChainIdHex(info) == IF info # None THEN info ELSE ConfigChain

DeriveNetworkButtonState(t, c) ==
  CASE c = None -> "no-wallet"
    [] c # None /\ c = t -> "active"
    [] OTHER -> "not-added"

\* Mutant: the wallet is asked once, the event is trusted for the rest.
WatchOnly(t) == target' = t /\ UNCHANGED <<state, unread>>

\* Subscribing asks at once for the chain the wallet is on; without a wallet it says so.
WatchNetworkState(t) ==
  /\ target' = t
  /\ IF installed THEN unread' = Append(unread, t) /\ UNCHANGED state
                  ELSE state' = "no-wallet" /\ UNCHANGED unread

Init ==
  /\ installed \in BOOLEAN /\ chain \in Chains
  /\ known = None /\ loading = TRUE
  /\ target = ConfigChain /\ state = "no-wallet" /\ blind = FALSE
  /\ inbox = <<>> /\ unread = IF installed THEN <<ConfigChain>> ELSE <<>>
  /\ dialogOpen = FALSE /\ adding = FALSE /\ adds = {}

Move == moves < MaxMoves /\ moves' = moves + 1
Still == UNCHANGED <<location, privacyEnabled, installed, moves>>

\* useQuery(['chainInfo']), and the effect on the target it gives.
ChainInfoAnswered ==
  /\ loading /\ loading' = FALSE /\ known' = BackendChain
  /\ IF ResolveChainIdHex(known') = target THEN UNCHANGED <<target, unread, state>>
     ELSE Len(unread) < MaxQueue /\ WatchNetworkState(ResolveChainIdHex(known'))
  /\ UNCHANGED <<chain, inbox, blind, addVars>> /\ Still

ChainInfoFails ==
  /\ loading /\ loading' = FALSE
  /\ UNCHANGED <<known, target, state, blind, walletVars, addVars>> /\ Still

-----------------------------------------------------------------------------
(* The wallet *)

WalletReads ==
  /\ unread # <<>> /\ Len(inbox) < MaxQueue
  /\ \E c \in {chain, None} : inbox' = Append(inbox, [for |-> Head(unread), chain |-> c])
  /\ unread' = Tail(unread)
  /\ UNCHANGED <<chain, watchVars, addVars>> /\ Still

Reported(c) == IF c = chain THEN inbox ELSE Append(inbox, [for |-> "change", chain |-> c])

SwitchChain(c) ==
  /\ installed /\ c # chain /\ Move /\ Len(inbox) < MaxQueue
  /\ chain' = c /\ inbox' = Reported(c)
  /\ UNCHANGED <<location, privacyEnabled, installed, unread, watchVars, addVars>>

\* A prompt is approved, and the wallet moves to the chain it has added, or refused.
PromptAnswered(a, ok) ==
  /\ a.stage = "prompt" /\ Len(inbox) < MaxQueue
  /\ chain' = IF ok THEN a.chain ELSE chain
  /\ inbox' = IF ok THEN Reported(a.chain) ELSE inbox
  /\ adds' = (adds \ {a}) \cup {[a EXCEPT !.stage = IF ok THEN "added" ELSE "refused"]}
  /\ UNCHANGED <<unread, watchVars, dialogOpen, adding>> /\ Still

-----------------------------------------------------------------------------
(* The page *)

\* emit: the answer to a watcher, also one that has unsubscribed, or an event of
\* the one subscribed.  An active button has no dialog: its state is lost, and
\* whether it is open is kept.
Receive ==
  /\ inbox # <<>> /\ inbox' = Tail(inbox)
  /\ LET msg == Head(inbox)
         t == IF msg.for = "change" THEN target ELSE msg.for
     IN /\ state' = DeriveNetworkButtonState(t, msg.chain)
        /\ blind' = (msg.chain = None)
  /\ IF state' # "active" THEN UNCHANGED <<adding, adds>>
     ELSE adding' = FALSE /\ adds' = {[a EXCEPT !.own = FALSE] : a \in adds}
  /\ UNCHANGED <<chain, unread, known, loading, target, dialogOpen>> /\ Still

DialogShown == dialogOpen /\ privacyEnabled /\ state # "active"
NewId == CHOOSE i \in 1 .. (Cardinality(adds) + 1) : \A a \in adds : a.id # i
Start(from, stage, c) ==
  /\ Cardinality(adds) < MaxAdds
  /\ adds' = adds \cup {[from |-> from, own |-> TRUE, id |-> NewId, stage |-> stage, chain |-> c]}

\* A click: the dialog in privacy mode, else the network of the node; without a
\* wallet only an alert.
Click ==
  /\ state # "active" /\ ~DialogShown /\ Move
  /\ IF privacyEnabled THEN dialogOpen' = TRUE /\ UNCHANGED adds
     ELSE /\ IF installed THEN Start("button", "info", None) ELSE UNCHANGED adds
          /\ UNCHANGED dialogOpen
  /\ UNCHANGED <<location, privacyEnabled, installed, walletVars, watchVars, adding>>

CloseDialog ==
  /\ DialogShown /\ Move /\ dialogOpen' = FALSE
  /\ UNCHANGED <<location, privacyEnabled, installed, walletVars, watchVars, adding, adds>>

\* The button of the dialog: disabled while it adds, and without a chain id.
HandleAdd ==
  /\ DialogShown /\ ~adding /\ ResolveChainIdHex(known) # "" /\ Move
  /\ IF installed
     THEN Start("dialog", IF known = None THEN "info" ELSE "prompt", known) /\ adding' = TRUE /\ UNCHANGED dialogOpen
     ELSE dialogOpen' = FALSE /\ UNCHANGED <<adding, adds>>
  /\ UNCHANGED <<location, privacyEnabled, installed, walletVars, watchVars>>

\* The end of an addition of the dialog closes it, unless it threw; the dialog
\* that waits for it does so no longer.
Ended(a, closes) ==
  /\ adds' = adds \ {a}
  /\ adding' = (adding /\ ~(a.from = "dialog" /\ a.own))
  /\ dialogOpen' = (dialogOpen /\ ~(closes /\ a.from = "dialog"))

\* fetchChainInfo: the backend's chain, or the configured one; an alert without any.
InfoFetched(a, info) ==
  /\ a.stage = "info"
  /\ LET c == ResolveChainIdHex(info)
     IN IF c = "" THEN Ended(a, TRUE)
        ELSE /\ adds' = (adds \ {a}) \cup {[a EXCEPT !.stage = "prompt", !.chain = c]}
             /\ UNCHANGED <<dialogOpen, adding>>
  /\ UNCHANGED <<walletVars, watchVars>> /\ Still

AddDone(a) ==
  /\ a.stage \in {"added", "refused"} /\ Ended(a, a.stage = "added")
  /\ UNCHANGED <<walletVars, watchVars>> /\ Still

AddFlow ==
  \/ Click \/ CloseDialog \/ HandleAdd
  \/ \E a \in adds : AddDone(a) \/ \E info \in {BackendChain, None} : InfoFetched(a, info)
WatchFlow ==
  \/ ChainInfoAnswered \/ ChainInfoFails \/ WalletReads \/ Receive
  \/ \E c \in Chains : SwitchChain(c)
  \/ \E a \in adds, ok \in BOOLEAN : PromptAnswered(a, ok)

-----------------------------------------------------------------------------
Settled == inbox = <<>> /\ unread = <<>>

\* With nothing under way between page and wallet the button shows whether the
\* wallet is on the explorer's chain, unless the last read failed.
ButtonAgreesWithWallet ==
  Settled /\ ~blind => state = DeriveNetworkButtonState(ResolveChainIdHex(known), IF installed THEN chain ELSE None)

-----------------------------------------------------------------------------
(* The inductive invariant *)

Ids == Chains \cup {ConfigChain}
Additions == [from : {"button", "dialog"}, own : BOOLEAN, id : Nat,
              stage : {"info", "prompt", "added", "refused"}, chain : Ids \cup {None}]

ButtonTypeOK ==
  /\ installed \in BOOLEAN /\ chain \in Ids /\ target \in Ids /\ known \in {None, BackendChain}
  /\ unread \in Seq(Ids) /\ inbox \in Seq([for : Ids \cup {"change"}, chain : Ids \cup {None}])
  /\ adds \subseteq Additions /\ IsFiniteSet(adds)
  /\ \A a \in adds : a.stage = "prompt" => a.chain # None

\* The wallet is watched for the chain the page knows.
TargetIsKnown == target = ResolveChainIdHex(known)

NoWalletIsQuiet ==
  ~installed => unread = <<>> /\ inbox = <<>> /\ adds = {} /\ state = "no-wallet"

\* The last watcher is of the target; once it is answered the last message is,
\* or is a change, and tells the chain the wallet is on, or failed to; once that
\* is received the button shows it.
LastWordIsOfTheWallet ==
  installed =>
    IF unread # <<>> THEN unread[Len(unread)] = target
    ELSE IF inbox # <<>>
    THEN /\ inbox[Len(inbox)].for \in {"change", target}
         /\ inbox[Len(inbox)].chain \in {chain, None}
    ELSE blind \/ state = DeriveNetworkButtonState(target, chain)

ButtonInv ==
  ButtonTypeOK /\ TargetIsKnown /\ NoWalletIsQuiet /\ LastWordIsOfTheWallet
=============================================================================
