----------------------------- MODULE WritePages -----------------------------
(***************************************************************************)
(* The pages of the single-page application that write something: the      *)
(* verification form, the functions of a contract, the linked addresses.   *)
(* The router (App.tsx) mounts one page at a time; they share the route    *)
(* and whether the tab views as another user.  What a page has started     *)
(* goes on when another is mounted, and an import may then change the      *)
(* route under it.                                                         *)
(***************************************************************************)
EXTENDS Naturals, FiniteSets, Sequences

CONSTANTS Addresses, FileNames, Contents, Compilers, StartsWith, Artifacts,
          Selections, MaxReads, Edited,
          Accounts, Inputs, MaxQueue, MaxSwitches,
          Users, MaxLinks, MaxDeletes,
          \* bounds: how far into the inputs of the user each page still takes one
          MaxFormMoves, MaxPanelMoves, MaxLinkMoves

ASSUME WritePagesAssumption ==
  /\ MaxFormMoves \in Nat /\ MaxPanelMoves \in Nat /\ MaxLinkMoves \in Nat
  /\ Selections \subseteq [FileNames -> Seq(Contents)]
  /\ "" \notin FileNames \cup Inputs
  /\ "null" \notin Accounts \cup Users /\ "error" \notin Accounts

VARIABLES page, acting, moves,
          method, form, files, batches, artifact, hfFile, hfReads, mutation, checked, fetch,
          injected, account, switches, prompt, asked, inbox, listens, wallet, manual,
          connect, pending, polling, failed, card, call,
          selected, user, linked, shown, fresh, listing, listError, linking, linkError,
          confirm, unlinking, missed, links, deletes

Form == INSTANCE VerifyForm WITH MaxMoves <- MaxFormMoves
Panel == INSTANCE WritePanel WITH MaxMoves <- MaxPanelMoves
Links == INSTANCE LinkedWallets WITH MaxMoves <- MaxLinkMoves

formVars == <<method, form, files, batches, artifact, hfFile, hfReads, mutation, checked, fetch>>
panelVars == <<injected, account, switches, prompt, asked, inbox, listens, wallet, manual,
               connect, pending, polling, failed, card, call>>
linkVars == <<selected, user, linked, shown, fresh, listing, listError, linking,
              linkError, confirm, unlinking, missed, links, deletes>>
vars == <<page, acting, moves, formVars, panelVars, linkVars>>

\* One wallet: an address page that is authorised is given its selected account.
Init == Form!Init /\ Panel!Init /\ Links!Init /\ account \in {Panel!None, selected}

\* A page that is neither the panel nor the dashboard has nothing of theirs to unmount.
Elsewhere == page[1] \notin {"call", "dashboard"}

UnmountPanel ==
  /\ Panel!Unmounted /\ asked' = <<>> /\ listens' = FALSE /\ UNCHANGED <<injected, account>>
UnmountLinks ==
  /\ Links!NewView /\ links' = Links!Disown(links) /\ deletes' = Links!Disown(deletes)
  /\ UNCHANGED <<selected, user, linked, shown, fresh, listing, listError, missed>>

\* The onSuccess of an import navigates away from whatever page is mounted.
PulledAway(p) ==
  /\ ~Elsewhere /\ Form!Imported(p)
  /\ IF page[1] = "call" THEN UnmountPanel /\ UNCHANGED linkVars
                         ELSE UnmountLinks /\ UNCHANGED panelVars

FormStep == Form!FormNext /\ (Elsewhere \/ page' = page) /\ UNCHANGED <<panelVars, linkVars>>
PanelStep == Panel!Next /\ UNCHANGED <<formVars, linkVars>>
LinksStep == Links!Next /\ UNCHANGED <<acting, formVars, panelVars>>
Home == Form!Home /\ page[1] = "address" /\ UNCHANGED <<panelVars, linkVars>>

Next == FormStep \/ PanelStep \/ LinksStep \/ Home \/ \E p \in fetch : PulledAway(p)

Spec == Init /\ [][Next]_vars

-----------------------------------------------------------------------------
(* The properties of the pages, along their composition *)

\* ContractVerification.tsx:221-229, 312-344.  The main file of the multi-part
\* form, and of its requests, is one of the files listed, or sent.
MultiPartWhole == Form!MultiPartWhole

\* ContractVerification.tsx:220-223, 331-335.  A file that stays in the list is
\* sent with the content it had: none that is read later takes its place.
ListedFilesKeep == [][Form!ListedKept]_vars

\* Address.tsx:168-254.  With nothing under way between page and wallet, an
\* address page that listens shows the wallet's account, unless its user has
\* disconnected, or none, if the read it showed it by has failed.
AccountShownIsSelected == Panel!AccountShownIsSelected

\* A list shown as fetched, with nothing under way or missed, is the server's.
ListCurrent == Links!ListCurrent

-----------------------------------------------------------------------------
\* The inductive invariant of the three pages; they share no part of it.
WriteInv == Form!FormInv /\ Links!ListInv /\ Panel!PanelInv
=============================================================================
