--------------------------- MODULE LinkedWallets ----------------------------
(***************************************************************************)
(* The linked addresses of the dashboard (components/LinkedAddresses.tsx,  *)
(* hooks/useLinkedAddresses.ts): a wallet is linked by signing a challenge *)
(* of the server, and unlinked after a confirmation.  The wallet and the   *)
(* server are external.  A sequence of awaits goes on when its card is     *)
(* gone, only its setState calls are lost; meanwhile the user may switch   *)
(* accounts or sign in as another user in another tab.                     *)
(***************************************************************************)
EXTENDS Naturals, FiniteSets

CONSTANTS Accounts,  \* the wallet's accounts
          Users,     \* users that may be signed in in this browser
          MaxMoves,  \* bound: inputs of the user
          MaxLinks,  \* bound: link sequences under way
          MaxDeletes \* bound: DELETEs under way

None == "null"
NoList == [of |-> None, addresses |-> {}]
Asked == [of |-> "asked", addresses |-> {}]

VARIABLES page,      \* <<"dashboard">> while the card is mounted
          moves,     \* inputs of the user (for the bound)
          selected,  \* wallet: the selected account
          user,      \* the user the session cookie is of
          linked,    \* server: the addresses of link type user
          shown,     \* query cache, ['linkedAddresses']: [of, addresses], or NoList
          fresh,     \* that entry is neither invalidated nor older than staleTime
          listing,   \* its fetch: NoList, Asked, or the answer under way
          listError, \* its last fetch failed (retry: false)
          linking, linkError, confirm, unlinking,   \* state of the mounted card
          missed,    \* ghost: a change the list was not fetched again for
          links,     \* handleLink sequences: [own, id, stage, signer, user]
          deletes    \* DELETEs: [own, id, address, done]

list == <<shown, fresh, listing, listError, missed>>
view == <<linking, linkError, confirm, unlinking>>
world == <<page, selected, user>>
lwVars == <<world, moves, linked, list, view, links, deletes>>

OnPage == page = <<"dashboard">>
Rows == shown.addresses
\* Loading, the error, or the card with its controls.
CardShown == OnPage /\ shown # NoList /\ ~listError

Init ==
  /\ page = <<"home">> /\ moves = 0 /\ selected \in Accounts /\ user \in Users
  /\ linked = [u \in Users |-> {selected}]
  /\ shown = NoList /\ fresh = FALSE /\ listing = NoList /\ listError = FALSE /\ missed = FALSE
  /\ linking = FALSE /\ linkError = FALSE /\ confirm = None /\ unlinking = None
  /\ links = {} /\ deletes = {}

NewView == linking' = FALSE /\ linkError' = FALSE /\ confirm' = None /\ unlinking' = None
NewId(S) == CHOOSE i \in 1 .. (Cardinality(S) + 1) : \A s \in S : s.id # i
Disown(S) == {[s EXCEPT !.own = FALSE] : s \in S}

Move == moves < MaxMoves /\ moves' = moves + 1

OpenList ==
  /\ page = <<"home">> /\ page' = <<"dashboard">> /\ Move
  /\ listing' = IF fresh \/ listing # NoList THEN listing ELSE Asked
  /\ NewView
  /\ UNCHANGED <<selected, user, linked, shown, fresh, listError, missed, links, deletes>>

CloseList ==
  /\ OnPage /\ page' = <<"home">> /\ Move
  /\ NewView /\ links' = Disown(links) /\ deletes' = Disown(deletes)
  /\ UNCHANGED <<selected, user, linked, list>>

Input == CardShown /\ Move

\* Mutant: refetch() of the mounted card instead.
RefetchMounted ==
  /\ listing' = IF OnPage THEN Asked ELSE listing
  /\ missed' = (missed \/ (~OnPage /\ listing # NoList))
  /\ UNCHANGED <<shown, fresh, listError>>

\* invalidateQueries: stale, and under the mounted card fetched anew, whatever
\* fetch is under way; without the card a fetch under way is left to finish, and
\* its answer counts as fresh.
Invalidate ==
  /\ fresh' = FALSE /\ listing' = IF OnPage THEN Asked ELSE listing
  /\ missed' = (missed \/ (~OnPage /\ listing # NoList))
  /\ UNCHANGED <<shown, listError>>

ServerLists ==
  /\ listing = Asked /\ listing' = [of |-> user, addresses |-> linked[user]] /\ missed' = FALSE
  /\ UNCHANGED <<world, moves, linked, shown, fresh, listError, view, links, deletes>>

Listed ==
  /\ listing \notin {NoList, Asked}
  /\ shown' = listing /\ fresh' = TRUE /\ listing' = NoList /\ listError' = FALSE
  /\ UNCHANGED <<world, moves, linked, missed, view, links, deletes>>

ListFails ==
  /\ listing = Asked /\ listing' = NoList /\ listError' = TRUE
  /\ UNCHANGED <<world, moves, linked, shown, fresh, missed, view, links, deletes>>

Expire ==
  /\ fresh /\ fresh' = FALSE
  /\ UNCHANGED <<world, moves, linked, shown, listing, listError, missed, view, links, deletes>>

-----------------------------------------------------------------------------
(* Linking: accounts, challenge, signature, verification, invalidation *)

NewLink == [own |-> TRUE, id |-> NewId(links), stage |-> "accounts", signer |-> None, user |-> None]

HandleLink ==
  /\ Input /\ ~linking /\ Cardinality(links) < MaxLinks
  /\ linkError' = FALSE /\ linking' = TRUE /\ links' = links \cup {NewLink}
  /\ UNCHANGED <<world, linked, list, confirm, unlinking, deletes>>

Advance(s, t) ==
  /\ links' = (links \ {s}) \cup {t}
  /\ UNCHANGED <<world, moves, list, view, deletes>>

AccountsGiven(s) ==
  /\ s.stage = "accounts" /\ UNCHANGED linked
  /\ Advance(s, [s EXCEPT !.stage = "challenge", !.signer = selected])

ChallengeGiven(s) ==
  /\ s.stage = "challenge" /\ UNCHANGED linked
  /\ Advance(s, [s EXCEPT !.stage = "sign", !.user = user])

\* personal_sign [message, signerAddress]: signed with the key of that address,
\* whichever account the wallet has selected by then.
Signed(s) ==
  /\ s.stage = "sign" /\ UNCHANGED linked
  /\ Advance(s, [s EXCEPT !.stage = "verify"])

\* The server takes the claim of the user the challenge was made for.
ServerLinks(s) ==
  /\ s.stage = "verify" /\ s.user = user
  /\ linked' = [linked EXCEPT ![user] = @ \cup {s.signer}]
  /\ Advance(s, [s EXCEPT !.stage = "done"])

\* finally: linking ends, if the card it belongs to is still there.
Finish(s, failed) ==
  /\ links' = links \ {s}
  /\ linking' = (linking /\ ~s.own)
  /\ linkError' = (linkError \/ (failed /\ s.own))
  /\ UNCHANGED <<world, moves, linked, confirm, unlinking, deletes>>

LinkDone(s) == s.stage = "done" /\ Invalidate /\ Finish(s, FALSE)

\* A refusal by the wallet or the server, or a lost answer.
LinkFails(s) ==
  /\ Finish(s, TRUE) /\ missed' = (missed \/ s.stage = "done")
  /\ UNCHANGED <<shown, fresh, listing, listError>>

-----------------------------------------------------------------------------
(* Unlinking *)

\* The button of a row: the first click asks for the confirmation.
AskUnlink(a) ==
  /\ Input /\ a \in Rows /\ unlinking # a /\ confirm # a
  /\ confirm' = a
  /\ UNCHANGED <<world, linked, list, linking, linkError, unlinking, links, deletes>>

CancelUnlink ==
  /\ Input /\ confirm # None /\ confirm' = None
  /\ UNCHANGED <<world, linked, list, linking, linkError, unlinking, links, deletes>>

\* Confirm, or the button of the row a second time.
HandleUnlink(a) ==
  /\ Input /\ confirm = a /\ Cardinality(deletes) < MaxDeletes
  /\ confirm' = None /\ unlinking' = a
  /\ deletes' = deletes \cup {[own |-> TRUE, id |-> NewId(deletes), address |-> a, done |-> FALSE]}
  /\ UNCHANGED <<world, linked, list, linking, linkError, links>>

ServerUnlinks(d) ==
  /\ ~d.done /\ d.address \in linked[user]
  /\ linked' = [linked EXCEPT ![user] = @ \ {d.address}]
  /\ deletes' = (deletes \ {d}) \cup {[d EXCEPT !.done = TRUE]}
  /\ UNCHANGED <<world, moves, list, view, links>>

\* finally: setUnlinking(null), whichever address it names by now.
Settle(d, failed) ==
  /\ deletes' = deletes \ {d}
  /\ unlinking' = IF d.own THEN None ELSE unlinking
  /\ linkError' = (linkError \/ (failed /\ d.own))
  /\ UNCHANGED <<world, moves, linked, linking, confirm, links>>

Unlinked(d) == d.done /\ Invalidate /\ Settle(d, FALSE)
UnlinkFails(d) ==
  /\ Settle(d, TRUE) /\ missed' = (missed \/ d.done)
  /\ UNCHANGED <<shown, fresh, listing, listError>>

DismissError ==
  /\ Input /\ linkError /\ linkError' = FALSE
  /\ UNCHANGED <<world, linked, list, linking, confirm, unlinking, links, deletes>>

-----------------------------------------------------------------------------
\* The world: another account in the wallet, another session in the browser.
SwitchSelected(a) ==
  /\ Input /\ a # selected /\ selected' = a
  /\ UNCHANGED <<page, user, linked, list, view, links, deletes>>

SignInElsewhere(u) ==
  /\ Input /\ u # user /\ user' = u
  /\ UNCHANGED <<page, selected, linked, list, view, links, deletes>>

Next ==
  \/ OpenList \/ CloseList
  \/ ServerLists \/ Listed \/ ListFails \/ Expire
  \/ HandleLink \/ CancelUnlink \/ DismissError
  \/ \E s \in links : \/ AccountsGiven(s) \/ ChallengeGiven(s) \/ Signed(s)
                      \/ ServerLinks(s) \/ LinkDone(s) \/ LinkFails(s)
  \/ \E a \in Accounts : AskUnlink(a) \/ HandleUnlink(a) \/ SwitchSelected(a)
  \/ \E d \in deletes : ServerUnlinks(d) \/ Unlinked(d) \/ UnlinkFails(d)
  \/ \E u \in Users : SignInElsewhere(u)

Spec == Init /\ [][Next]_lwVars

-----------------------------------------------------------------------------
(* Properties *)

\* A list that is shown as fetched, with no change of it and no fetch under way
\* and none missed, is the server's list of the user it was
\* fetched for: every sequence, its card gone or not, has it fetched again.
ListCurrent ==
  CardShown /\ ~missed /\ fresh /\ listing = NoList /\ links = {} /\ deletes = {} =>
    shown.addresses = linked[shown.of]

-----------------------------------------------------------------------------
(* The inductive invariant *)

SequencesShape ==
  /\ \A s \in links : DOMAIN s = {"own", "id", "stage", "signer", "user"}
  /\ \A d \in deletes : DOMAIN d = {"own", "id", "address", "done"}

\* No sequence has changed the list at the server and not yet said so.
NothingDone == (\A s \in links : s.stage # "done") /\ (\A d \in deletes : ~d.done)

\* A list that is being fetched is not fresh.
FetchedWhenStale == listing # NoList => ~fresh

\* With no change missed or untold, the answer under way and the fresh list
\* are those of the server.
AnswerCurrent ==
  NothingDone /\ ~missed /\ listing \notin {NoList, Asked} =>
    listing.addresses = linked[listing.of]
FreshCurrent ==
  NothingDone /\ ~missed /\ fresh /\ shown # NoList => shown.addresses = linked[shown.of]

ListInv == SequencesShape /\ FetchedWhenStale /\ AnswerCurrent /\ FreshCurrent
=============================================================================
