------------------------------- MODULE Shell --------------------------------
(***************************************************************************)
(* What surrounds every page (components/Layout.tsx, NavDropdown.tsx,      *)
(* NetworkMenu.tsx, lib/auth.tsx, lib/features.ts): the menus and their    *)
(* links, gated by the configured mode and by what the backend says of     *)
(* itself; the search field, of the home page or of the menu on a small    *)
(* screen; the network button; signing in and out.                         *)
(***************************************************************************)
EXTENDS Naturals, FiniteSets, Sequences

CONSTANTS Texts, Matches, Direct, MaxAsked,
          Chains, BackendChain, ConfigChain, MaxQueue, MaxAdds,
          BasePath,   \* VITE_BASE_PATH, or ""
          Listed,     \* featured-networks.json: [url, http]
          MaxBoxMoves, MaxButtonMoves, MaxNavMoves \* bounds: inputs each part still takes

ASSUME ShellAssumption ==
  /\ MaxBoxMoves \in Nat /\ MaxButtonMoves \in Nat /\ MaxNavMoves \in Nat
  /\ BackendChain \in Chains \ {""} /\ "null" \notin Chains \cup {ConfigChain}
  /\ \A t \in Texts \ {""} : Matches[t] \in Seq([type : STRING, value : STRING])

VARIABLES location, moves,
          search, suggestions, showSuggestions, selectedIndex, timer, asked,
          overtaken, failed, highlighted,
          installed, chain, known, loading, target, inbox, unread, state, blind,
          dialogOpen, adding, adds,
          privacyMode,    \* VITE_PRIVACY_MODE, of the deployment
          private,        \* the backend is one of privacy mode
          privacyEnabled, \* what /stats has said of it
          asking,         \* first answers still to come: subset of Asks
          gasPrices,      \* the poll of the header: "none", "asked", "shown"
          small,          \* the menu of small screens stands for the other ones
          theme,          \* stored and shown
          mobileMenuOpen, openMenus, \* menus that are open
          networks,       \* the networks offered
          session,        \* server: the cookies are of a user
          authenticated, signingOut

Asks == {"stats", "status", "networks"}

Box == INSTANCE SearchBox WITH MaxMoves <- MaxBoxMoves
Button == INSTANCE NetworkButton WITH MaxMoves <- MaxButtonMoves

boxVars == <<search, suggestions, showSuggestions, selectedIndex, timer, asked,
             overtaken, failed, highlighted>>
buttonVars == <<installed, chain, known, loading, target, inbox, unread, state, blind,
                dialogOpen, adding, adds>>
mode == <<privacyMode, private, small>>
fetched == <<privacyEnabled, asking, gasPrices, networks>>
menus == <<mobileMenuOpen, openMenus>>
signedIn == <<session, authenticated, signingOut>>
vars == <<location, moves, boxVars, buttonVars, theme, mode, fetched, menus, signedIn>>

Init ==
  /\ location = <<"/">> /\ moves = 0 /\ Box!Init /\ Button!Init
  /\ privacyMode \in BOOLEAN /\ private \in BOOLEAN /\ small \in BOOLEAN
  /\ privacyEnabled = FALSE /\ asking = Asks /\ gasPrices = "none" /\ networks = {}
  /\ theme = "light" /\ mobileMenuOpen = FALSE /\ openMenus = {}
  /\ session \in BOOLEAN /\ authenticated = FALSE /\ signingOut = FALSE

Move == moves < MaxNavMoves /\ moves' = moves + 1

-----------------------------------------------------------------------------
(* Gates and links *)

Features == [f \in {"contractVerification", "charts", "gasTracker"} |-> ~privacyMode]

BlockchainItems ==
  {"/blocks", "/transactions", "/accounts", "/chain-info"}
    \cup {l \in {"/gas-tracker"} : Features["gasTracker"]}
    \cup {l \in {"/verify"} : Features["contractVerification"]}
TokenItems == {"/tokens", "/token-transfers"}
MobileNavItems ==
  BlockchainItems \cup TokenItems \cup {"/api-docs", "/privacy"} \cup {l \in {"/stats"} : Features["charts"]}
MobileLinks == {l \in MobileNavItems : mobileMenuOpen /\ (l # "/privacy" \/ privacyEnabled)}
HeaderLinks == {"/"} \cup {l \in {"/gas-tracker"} : gasPrices = "shown"}
FooterLinks ==
  {"/", "/blocks", "/tokens", "/transactions", "/token-transfers", "/accounts"}
    \cup {l \in {"/gas-tracker"} : Features["gasTracker"]}
    \cup {l \in {"/verify"} : Features["contractVerification"]}
AuthLinks == {l \in {"/privacy"} : privacyEnabled /\ authenticated}

NavLinks ==
  {"/api-docs"} \cup {l \in {"/stats"} : Features["charts"]}
    \cup UNION {CASE m = "Blockchain" -> BlockchainItems [] m = "Tokens" -> TokenItems
                  [] m = "auth" -> AuthLinks [] OTHER -> {} : m \in openMenus}

Links ==
  HeaderLinks \cup FooterLinks \cup (IF small THEN {} ELSE NavLinks)
    \cup MobileLinks

\* Other explorers, when there are several: in a menu, or in that of a small screen.
Switcher == IF Cardinality(networks) < 2 THEN {} ELSE networks
NetworkLinks == {n \in Switcher : "networks" \in openMenus}
MobileNetworkLinks == {n \in Switcher : mobileMenuOpen}

\* Pages that say the feature is not there, or ask for a login the backend has not.
Unavailable ==
  {l \in {"/verify"} : ~Features["contractVerification"]}
    \cup {l \in {"/stats"} : ~Features["charts"]}
    \cup {l \in {"/gas-tracker"} : ~Features["gasTracker"]}
    \cup {l \in {"/privacy"} : ~private}

-----------------------------------------------------------------------------
(* What is fetched for the shell *)

Answered(a) == a \in asking /\ asking' = asking \ {a}

\* Mutant: no answer counts as an answer.
StatsPresumed ==
  /\ Answered("stats") /\ \E ok \in BOOLEAN : privacyEnabled' = (~ok \/ private)
  /\ UNCHANGED <<location, moves, boxVars, buttonVars, theme, mode, gasPrices, networks, menus, signedIn>>

StatsAnswered ==
  /\ Answered("stats") /\ \E ok \in BOOLEAN : privacyEnabled' = (ok /\ private)
  /\ UNCHANGED <<location, moves, boxVars, buttonVars, theme, mode, gasPrices, networks, menus, signedIn>>

NetworksLoaded ==
  /\ Answered("networks") /\ networks' \in {{}, {n \in Listed : n.http}}
  /\ UNCHANGED <<location, moves, boxVars, buttonVars, theme, mode, privacyEnabled, gasPrices, menus, signedIn>>

PollGas ==
  /\ Features["gasTracker"] /\ ~privacyEnabled /\ gasPrices = "none" /\ gasPrices' = "asked"
  /\ UNCHANGED <<location, moves, boxVars, buttonVars, theme, mode, privacyEnabled, asking, networks, menus, signedIn>>

\* A backend in privacy mode answers 404, which is not tried again.
GasAnswered ==
  /\ gasPrices = "asked" /\ gasPrices' = IF private THEN "none" ELSE "shown"
  /\ UNCHANGED <<location, moves, boxVars, buttonVars, theme, mode, privacyEnabled, asking, networks, menus, signedIn>>

\* checkStatus, once: a failure counts as signed out.
CheckStatus ==
  /\ Answered("status") /\ \E ok \in BOOLEAN : authenticated' = (ok /\ session)
  /\ UNCHANGED <<location, moves, boxVars, buttonVars, theme, mode, privacyEnabled, gasPrices, networks,
                 menus, session, signingOut>>

Fetches == StatsAnswered \/ NetworksLoaded \/ PollGas \/ GasAnswered \/ CheckStatus

-----------------------------------------------------------------------------
(* Menus *)

AuthMenu == {m \in {"auth"} : privacyEnabled /\ authenticated}
Menus == {"Blockchain", "Tokens", "settings"} \cup AuthMenu \cup {m \in {"networks"} : Switcher # {}}

Quiet == UNCHANGED <<boxVars, buttonVars, mode, fetched>>

\* A click outside a menu closes it, so a click on another's button does.
ToggleDropdown ==
  /\ ~small /\ Move
  /\ \E m \in Menus : openMenus' = {m} \ openMenus
  /\ Quiet /\ UNCHANGED <<location, theme, mobileMenuOpen, signedIn>>

ClickElsewhere ==
  /\ openMenus # {} /\ Move /\ openMenus' = {}
  /\ Quiet /\ UNCHANGED <<location, theme, mobileMenuOpen, signedIn>>

\* The theme is stored and put on the document; its menu stays open.
SetTheme(t) ==
  /\ "settings" \in openMenus /\ t # theme /\ Move /\ theme' = t
  /\ Quiet /\ UNCHANGED <<location, menus, signedIn>>

ToggleMobileMenu ==
  /\ small /\ Move /\ mobileMenuOpen' = ~mobileMenuOpen
  /\ Quiet /\ UNCHANGED <<location, theme, openMenus, signedIn>>

\* A link closes the menus; a new route closes the mobile one in any case, and
\* takes the search field of the home page with it.
Follow(l) ==
  /\ l \in Links /\ l # location[1] /\ Move /\ location' = <<l>>
  /\ openMenus' = {} /\ mobileMenuOpen' = FALSE
  /\ IF small THEN UNCHANGED boxVars
     ELSE /\ Box!Cleared /\ asked' = <<>> /\ selectedIndex' = 0
          /\ overtaken' = FALSE /\ failed' = FALSE /\ highlighted' = <<>>
  /\ UNCHANGED <<buttonVars, theme, mode, fetched, signedIn>>

\* The login of the backend, which is told where to come back to: the base path
\* if there is one, else this page.  The document is left.
SignIn ==
  /\ ~small /\ privacyEnabled /\ ~authenticated /\ Move
  /\ location' = <<"login", IF BasePath # "" THEN BasePath ELSE location[1]>>
  /\ Quiet /\ UNCHANGED <<theme, menus, signedIn>>

\* Signing out: whatever becomes of the request, the page counts as signed out.
Logout ==
  /\ "auth" \in openMenus /\ ~signingOut /\ Move /\ signingOut' = TRUE /\ openMenus' = {}
  /\ Quiet /\ UNCHANGED <<location, theme, mobileMenuOpen, session, authenticated>>

LoggedOut ==
  /\ signingOut /\ signingOut' = FALSE /\ authenticated' = FALSE
  /\ \E ok \in BOOLEAN : session' = (session /\ ~ok)
  /\ openMenus' = openMenus \ {"auth"}
  /\ Quiet /\ UNCHANGED <<location, moves, theme, mobileMenuOpen>>

NavStep ==
  /\ location[1] # "login"
  /\ \/ ToggleDropdown \/ ClickElsewhere \/ ToggleMobileMenu \/ SignIn \/ Logout \/ LoggedOut
     \/ \E l \in Links : Follow(l)
     \/ \E t \in {"light", "dark"} : SetTheme(t)

-----------------------------------------------------------------------------
(* The search field: on the home page, or, on a small screen, in the menu *)

FieldShown == IF small THEN mobileMenuOpen ELSE location = <<"/">>

Suggest == Box!Debounced \/ \E i \in DOMAIN asked : Box!Answered(i) \/ Box!AnswerFails(i)

BarStep ==
  /\ ~small
  /\ \/ Suggest
     \/ /\ FieldShown
        /\ \/ Box!HandleKeyDown \/ Box!HandleSearch(TRUE) \/ Box!ClickOutside \/ Box!Focus
           \/ \E t \in Texts : Box!Type(t)
           \/ Box!Offered /\ \E i \in DOMAIN suggestions : Box!NavigateToSuggestion(i, TRUE)
  /\ UNCHANGED menus

\* The timer and the requests of the menu's copy outlive the menu.
MobileSuggest == Suggest /\ UNCHANGED menus
MobileKeys == Box!HandleKeyDown /\ UNCHANGED menus
MobileType == \E t \in Texts : Box!Type(t) /\ UNCHANGED menus

MobileNavigate(i) ==
  /\ Box!NavigateToSuggestion(i, FALSE)
  /\ mobileMenuOpen' = FALSE /\ UNCHANGED openMenus

\* A search closes the menu; one that leads nowhere just empties the field.
MobileSearch ==
  /\ Box!HandleSearch(FALSE)
  /\ mobileMenuOpen' = FALSE /\ UNCHANGED openMenus

\* Its list shows whenever there is a text and something to suggest.
MobileList == search # "" /\ \E i \in DOMAIN suggestions : MobileNavigate(i)

SearchStep ==
  /\ BarStep \/ (small /\ (MobileSuggest \/ (FieldShown /\ (MobileKeys \/ MobileType \/ MobileSearch \/ MobileList))))
  /\ UNCHANGED <<buttonVars, theme, mode, fetched, signedIn>>

ButtonStep ==
  /\ Button!WatchFlow \/ Button!AddFlow
  /\ UNCHANGED <<boxVars, theme, mode, asking, gasPrices, networks, menus, signedIn>>

Next == SearchStep \/ ButtonStep \/ NavStep \/ Fetches

Spec == Init /\ [][Next]_vars

-----------------------------------------------------------------------------
\* The shell never offers a link to a page that is not there in its mode, nor
\* another network that is not a web page, in whatever order the answers come.
NoDeadLink ==
  /\ Links \cap Unavailable = {}
  /\ \A n \in NetworkLinks \cup MobileNetworkLinks : n.http

\* The highlighted suggestion, which Enter follows, is the one its user has moved to.
HighlightIsChosen == Box!HighlightIsChosen

\* A search field at rest offers the suggestions of its text, unless an answer
\* failed or was overtaken.
ListOfTheText == Box!ListOfTheText

\* At rest the network button shows whether the wallet is on the explorer's chain.
ButtonAgreesWithWallet == Button!ButtonAgreesWithWallet

-----------------------------------------------------------------------------
(* The inductive invariant *)

\* What has been fetched agrees with the mode the backend and the page are in.
NavInv ==
  /\ privacyEnabled => private
  /\ gasPrices # "none" => Features["gasTracker"]
  /\ networks \subseteq {n \in Listed : n.http}

ShellInv == NavInv /\ Box!BoxInv /\ Button!ButtonInv
=============================================================================
