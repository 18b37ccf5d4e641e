----------------------------- MODULE SearchBox ------------------------------
(***************************************************************************)
(* A search field with its suggestions (components/SearchBar.tsx; the      *)
(* menu of components/Layout.tsx holds a second copy).  Typing starts a    *)
(* timer; when it fires the suggestions of the text are asked for, and     *)
(* what is asked is never cancelled: answers come in any order, to         *)
(* whatever the field holds by then.                                       *)
(***************************************************************************)
EXTENDS Naturals, Sequences

CONSTANTS Texts,    \* what may be typed; "" is any text that is blank
          Matches,  \* the server: the suggestions of each text, [type, value]
          Direct,   \* the path a text is itself the name of, or Nowhere
          MaxMoves, \* bound: inputs of the user
          MaxAsked  \* bound: requests under way

Nowhere == <<>>

VARIABLES location,        \* the route: <<"/">>, or the kind and name of a page
          moves,           \* inputs of the user (for the bound)
          search, suggestions, showSuggestions,
          selectedIndex,   \* 0: none (the code counts from -1)
          timer,           \* the debounce of the text is running
          asked,           \* requests under way, oldest first: [text, late]
          overtaken,       \* ghost: the last answer was older than one before it
          failed,          \* ghost: the last answer was an error
          highlighted      \* ghost: the suggestion the user last moved to

field == <<search, timer>>
offer == <<suggestions, showSuggestions, selectedIndex>>
ghosts == <<overtaken, failed, highlighted>>
boxVars == <<field, offer, asked, ghosts>>

Init ==
  /\ search = "" /\ timer = FALSE /\ asked = <<>>
  /\ suggestions = <<>> /\ showSuggestions = FALSE /\ selectedIndex = 0
  /\ overtaken = FALSE /\ failed = FALSE /\ highlighted = Nowhere

Move == moves < MaxMoves /\ moves' = moves + 1
Still == UNCHANGED <<location, moves>>
PathOf(s) == <<s.type, s.value>>
Offered == showSuggestions /\ suggestions # <<>>

\* Mutant: an effect that runs on the first text only.
TypeOnce(t) ==
  /\ t # search /\ Move /\ search' = t /\ timer' = (t # "" /\ (search = "" \/ timer))
  /\ suggestions' = IF t = "" THEN <<>> ELSE suggestions
  /\ UNCHANGED <<location, showSuggestions, selectedIndex, asked, ghosts>>

\* The effect on the text: a blank one has no suggestions, another its timer.
Type(t) ==
  /\ t # search /\ Move /\ search' = t /\ timer' = (t # "")
  /\ suggestions' = IF t = "" THEN <<>> ELSE suggestions
  /\ UNCHANGED <<location, showSuggestions, selectedIndex, asked, ghosts>>

Debounced ==
  /\ timer /\ Len(asked) < MaxAsked /\ timer' = FALSE
  /\ asked' = Append(asked, [text |-> search, late |-> FALSE])
  /\ UNCHANGED <<search, offer, ghosts>> /\ Still

\* Those asked before the i-th are late once it is answered.
Answer(i) ==
  /\ i \in DOMAIN asked
  /\ asked' = [j \in 1 .. Len(asked) - 1 |->
                 IF j < i THEN [asked[j] EXCEPT !.late = TRUE] ELSE asked[j + 1]]
  /\ overtaken' = asked[i].late
  /\ UNCHANGED <<field, highlighted>> /\ Still

\* Mutant: the highlight stays where it was.
AnsweredKeepsIndex(i) ==
  /\ Answer(i) /\ failed' = FALSE
  /\ suggestions' = Matches[asked[i].text] /\ showSuggestions' = TRUE
  /\ UNCHANGED selectedIndex

Answered(i) ==
  /\ Answer(i) /\ failed' = FALSE
  /\ suggestions' = Matches[asked[i].text] /\ showSuggestions' = TRUE
  /\ selectedIndex' = 0

AnswerFails(i) ==
  /\ Answer(i) /\ failed' = TRUE
  /\ suggestions' = <<>> /\ UNCHANGED <<showSuggestions, selectedIndex>>

Highlight(i) ==
  /\ Move /\ selectedIndex' = i
  /\ highlighted' = IF i = 0 THEN Nowhere ELSE PathOf(suggestions[i])
  /\ UNCHANGED <<location, field, suggestions, showSuggestions, asked, overtaken, failed>>

HandleKeyDown ==
  /\ Offered
  /\ \/ selectedIndex < Len(suggestions) /\ Highlight(selectedIndex + 1)
     \/ selectedIndex > 0 /\ Highlight(selectedIndex - 1)
     \/ /\ Move /\ showSuggestions' = FALSE /\ selectedIndex' = 0     \* Escape
        /\ UNCHANGED <<location, field, suggestions, asked, ghosts>>

Cleared == search' = "" /\ suggestions' = <<>> /\ showSuggestions' = FALSE /\ timer' = FALSE

\* What a navigation leaves of the field: the one of the home page is unmounted,
\* and nothing under way reaches it any more; the one of the menu lives on.
GoTo(path, unmounts) ==
  /\ Cleared
  /\ location' = IF path = Nowhere THEN location ELSE path
  /\ IF unmounts /\ path # Nowhere
     THEN /\ selectedIndex' = 0 /\ asked' = <<>>
          /\ overtaken' = FALSE /\ failed' = FALSE /\ highlighted' = Nowhere
     ELSE UNCHANGED <<selectedIndex, asked, ghosts>>

NavigateToSuggestion(i, unmounts) ==
  /\ i \in DOMAIN suggestions /\ Move /\ GoTo(PathOf(suggestions[i]), unmounts)

\* Enter: the highlighted suggestion, whether the list shows or not, else the text.
HandleSearch(unmounts) ==
  /\ search # "" /\ Move
  /\ IF selectedIndex \in DOMAIN suggestions
     THEN GoTo(PathOf(suggestions[selectedIndex]), unmounts)
     ELSE GoTo(Direct[search], unmounts)

ClickOutside ==
  /\ showSuggestions /\ Move /\ showSuggestions' = FALSE
  /\ UNCHANGED <<location, field, suggestions, selectedIndex, asked, ghosts>>

Focus ==
  /\ suggestions # <<>> /\ ~showSuggestions /\ Move /\ showSuggestions' = TRUE
  /\ UNCHANGED <<location, field, suggestions, selectedIndex, asked, ghosts>>

-----------------------------------------------------------------------------
\* What is highlighted, and Enter will follow, is what the user moved to.
HighlightIsChosen ==
  selectedIndex \in DOMAIN suggestions => PathOf(suggestions[selectedIndex]) = highlighted

\* With no timer and no request the suggestions are those of the text, unless
\* the last answer was an error or had been overtaken.
ListOfTheText ==
  search # "" /\ ~timer /\ asked = <<>> /\ ~overtaken /\ ~failed
    => suggestions = Matches[search]

-----------------------------------------------------------------------------
(* The inductive invariant *)

SuggestionRecords == [type : STRING, value : STRING]
Requests == [text : Texts \ {""}, late : BOOLEAN]

BoxTypeOK ==
  /\ search \in Texts \cup {""} /\ timer \in BOOLEAN /\ asked \in Seq(Requests)
  /\ suggestions \in Seq(SuggestionRecords) /\ selectedIndex \in Nat
  /\ overtaken \in BOOLEAN /\ failed \in BOOLEAN

\* A timer runs for a text.
TimerHasText == timer => search # ""

\* The newest request is for the text and not overtaken, or it was answered
\* and every other one is late.
NewestIsOfTheText ==
  search # "" /\ ~timer =>
    \/ /\ asked # <<>>
       /\ asked[Len(asked)].text = search /\ ~asked[Len(asked)].late
    \/ /\ \A i \in DOMAIN asked : asked[i].late
       /\ overtaken \/ failed \/ suggestions = Matches[search]

BoxInv == BoxTypeOK /\ TimerHasText /\ HighlightIsChosen /\ NewestIsOfTheText
=============================================================================
