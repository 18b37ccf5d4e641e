---------------------------- MODULE Shell_proofs ----------------------------
(***************************************************************************)
(* Theorems of Shell, for every set of texts and what they match, every    *)
(* set of chains, every list of networks and every bound: whatever the     *)
(* order answers come in, the links are of pages that are there, the       *)
(* search field offers and highlights what its user has asked for, and the *)
(* network button shows the chain of the wallet.                           *)
(***************************************************************************)
EXTENDS Shell, SequenceTheorems, FiniteSetTheorems, TLAPS

-----------------------------------------------------------------------------
(* Sequences *)

LEMMA FunctionIsSeq ==
  ASSUME NEW S, NEW n \in Nat, NEW f \in [1 .. n -> S]
  PROVE  f \in Seq(S) /\ Len(f) = n
  <1>1. f \in Seq(S)
    BY SeqDef
  <1>2. Len(f) \in Nat /\ 1 .. Len(f) = 1 .. n
    BY <1>1, LenProperties
  <1>3. QED
    BY <1>1, <1>2

\* The last element of a sequence that is extended, or loses its first.
LEMMA LastOfAppend ==
  ASSUME NEW S, NEW s \in Seq(S), NEW e \in S
  PROVE  /\ Append(s, e) \in Seq(S) /\ Append(s, e) # <<>>
         /\ Append(s, e)[Len(Append(s, e))] = e
  <1>1. /\ Append(s, e) \in Seq(S) /\ Len(Append(s, e)) = Len(s) + 1 /\ Len(s) \in Nat
        /\ Append(s, e)[Len(s) + 1] = e
    BY AppendProperties, LenProperties
  <1>2. Append(s, e) # <<>>
    BY <1>1, EmptySeq
  <1>3. QED
    BY <1>1, <1>2

LEMMA LastOfTail ==
  ASSUME NEW S, NEW s \in Seq(S), s # <<>>
  PROVE  /\ Tail(s) \in Seq(S) /\ Head(s) \in S /\ s[Len(s)] \in S
         /\ Tail(s) # <<>> => Tail(s)[Len(Tail(s))] = s[Len(s)]
         /\ Tail(s) = <<>> => Head(s) = s[Len(s)]
  <1> DEFINE t == Tail(s)
             n == Len(s)
  <1>1. /\ t \in Seq(S) /\ Len(t) = n - 1 /\ Head(s) \in S
        /\ \A i \in 1 .. Len(t) : t[i] = s[i + 1]
    BY HeadTailProperties
  <1>2. n \in Nat \ {0} /\ s[n] \in S /\ Head(s) = s[1]
    BY EmptySeq, ElementOfSeq
  <1>3. t # <<>> => Len(t) \in Nat \ {0}
    BY <1>1, EmptySeq
  <1>4. t = <<>> => Len(t) = 0
    BY EmptySeq, Zenon
  <1> HIDE DEF t, n
  <1>5. t # <<>> => t[Len(t)] = s[n]
    BY <1>1, <1>2, <1>3
  <1>6. t = <<>> => Head(s) = s[n]
    BY <1>1, <1>2, <1>4
  <1>7. QED
    BY <1>1, <1>2, <1>5, <1>6 DEF t, n

-----------------------------------------------------------------------------
(* The search field *)

\* The requests that are left when the i-th is answered.
LEMMA RequestsLeft ==
  ASSUME asked \in Seq(Box!Requests), NEW i, Box!Answer(i)
  PROVE  /\ i \in 1 .. Len(asked)
         /\ asked' \in Seq(Box!Requests) /\ Len(asked') = Len(asked) - 1
         /\ \A j \in 1 .. Len(asked) - 1 : j < i => asked'[j] = [asked[j] EXCEPT !.late = TRUE]
         /\ \A j \in 1 .. Len(asked) - 1 : ~(j < i) => asked'[j] = asked[j + 1]
  <1>1. i \in 1 .. Len(asked) /\ Len(asked) \in Nat /\ DOMAIN asked = 1 .. Len(asked)
    BY DEF Box!Answer
  <1>2. ASSUME NEW j \in 1 .. Len(asked) - 1
        PROVE  (IF j < i THEN [asked[j] EXCEPT !.late = TRUE] ELSE asked[j + 1]) \in Box!Requests
    <2>1. asked[j] \in Box!Requests /\ asked[j + 1] \in Box!Requests
      BY <1>1
    <2>2. QED
      BY <2>1 DEF Box!Requests
  <1>3. asked' = [j \in 1 .. Len(asked) - 1 |->
                    IF j < i THEN [asked[j] EXCEPT !.late = TRUE] ELSE asked[j + 1]]
    BY DEF Box!Answer
  <1>4. asked' \in [1 .. Len(asked) - 1 -> Box!Requests]
    BY <1>2, <1>3
  <1>5. asked' \in Seq(Box!Requests) /\ Len(asked') = Len(asked) - 1
    <2>1. Len(asked) - 1 \in Nat
      BY <1>1
    <2>2. QED
      BY <1>4, <2>1, FunctionIsSeq
  <1>6. QED
    BY <1>1, <1>3, <1>5

\* No place of a list is 0, which stands for none, and an empty one has none.
LEMMA NoneIsNoPlace ==
  ASSUME NEW S, NEW s \in Seq(S)
  PROVE  0 \notin DOMAIN s /\ DOMAIN <<>> = {} /\ <<>> \in Seq(S)
  <1>1. 0 \notin DOMAIN s
    BY LenProperties
  <1>2. DOMAIN <<>> = {}
    OBVIOUS
  <1>3. <<>> \in Seq(S)
    BY EmptySeq
  <1>4. QED
    BY <1>1, <1>2, <1>3

\* A field whose list is empty highlights nothing.
LEMMA NothingHighlighted ==
  ASSUME suggestions' = <<>>
  PROVE  Box!HighlightIsChosen' /\ suggestions' \in Seq(Box!SuggestionRecords)
  BY NoneIsNoPlace DEF Box!HighlightIsChosen

LEMMA BoxKept ==
  ASSUME Box!BoxInv,
         UNCHANGED <<search, timer, suggestions, selectedIndex, asked, overtaken, failed, highlighted>>
  PROVE  Box!BoxInv'
  BY DEF Box!BoxInv, Box!BoxTypeOK, Box!TimerHasText, Box!HighlightIsChosen, Box!NewestIsOfTheText

LEMMA TypeStep ==
  ASSUME Box!BoxInv, NEW t \in Texts, Box!Type(t)
  PROVE  Box!BoxInv'
  <1> USE DEF Box!Type, Box!offer, Box!ghosts, Box!field
  <1>1. UNCHANGED <<suggestions, selectedIndex, highlighted>> \/ suggestions' = <<>>
    OBVIOUS
  <1>2. Box!HighlightIsChosen' /\ suggestions' \in Seq(Box!SuggestionRecords)
    BY <1>1, NothingHighlighted DEF Box!BoxInv, Box!BoxTypeOK, Box!HighlightIsChosen
  <1>3. Box!BoxTypeOK'
    BY <1>2 DEF Box!BoxInv, Box!BoxTypeOK
  <1>4. Box!TimerHasText' /\ Box!NewestIsOfTheText'
    BY DEF Box!TimerHasText, Box!NewestIsOfTheText
  <1>5. QED
    BY <1>2, <1>3, <1>4 DEF Box!BoxInv

LEMMA DebouncedStep ==
  ASSUME Box!BoxInv, Box!Debounced
  PROVE  Box!BoxInv'
  <1> USE DEF Box!Debounced, Box!offer, Box!ghosts, Box!field
  <1> DEFINE r == [text |-> search, late |-> FALSE]
  <1>1. search # "" /\ r \in Box!Requests /\ asked \in Seq(Box!Requests)
    BY DEF Box!BoxInv, Box!BoxTypeOK, Box!TimerHasText, Box!Requests
  <1>2. asked' \in Seq(Box!Requests) /\ asked' # <<>> /\ asked'[Len(asked')] = r
    BY <1>1, LastOfAppend
  <1>3. Box!BoxTypeOK'
    BY <1>2 DEF Box!BoxInv, Box!BoxTypeOK
  <1>4. asked'[Len(asked')].text = search /\ ~asked'[Len(asked')].late /\ search' = search
    BY <1>2
  <1>5. Box!NewestIsOfTheText'
    BY <1>2, <1>4, Zenon DEF Box!NewestIsOfTheText
  <1>6. Box!HighlightIsChosen' /\ Box!TimerHasText'
    BY DEF Box!BoxInv, Box!HighlightIsChosen, Box!TimerHasText
  <1>7. QED
    BY <1>3, <1>5, <1>6 DEF Box!BoxInv

\* The newest request stays the newest as it was, or was the one answered and
\* every other one is late.
LEMMA AnswerStep ==
  ASSUME Box!BoxInv, NEW i, Box!Answer(i),
         failed' \/ suggestions' = Matches[asked[i].text]
  PROVE  Box!NewestIsOfTheText'
  <1> USE DEF Box!field
  <1> DEFINE n == Len(asked)
             b == asked'
  <1>1. asked \in Seq(Box!Requests) /\ UNCHANGED <<search, timer>> /\ overtaken' = asked[i].late
    BY DEF Box!BoxInv, Box!BoxTypeOK, Box!Answer
  <1>2. /\ n \in Nat /\ i \in 1 .. n /\ Len(b) = n - 1
        /\ \A j \in 1 .. n : asked[j] \in Box!Requests
        /\ \A j \in 1 .. n - 1 : j < i => b[j] = [asked[j] EXCEPT !.late = TRUE]
        /\ \A j \in 1 .. n - 1 : ~(j < i) => b[j] = asked[j + 1]
        /\ DOMAIN asked = 1 .. n /\ DOMAIN b = 1 .. n - 1
    BY <1>1, RequestsLeft, LenProperties, ElementOfSeq
  <1>3. /\ i # n => n - 1 \in 1 .. n - 1 /\ b[n - 1] = asked[n]
        /\ i = n => \A j \in 1 .. n - 1 : b[j].late
        /\ (\A j \in 1 .. n : asked[j].late) => \A j \in 1 .. n - 1 : b[j].late
    <2> HIDE DEF n, b
    <2>1. ASSUME NEW j \in 1 .. n - 1, j < i
          PROVE  b[j].late
      <3>1. j \in 1 .. n /\ b[j] = [asked[j] EXCEPT !.late = TRUE]
        BY <1>2, <2>1
      <3>2. asked[j] \in [text : Texts \ {""}, late : BOOLEAN]
        BY <1>2, <3>1 DEF Box!Requests
      <3>3. b[j].late = TRUE
        BY <3>1, <3>2
      <3>4. QED
        BY <3>3
    <2>2. ASSUME i # n
          PROVE  n - 1 \in 1 .. n - 1 /\ b[n - 1] = asked[n]
      <3>1. n - 1 \in 1 .. n - 1 /\ ~(n - 1 < i) /\ (n - 1) + 1 = n
        BY <1>2, <2>2
      <3>2. b[n - 1] = asked[(n - 1) + 1]
        BY <1>2, <3>1
      <3>3. QED
        BY <3>1, <3>2
    <2>3. ASSUME NEW j \in 1 .. n - 1, \A k \in 1 .. n : asked[k].late
          PROVE  b[j].late
      <3>1. CASE j < i
        BY <2>1, <3>1
      <3>2. CASE ~(j < i)
        <4>1. j + 1 \in 1 .. n /\ b[j] = asked[j + 1]
          BY <1>2, <3>2
        <4>2. QED
          BY <2>3, <4>1, Zenon
      <3>3. QED
        BY <3>1, <3>2
    <2>4. QED
      <3>1. i = n => \A j \in 1 .. n - 1 : j < i
        BY <1>2
      <3>2. QED
        BY <2>1, <2>2, <2>3, <3>1, Zenon
  <1>4. n - 1 \in 1 .. n - 1 => b # <<>>
    BY <1>2, NoneIsNoPlace
  <1>5. search # "" /\ ~timer =>
          \/ asked[n].text = search /\ ~asked[n].late
          \/ \A j \in 1 .. n : asked[j].late
    BY <1>2, Zenon DEF Box!BoxInv, Box!NewestIsOfTheText
  <1>6. Box!NewestIsOfTheText' =
          (search # "" /\ ~timer =>
             \/ b # <<>> /\ b[n - 1].text = search /\ ~b[n - 1].late
             \/ /\ \A j \in 1 .. n - 1 : b[j].late
                /\ overtaken' \/ failed' \/ suggestions' = Matches[search])
    BY <1>1, <1>2, Zenon DEF Box!NewestIsOfTheText
  <1> HIDE DEF b, n
  <1>7. ASSUME search # "", ~timer
        PROVE  \/ b # <<>> /\ b[n - 1].text = search /\ ~b[n - 1].late
               \/ /\ \A j \in 1 .. n - 1 : b[j].late
                  /\ overtaken' \/ failed' \/ suggestions' = Matches[search]
    <2>1. CASE i = n /\ asked[n].text = search
      BY <1>3, <2>1
    <2>2. CASE i # n /\ asked[n].text = search /\ ~asked[n].late
      BY <1>3, <1>4, <2>2
    <2>3. CASE \A j \in 1 .. n : asked[j].late
      BY <1>1, <1>2, <1>3, <2>3, Zenon
    <2>4. QED
      BY <1>5, <1>7, <2>1, <2>2, <2>3
  <1>8. QED
    BY <1>6, <1>7, Zenon

LEMMA AnsweredStep ==
  ASSUME Box!BoxInv, NEW i, Box!Answered(i) \/ Box!AnswerFails(i)
  PROVE  Box!BoxInv'
  <1> USE DEF Box!field
  <1>1. asked \in Seq(Box!Requests) /\ Box!Answer(i)
    BY DEF Box!BoxInv, Box!BoxTypeOK, Box!Answered, Box!AnswerFails
  <1>2. i \in 1 .. Len(asked) /\ asked' \in Seq(Box!Requests)
    BY <1>1, RequestsLeft
  <1>3. asked[i] \in Box!Requests
    BY <1>1, <1>2, ElementOfSeq
  <1>4. Matches[asked[i].text] \in Seq(Box!SuggestionRecords) /\ <<>> \in Seq(Box!SuggestionRecords)
    BY <1>3, ShellAssumption, EmptySeq DEF Box!Requests, Box!SuggestionRecords
  <1>5. overtaken' = asked[i].late /\ UNCHANGED <<search, timer>> /\ asked[i].late \in BOOLEAN
    BY <1>1, <1>3 DEF Box!Answer, Box!Requests
  <1>6. \/ suggestions' = Matches[asked[i].text] /\ failed' = FALSE /\ selectedIndex' = 0
        \/ suggestions' = <<>> /\ failed' = TRUE /\ selectedIndex' = selectedIndex
    <2> HIDE DEF Box!Answer
    <2>1. QED
      BY DEF Box!Answered, Box!AnswerFails
  <1>7. Box!BoxTypeOK' /\ Box!TimerHasText'
    <2>1. suggestions' \in Seq(Box!SuggestionRecords) /\ failed' \in BOOLEAN
      BY <1>4, <1>6, Zenon
    <2>2. selectedIndex' \in Nat
      BY <1>6, 0 \in Nat, Zenon DEF Box!BoxInv, Box!BoxTypeOK
    <2>3. QED
      BY <1>2, <1>5, <2>1, <2>2 DEF Box!BoxInv, Box!BoxTypeOK, Box!TimerHasText
  <1>8. Box!NewestIsOfTheText'
    BY <1>1, <1>6, AnswerStep, Zenon
  <1>9. selectedIndex' \notin DOMAIN suggestions'
    BY <1>4, <1>6, NoneIsNoPlace, Zenon
  <1>10. QED
    BY <1>7, <1>8, <1>9, Zenon DEF Box!BoxInv, Box!HighlightIsChosen

\* A field that was emptied, whatever becomes of the requests under way.
LEMMA ClearedStep ==
  ASSUME Box!BoxInv, Box!Cleared,
         \/ UNCHANGED <<selectedIndex, asked, overtaken, failed, highlighted>>
         \/ selectedIndex' = 0 /\ asked' = <<>> /\ overtaken' = FALSE /\ failed' = FALSE
  PROVE  Box!BoxInv'
  <1>1. asked' \in Seq(Box!Requests) /\ selectedIndex' \in Nat
    BY EmptySeq, 0 \in Nat, Zenon DEF Box!BoxInv, Box!BoxTypeOK
  <1>2. Box!HighlightIsChosen' /\ suggestions' \in Seq(Box!SuggestionRecords)
    BY NothingHighlighted DEF Box!Cleared
  <1>3. Box!BoxTypeOK'
    <2>1. overtaken' \in BOOLEAN /\ failed' \in BOOLEAN
      BY DEF Box!BoxInv, Box!BoxTypeOK
    <2>2. QED
      BY <1>1, <1>2, <2>1 DEF Box!BoxTypeOK, Box!Cleared
  <1>4. Box!TimerHasText' /\ Box!NewestIsOfTheText'
    BY DEF Box!TimerHasText, Box!NewestIsOfTheText, Box!Cleared
  <1>5. QED
    BY <1>2, <1>3, <1>4 DEF Box!BoxInv

LEMMA GoToStep ==
  ASSUME Box!BoxInv, NEW path, NEW unmounts, Box!GoTo(path, unmounts)
  PROVE  Box!BoxInv'
  BY ClearedStep DEF Box!GoTo, Box!ghosts

LEMMA HighlightStep ==
  ASSUME Box!BoxInv, NEW i \in Nat, Box!Highlight(i)
  PROVE  Box!BoxInv'
  <1> USE DEF Box!Highlight, Box!field
  <1>1. 0 \notin DOMAIN suggestions
    BY NoneIsNoPlace DEF Box!BoxInv, Box!BoxTypeOK
  <1>2. Box!HighlightIsChosen'
    BY <1>1, Zenon DEF Box!HighlightIsChosen
  <1>3. Box!BoxTypeOK' /\ Box!TimerHasText' /\ Box!NewestIsOfTheText'
    BY DEF Box!BoxInv, Box!BoxTypeOK, Box!TimerHasText, Box!NewestIsOfTheText
  <1>4. QED
    BY <1>2, <1>3 DEF Box!BoxInv

LEMMA KeyStep ==
  ASSUME Box!BoxInv, Box!HandleKeyDown
  PROVE  Box!BoxInv'
  <1>1. selectedIndex \in Nat /\ 0 \notin DOMAIN suggestions
    BY NoneIsNoPlace DEF Box!BoxInv, Box!BoxTypeOK
  <1>2. CASE Box!Highlight(selectedIndex + 1)
    BY <1>1, <1>2, HighlightStep
  <1>3. CASE selectedIndex > 0 /\ Box!Highlight(selectedIndex - 1)
    BY <1>1, <1>3, HighlightStep
  <1>4. CASE selectedIndex' = 0 /\ UNCHANGED <<Box!field, suggestions, asked, Box!ghosts>>
    <2> USE DEF Box!field, Box!ghosts
    <2>1. Box!HighlightIsChosen'
      BY <1>1, <1>4, Zenon DEF Box!HighlightIsChosen
    <2>2. Box!BoxTypeOK' /\ Box!TimerHasText' /\ Box!NewestIsOfTheText'
      BY <1>4 DEF Box!BoxInv, Box!BoxTypeOK, Box!TimerHasText, Box!NewestIsOfTheText
    <2>3. QED
      BY <2>1, <2>2 DEF Box!BoxInv
  <1>5. QED
    BY <1>2, <1>3, <1>4 DEF Box!HandleKeyDown

\* Whatever the user does in the field, or comes back to it.
LEMMA SearchBoxStep ==
  ASSUME Box!BoxInv,
         \/ Suggest \/ Box!HandleKeyDown \/ Box!ClickOutside \/ Box!Focus
         \/ \E t \in Texts : Box!Type(t)
         \/ \E u \in BOOLEAN : Box!HandleSearch(u)
         \/ \E u \in BOOLEAN, i \in DOMAIN suggestions : Box!NavigateToSuggestion(i, u)
  PROVE  Box!BoxInv'
  <1>1. CASE Suggest
    BY <1>1, DebouncedStep, AnsweredStep DEF Suggest
  <1>2. CASE Box!HandleKeyDown
    BY <1>2, KeyStep
  <1>3. CASE Box!ClickOutside \/ Box!Focus
    BY <1>3, BoxKept DEF Box!ClickOutside, Box!Focus, Box!field, Box!ghosts
  <1>4. CASE \E t \in Texts : Box!Type(t)
    BY <1>4, TypeStep
  <1>5. ASSUME NEW u, Box!HandleSearch(u)
        PROVE  Box!BoxInv'
    BY <1>5, GoToStep DEF Box!HandleSearch
  <1>6. ASSUME NEW u, NEW i, Box!NavigateToSuggestion(i, u)
        PROVE  Box!BoxInv'
    BY <1>6, GoToStep DEF Box!NavigateToSuggestion
  <1>7. QED
    BY <1>1, <1>2, <1>3, <1>4, <1>5, <1>6

LEMMA SearchStepKeepsBox ==
  ASSUME Box!BoxInv, SearchStep
  PROVE  Box!BoxInv'
  BY SearchBoxStep DEF SearchStep, BarStep, MobileSuggest, MobileKeys, MobileType,
     MobileSearch, MobileList, MobileNavigate

-----------------------------------------------------------------------------
(* The network button *)

\* The instance has its own names of the operators on finite sets.
LEMMA SameOperators ==
  ASSUME NEW S
  PROVE  /\ Button!IsFiniteSet(S) <=> IsFiniteSet(S)
         /\ Button!Cardinality(S) = Cardinality(S)
  BY DEF Button!IsFiniteSet, IsFiniteSet, Button!Cardinality, Cardinality

LEMMA ButtonKept ==
  ASSUME Button!ButtonInv, UNCHANGED buttonVars
  PROVE  Button!ButtonInv'
  BY DEF buttonVars, Button!ButtonInv, Button!ButtonTypeOK, Button!TargetIsKnown, Button!NoWalletIsQuiet,
         Button!LastWordIsOfTheWallet

\* An addition changes neither what the wallet says nor what the page makes of it.
LEMMA AdditionsOnly ==
  ASSUME Button!ButtonInv, UNCHANGED <<installed, chain, known, target, inbox, unread, state, blind>>,
         adds' \subseteq Button!Additions, IsFiniteSet(adds'),
         \A a \in adds' : a.stage = "prompt" => a.chain # Button!None,
         ~installed => adds' = {}
  PROVE  Button!ButtonInv'
  BY SameOperators
     DEF Button!ButtonInv, Button!ButtonTypeOK, Button!TargetIsKnown, Button!NoWalletIsQuiet,
         Button!LastWordIsOfTheWallet

LEMMA ChainIds ==
  ASSUME Button!ButtonInv
  PROVE  /\ ConfigChain \in Button!Ids /\ BackendChain \in Button!Ids
         /\ \A c \in {BackendChain, Button!None} : Button!ResolveChainIdHex(c) \in Button!Ids
         /\ BackendChain # Button!None
  BY ShellAssumption DEF Button!Ids, Button!ResolveChainIdHex, Button!None

\* A new addition has a number no other has.
LEMMA NewIdIsNat ==
  ASSUME IsFiniteSet(adds), adds \subseteq Button!Additions
  PROVE  Button!NewId \in Nat
  <1> DEFINE n == Cardinality(adds)
             f == [a \in adds |-> a.id]
             ids == {a.id : a \in adds}
  <1>1. n \in Nat
    BY FS_CardinalityType
  <1>2. IsFiniteSet(ids) /\ Cardinality(ids) <= n /\ Cardinality(ids) \in Nat
    <2>1. f \in Surjection(adds, ids)
      BY DEF Surjection
    <2>2. QED
      BY <2>1, FS_Surjection, FS_CardinalityType DEF ExistsSurjection
  <1>3. IsFiniteSet(1 .. n + 1) /\ Cardinality(1 .. n + 1) = n + 1
    BY <1>1, FS_Interval
  <1>4. ~(1 .. n + 1 \subseteq ids)
    <2>1. SUFFICES ASSUME 1 .. n + 1 \subseteq ids
                   PROVE  FALSE
      OBVIOUS
    <2>2. Cardinality(1 .. n + 1) <= Cardinality(ids)
      BY <1>2, <2>1, FS_Subset
    <2>3. QED
      BY <1>1, <1>2, <1>3, <2>2
  <1>5. PICK i \in 1 .. n + 1 : \A a \in adds : a.id # i
    BY <1>4
  <1>6. Button!NewId = CHOOSE i1 \in 1 .. n + 1 : \A a \in adds : a.id # i1
    <2>1. Button!Cardinality(adds) = n
      BY SameOperators
    <2>2. QED
      BY <2>1 DEF Button!NewId
  <1>7. Button!NewId \in 1 .. n + 1
    BY <1>5, <1>6
  <1>8. QED
    BY <1>1, <1>7

LEMMA AdditionsShape ==
  ASSUME Button!ButtonInv
  PROVE  /\ adds \subseteq Button!Additions /\ IsFiniteSet(adds) /\ (~installed => adds = {})
         /\ \A a \in adds : a.stage = "prompt" => a.chain # Button!None
         /\ known \in {Button!None, BackendChain}
  BY SameOperators DEF Button!ButtonInv, Button!ButtonTypeOK, Button!NoWalletIsQuiet

LEMMA StartStep ==
  ASSUME Button!ButtonInv, installed,
         NEW from \in {"button", "dialog"}, NEW stage \in {"info", "prompt"},
         NEW c \in Button!Ids \cup {Button!None}, stage = "prompt" => c # Button!None,
         Button!Start(from, stage, c)
  PROVE  /\ adds' \subseteq Button!Additions /\ IsFiniteSet(adds')
         /\ \A a \in adds' : a.stage = "prompt" => a.chain # Button!None
  <1> DEFINE a0 == [from |-> from, own |-> TRUE, id |-> Button!NewId, stage |-> stage, chain |-> c]
  <1>1. /\ adds \subseteq Button!Additions /\ IsFiniteSet(adds) /\ adds' = adds \cup {a0}
        /\ \A a \in adds : a.stage = "prompt" => a.chain # Button!None
    BY AdditionsShape DEF Button!Start
  <1>2. a0 \in Button!Additions /\ (a0.stage = "prompt" => a0.chain # Button!None)
    BY <1>1, NewIdIsNat DEF Button!Additions
  <1>3. IsFiniteSet(adds')
    BY <1>1, FS_AddElement
  <1>4. QED
    BY <1>1, <1>2, <1>3

LEMMA ClicksStep ==
  ASSUME Button!ButtonInv, Button!Click \/ Button!CloseDialog \/ Button!HandleAdd
  PROVE  Button!ButtonInv'
  <1> USE DEF Button!walletVars, Button!watchVars
  <1>1. /\ adds \subseteq Button!Additions /\ IsFiniteSet(adds) /\ (~installed => adds = {})
        /\ \A a \in adds : a.stage = "prompt" => a.chain # Button!None
        /\ known \in {Button!None, BackendChain}
    BY AdditionsShape
  <1>2. CASE Button!Click
    <2>1. UNCHANGED <<installed, chain, known, target, inbox, unread, state, blind>>
      BY <1>2 DEF Button!Click
    <2>2. UNCHANGED adds \/ (installed /\ Button!Start("button", "info", Button!None))
      BY <1>2 DEF Button!Click
    <2>3. QED
      BY <1>1, <2>1, <2>2, StartStep, AdditionsOnly
  <1>3. CASE Button!CloseDialog
    BY <1>1, <1>3, AdditionsOnly DEF Button!CloseDialog
  <1>4. CASE Button!HandleAdd
    <2>1. UNCHANGED <<installed, chain, known, target, inbox, unread, state, blind>>
      BY <1>4 DEF Button!HandleAdd
    <2>2. \/ UNCHANGED adds
          \/ (installed /\ Button!Start("dialog", IF known = Button!None THEN "info" ELSE "prompt", known))
      BY <1>4 DEF Button!HandleAdd
    <2>3. known \in Button!Ids \cup {Button!None}
      BY <1>1, ChainIds
    <2>4. CASE UNCHANGED adds
      BY <1>1, <2>1, <2>4, AdditionsOnly
    <2>5. CASE installed /\ known = Button!None /\ Button!Start("dialog", "info", known)
      BY <1>1, <2>1, <2>3, <2>5, StartStep, AdditionsOnly
    <2>6. CASE installed /\ known # Button!None /\ Button!Start("dialog", "prompt", known)
      BY <1>1, <2>1, <2>3, <2>6, StartStep, AdditionsOnly
    <2>7. QED
      BY <2>2, <2>4, <2>5, <2>6
  <1>5. QED
    BY <1>2, <1>3, <1>4

\* An addition that goes on, or ends.
LEMMA AdditionStep ==
  ASSUME Button!ButtonInv, NEW a \in adds,
         Button!AddDone(a) \/ \E info \in {BackendChain, Button!None} : Button!InfoFetched(a, info)
  PROVE  Button!ButtonInv'
  <1> USE DEF Button!walletVars, Button!watchVars, Button!Still
  <1>1. /\ adds \subseteq Button!Additions /\ IsFiniteSet(adds) /\ (~installed => adds = {})
        /\ \A b \in adds : b.stage = "prompt" => b.chain # Button!None
    BY AdditionsShape
  <1>2. IsFiniteSet(adds \ {a})
    BY <1>1, FS_RemoveElement
  <1>3. UNCHANGED <<installed, chain, known, target, inbox, unread, state, blind>>
    BY DEF Button!AddDone, Button!InfoFetched
  <1>4. CASE adds' = adds \ {a}
    BY <1>1, <1>2, <1>3, <1>4, AdditionsOnly
  <1>5. ASSUME NEW info \in {BackendChain, Button!None},
               adds' = (adds \ {a}) \cup {[a EXCEPT !.stage = "prompt", !.chain = Button!ResolveChainIdHex(info)]}
        PROVE  Button!ButtonInv'
    <2> DEFINE b == [a EXCEPT !.stage = "prompt", !.chain = Button!ResolveChainIdHex(info)]
    <2>1. Button!ResolveChainIdHex(info) \in Button!Ids
      BY ChainIds
    <2>2. Button!ResolveChainIdHex(info) # Button!None
      BY ShellAssumption DEF Button!ResolveChainIdHex, Button!None
    <2>3. b \in Button!Additions /\ b.chain # Button!None
      BY <1>1, <2>1, <2>2 DEF Button!Additions
    <2>4. IsFiniteSet(adds')
      BY <1>2, <1>5, FS_AddElement
    <2>5. QED
      BY <1>1, <1>3, <1>5, <2>3, <2>4, AdditionsOnly
  <1>6. QED
    BY <1>4, <1>5 DEF Button!AddDone, Button!InfoFetched, Button!Ended

LEMMA ChainInfoStep ==
  ASSUME Button!ButtonInv, Button!ChainInfoAnswered \/ Button!ChainInfoFails
  PROVE  Button!ButtonInv'
  <1> USE DEF Button!walletVars, Button!watchVars, Button!addVars, Button!Still
  <1>1. CASE Button!ChainInfoFails
    BY <1>1, ButtonKept DEF Button!ChainInfoFails, buttonVars, Button!ButtonInv, Button!ButtonTypeOK,
       Button!TargetIsKnown, Button!NoWalletIsQuiet, Button!LastWordIsOfTheWallet
  <1> DEFINE t == Button!ResolveChainIdHex(BackendChain)
  <1>2. ASSUME Button!ChainInfoAnswered
        PROVE  /\ known' = BackendChain /\ t \in Button!Ids
               /\ UNCHANGED <<installed, chain, inbox, blind, adds>>
               /\ \/ t = target /\ UNCHANGED <<target, unread, state>>
                  \/ /\ target' = t
                     /\ \/ installed /\ unread' = Append(unread, t) /\ state' = state
                        \/ ~installed /\ state' = "no-wallet" /\ unread' = unread
    BY <1>2, ChainIds DEF Button!ChainInfoAnswered, Button!WatchNetworkState
  <1>3. ASSUME Button!ChainInfoAnswered
        PROVE  Button!ButtonInv'
    <2>1. Button!TargetIsKnown'
      BY <1>2, <1>3 DEF Button!TargetIsKnown, Button!ButtonInv, Button!ResolveChainIdHex
    <2>2. unread \in Seq(Button!Ids)
      BY DEF Button!ButtonInv, Button!ButtonTypeOK
    <2>3. Append(unread, t) \in Seq(Button!Ids) /\ Append(unread, t) # <<>>
          /\ Append(unread, t)[Len(Append(unread, t))] = t
      BY <1>2, <1>3, <2>2, LastOfAppend
    <2>4. Button!ButtonTypeOK'
      BY <1>2, <1>3, <2>2, <2>3 DEF Button!ButtonInv, Button!ButtonTypeOK
    <2>5. Button!NoWalletIsQuiet'
      BY <1>2, <1>3 DEF Button!ButtonInv, Button!NoWalletIsQuiet
    <2>6. Button!LastWordIsOfTheWallet'
      <3>1. CASE UNCHANGED <<target, unread, state>>
        <4>1. Button!LastWordIsOfTheWallet /\ UNCHANGED <<installed, chain, inbox, blind>>
          BY <1>2, <1>3 DEF Button!ButtonInv
        <4>2. QED
          BY <3>1, <4>1 DEF Button!LastWordIsOfTheWallet
      <3>2. CASE target' = t /\ unread' = Append(unread, t)
        BY <2>3, <3>2, Zenon DEF Button!LastWordIsOfTheWallet
      <3>3. CASE ~installed
        BY <1>2, <1>3, <3>3 DEF Button!LastWordIsOfTheWallet
      <3>4. QED
        BY <1>2, <1>3, <3>1, <3>2, <3>3
    <2>7. QED
      BY <2>1, <2>4, <2>5, <2>6 DEF Button!ButtonInv
  <1>4. QED
    BY <1>1, <1>3

\* The wallet answers the oldest watcher.
LEMMA WalletReadsStep ==
  ASSUME Button!ButtonInv, Button!WalletReads
  PROVE  Button!ButtonInv'
  <1> USE DEF Button!watchVars, Button!addVars, Button!Still
  <1> DEFINE Messages == [for : Button!Ids \cup {"change"}, chain : Button!Ids \cup {Button!None}]
  <1>1. /\ unread \in Seq(Button!Ids) /\ inbox \in Seq(Messages) /\ chain \in Button!Ids
        /\ unread # <<>> /\ unread' = Tail(unread)
        /\ UNCHANGED <<installed, chain, known, loading, target, state, blind, adds>>
    BY DEF Button!ButtonInv, Button!ButtonTypeOK, Button!WalletReads
  <1>2. PICK c \in {chain, Button!None} : inbox' = Append(inbox, [for |-> Head(unread), chain |-> c])
    BY DEF Button!WalletReads
  <1> DEFINE m == [for |-> Head(unread), chain |-> c]
  <1>3. /\ unread' \in Seq(Button!Ids) /\ Head(unread) \in Button!Ids
        /\ unread' # <<>> => unread'[Len(unread')] = unread[Len(unread)]
        /\ unread' = <<>> => Head(unread) = unread[Len(unread)]
    BY <1>1, LastOfTail
  <1>4. m \in Messages
    BY <1>1, <1>2, <1>3
  <1>5. inbox' \in Seq(Messages) /\ inbox' # <<>> /\ inbox'[Len(inbox')] = m
    BY <1>1, <1>2, <1>4, LastOfAppend
  <1>6. installed
    BY <1>1, Zenon DEF Button!ButtonInv, Button!NoWalletIsQuiet
  <1>7. unread[Len(unread)] = target
    BY <1>1, <1>6, Zenon DEF Button!ButtonInv, Button!LastWordIsOfTheWallet
  <1>8. m.for = Head(unread) /\ m.chain \in {chain, Button!None}
    BY <1>2
  <1>9. Button!LastWordIsOfTheWallet'
    <2>1. CASE unread' # <<>>
      BY <1>1, <1>3, <1>7, <2>1, Zenon DEF Button!LastWordIsOfTheWallet
    <2>2. CASE unread' = <<>>
      <3>1. m.for = target' /\ m.chain \in {chain', Button!None}
        BY <1>1, <1>3, <1>7, <1>8, <2>2
      <3> HIDE DEF m
      <3>2. inbox'[Len(inbox')].for = target' /\ inbox'[Len(inbox')].chain \in {chain', Button!None}
        BY <1>5, <3>1, Zenon
      <3>3. QED
        BY <1>5, <2>2, <3>2 DEF Button!LastWordIsOfTheWallet
    <2>3. QED
      BY <2>1, <2>2
  <1>10. Button!ButtonTypeOK'
    BY <1>1, <1>3, <1>5 DEF Button!ButtonInv, Button!ButtonTypeOK
  <1>11. Button!TargetIsKnown' /\ Button!NoWalletIsQuiet'
    BY <1>1, <1>6 DEF Button!ButtonInv, Button!TargetIsKnown, Button!NoWalletIsQuiet
  <1>12. QED
    BY <1>9, <1>10, <1>11 DEF Button!ButtonInv

\* The wallet moves to another chain, and reports it unless it was there.
LEMMA ReportedStep ==
  ASSUME Button!ButtonInv, installed, NEW c \in Button!Ids,
         chain' = c, inbox' = Button!Reported(c),
         UNCHANGED <<installed, known, target, unread, state, blind>>,
         adds' \subseteq Button!Additions, IsFiniteSet(adds'),
         \A a \in adds' : a.stage = "prompt" => a.chain # Button!None
  PROVE  Button!ButtonInv'
  <1> DEFINE Messages == [for : Button!Ids \cup {"change"}, chain : Button!Ids \cup {Button!None}]
             m == [for |-> "change", chain |-> c]
  <1>1. CASE c = chain
    BY <1>1, AdditionsOnly DEF Button!Reported
  <1>2. CASE c # chain
    <2>1. inbox \in Seq(Messages) /\ inbox' = Append(inbox, m) /\ m \in Messages
      BY <1>2 DEF Button!Reported, Button!ButtonInv, Button!ButtonTypeOK
    <2>2. inbox' \in Seq(Messages) /\ inbox' # <<>> /\ inbox'[Len(inbox')] = m
      BY <2>1, LastOfAppend
    <2>3. Button!ButtonTypeOK'
      BY <2>2, SameOperators DEF Button!ButtonInv, Button!ButtonTypeOK
    <2>4. Button!LastWordIsOfTheWallet'
      <3>1. unread # <<>> => unread'[Len(unread')] = target'
        BY Zenon DEF Button!ButtonInv, Button!LastWordIsOfTheWallet
      <3>2. m.for = "change" /\ m.chain = chain'
        OBVIOUS
      <3> HIDE DEF m
      <3>3. inbox'[Len(inbox')].for = "change" /\ inbox'[Len(inbox')].chain = chain'
        BY <2>2, <3>2, Zenon
      <3>4. QED
        BY <2>2, <3>1, <3>3 DEF Button!LastWordIsOfTheWallet
    <2>5. Button!TargetIsKnown' /\ Button!NoWalletIsQuiet'
      BY DEF Button!ButtonInv, Button!TargetIsKnown, Button!NoWalletIsQuiet
    <2>6. QED
      BY <2>3, <2>4, <2>5 DEF Button!ButtonInv
  <1>3. QED
    BY <1>1, <1>2

LEMMA SwitchChainStep ==
  ASSUME Button!ButtonInv, NEW c \in Chains, Button!SwitchChain(c)
  PROVE  Button!ButtonInv'
  <1>1. c \in Button!Ids
    BY DEF Button!Ids
  <1>2. /\ adds \subseteq Button!Additions /\ IsFiniteSet(adds)
        /\ \A a \in adds : a.stage = "prompt" => a.chain # Button!None
    BY AdditionsShape
  <1>3. /\ installed /\ chain' = c /\ inbox' = Button!Reported(c)
        /\ UNCHANGED <<installed, known, target, unread, state, blind, adds>>
    BY DEF Button!SwitchChain, Button!watchVars, Button!addVars
  <1>4. QED
    BY <1>1, <1>2, <1>3, ReportedStep

LEMMA PromptStep ==
  ASSUME Button!ButtonInv, NEW a \in adds, NEW ok \in BOOLEAN, Button!PromptAnswered(a, ok)
  PROVE  Button!ButtonInv'
  <1> DEFINE b == [a EXCEPT !.stage = IF ok THEN "added" ELSE "refused"]
  <1>1. /\ adds \subseteq Button!Additions /\ IsFiniteSet(adds) /\ (~installed => adds = {})
        /\ \A e \in adds : e.stage = "prompt" => e.chain # Button!None
    BY AdditionsShape
  <1>2. /\ a.stage = "prompt" /\ UNCHANGED <<installed, known, target, unread, state, blind>>
        /\ chain' = (IF ok THEN a.chain ELSE chain)
        /\ inbox' = (IF ok THEN Button!Reported(a.chain) ELSE inbox)
        /\ adds' = (adds \ {a}) \cup {b}
    BY DEF Button!PromptAnswered, Button!watchVars, Button!Still
  <1>3. installed /\ a.chain \in Button!Ids
    BY <1>1, <1>2 DEF Button!Additions
  <1>4. b \in Button!Additions /\ b.stage # "prompt"
    BY <1>1 DEF Button!Additions
  <1>5. IsFiniteSet(adds')
    BY <1>1, <1>2, FS_RemoveElement, FS_AddElement
  <1>6. adds' \subseteq Button!Additions /\ \A e \in adds' : e.stage = "prompt" => e.chain # Button!None
    BY <1>1, <1>2, <1>4
  <1>7. CASE ok
    BY <1>2, <1>3, <1>5, <1>6, <1>7, ReportedStep
  <1>8. CASE ~ok
    BY <1>2, <1>3, <1>5, <1>6, <1>8, AdditionsOnly
  <1>9. QED
    BY <1>7, <1>8

\* The message received is the last word of the wallet if nothing is behind it.
LEMMA ReceiveStep ==
  ASSUME Button!ButtonInv, Button!Receive
  PROVE  Button!ButtonInv'
  <1> USE DEF Button!Still
  <1> DEFINE Messages == [for : Button!Ids \cup {"change"}, chain : Button!Ids \cup {Button!None}]
             t == IF Head(inbox).for = "change" THEN target ELSE Head(inbox).for
  <1>1. /\ inbox \in Seq(Messages) /\ inbox # <<>> /\ inbox' = Tail(inbox)
        /\ UNCHANGED <<installed, chain, unread, known, target>>
        /\ state' = Button!DeriveNetworkButtonState(t, Head(inbox).chain)
        /\ blind' = (Head(inbox).chain = Button!None)
        /\ adds' = adds \/ adds' = {[a EXCEPT !.own = FALSE] : a \in adds}
    BY DEF Button!ButtonInv, Button!ButtonTypeOK, Button!Receive
  <1>2. /\ inbox' \in Seq(Messages)
        /\ inbox' # <<>> => inbox'[Len(inbox')] = inbox[Len(inbox)]
        /\ inbox' = <<>> => Head(inbox) = inbox[Len(inbox)]
    BY <1>1, LastOfTail
  <1>3. installed
    BY <1>1, Zenon DEF Button!ButtonInv, Button!NoWalletIsQuiet
  <1>4. /\ adds \subseteq Button!Additions /\ IsFiniteSet(adds)
        /\ \A a \in adds : a.stage = "prompt" => a.chain # Button!None
    BY AdditionsShape
  <1>5. /\ adds' \subseteq Button!Additions /\ IsFiniteSet(adds')
        /\ \A a \in adds' : a.stage = "prompt" => a.chain # Button!None
    <2>1. CASE adds' = adds
      BY <1>4, <2>1
    <2>2. CASE adds' = {[a EXCEPT !.own = FALSE] : a \in adds}
      <3> DEFINE f == [a \in adds |-> [a EXCEPT !.own = FALSE]]
      <3>1. f \in Surjection(adds, adds')
        BY <2>2 DEF Surjection
      <3>2. IsFiniteSet(adds')
        BY <1>4, <3>1, FS_Surjection
      <3>3. QED
        BY <1>4, <2>2, <3>2 DEF Button!Additions
    <2>3. QED
      BY <1>1, <2>1, <2>2
  <1>6. Button!ButtonTypeOK'
    BY <1>1, <1>2, <1>5, SameOperators DEF Button!ButtonInv, Button!ButtonTypeOK
  <1>7. Button!LastWordIsOfTheWallet'
    <2>1. CASE unread # <<>>
      BY <1>1, <1>3, <2>1, Zenon DEF Button!ButtonInv, Button!LastWordIsOfTheWallet
    <2>2. CASE unread = <<>>
      <3>1. /\ inbox[Len(inbox)].for \in {"change", target}
            /\ inbox[Len(inbox)].chain \in {chain, Button!None}
        BY <1>1, <1>3, <2>2 DEF Button!ButtonInv, Button!LastWordIsOfTheWallet
      <3>2. CASE inbox' # <<>>
        <4>1. inbox'[Len(inbox')].for \in {"change", target'}
              /\ inbox'[Len(inbox')].chain \in {chain', Button!None}
          BY <1>1, <1>2, <3>1, <3>2, Zenon
        <4>2. QED
          BY <1>1, <2>2, <3>2, <4>1 DEF Button!LastWordIsOfTheWallet
      <3>3. CASE inbox' = <<>>
        <4>1. Head(inbox).for \in {"change", target} /\ Head(inbox).chain \in {chain, Button!None}
          BY <1>2, <3>1, <3>3, Zenon
        <4>2. blind' \/ state' = Button!DeriveNetworkButtonState(target, chain)
          BY <1>1, <4>1
        <4>3. QED
          BY <1>1, <2>2, <3>3, <4>2, Zenon DEF Button!LastWordIsOfTheWallet
      <3>4. QED
        BY <3>2, <3>3
    <2>3. QED
      BY <2>1, <2>2
  <1>8. Button!TargetIsKnown' /\ Button!NoWalletIsQuiet'
    BY <1>1, <1>3 DEF Button!ButtonInv, Button!TargetIsKnown, Button!NoWalletIsQuiet
  <1>9. QED
    BY <1>6, <1>7, <1>8 DEF Button!ButtonInv

LEMMA ButtonStepKeepsButton ==
  ASSUME Button!ButtonInv, ButtonStep
  PROVE  Button!ButtonInv'
  <1>1. CASE Button!Click \/ Button!CloseDialog \/ Button!HandleAdd
    BY <1>1, ClicksStep
  <1>2. CASE \E a \in adds :
               Button!AddDone(a) \/ \E info \in {BackendChain, Button!None} : Button!InfoFetched(a, info)
    BY <1>2, AdditionStep
  <1>3. CASE Button!ChainInfoAnswered \/ Button!ChainInfoFails
    BY <1>3, ChainInfoStep
  <1>4. CASE Button!WalletReads
    BY <1>4, WalletReadsStep
  <1>5. CASE Button!Receive
    BY <1>5, ReceiveStep
  <1>6. CASE \E c \in Chains : Button!SwitchChain(c)
    BY <1>6, SwitchChainStep
  <1>7. CASE \E a \in adds, ok \in BOOLEAN : Button!PromptAnswered(a, ok)
    BY <1>7, PromptStep
  <1>8. QED
    BY <1>1, <1>2, <1>3, <1>4, <1>5, <1>6, <1>7 DEF ButtonStep, Button!AddFlow, Button!WatchFlow

-----------------------------------------------------------------------------
(* What has been fetched, and the whole shell *)

LEMMA InitShellInv == Init => ShellInv
  <1> SUFFICES ASSUME Init
               PROVE  ShellInv
    OBVIOUS
  <1>1. NavInv
    BY DEF Init, NavInv
  <1>2. Box!BoxInv
    <2>1. asked \in Seq(Box!Requests) /\ suggestions \in Seq(Box!SuggestionRecords)
      BY EmptySeq DEF Init, Box!Init
    <2>2. DOMAIN suggestions = {} /\ selectedIndex \in Nat
      BY NoneIsNoPlace, EmptySeq DEF Init, Box!Init
    <2>3. QED
      BY <2>1, <2>2 DEF Init, Box!Init, Box!BoxInv, Box!BoxTypeOK, Box!TimerHasText,
         Box!HighlightIsChosen, Box!NewestIsOfTheText
  <1>3. Button!ButtonInv
    <2> DEFINE Messages == [for : Button!Ids \cup {"change"}, chain : Button!Ids \cup {Button!None}]
    <2>1. /\ installed \in BOOLEAN /\ chain \in Chains /\ known = Button!None /\ target = ConfigChain
          /\ state = "no-wallet" /\ inbox = <<>> /\ adds = {}
          /\ unread = IF installed THEN <<ConfigChain>> ELSE <<>>
      BY DEF Init, Button!Init
    <2>2. <<ConfigChain>> \in Seq(Button!Ids) /\ <<ConfigChain>> # <<>>
          /\ <<ConfigChain>>[Len(<<ConfigChain>>)] = ConfigChain
      BY DEF Button!Ids
    <2>3. unread \in Seq(Button!Ids) /\ inbox \in Seq(Messages)
      BY <2>1, <2>2, EmptySeq
    <2>4. Button!IsFiniteSet(adds)
      BY <2>1, FS_EmptySet, SameOperators
    <2>5. Button!ButtonTypeOK
      BY <2>1, <2>3, <2>4 DEF Button!ButtonTypeOK, Button!Ids
    <2>6. installed => unread # <<>> /\ unread[Len(unread)] = target
      BY <2>1, <2>2, Zenon
    <2>7. Button!TargetIsKnown /\ Button!NoWalletIsQuiet /\ Button!LastWordIsOfTheWallet
      BY <2>1, <2>6 DEF Button!TargetIsKnown, Button!NoWalletIsQuiet, Button!LastWordIsOfTheWallet,
         Button!ResolveChainIdHex
    <2>8. QED
      BY <2>5, <2>7 DEF Button!ButtonInv
  <1>4. QED
    BY <1>1, <1>2, <1>3 DEF ShellInv

LEMMA FetchesKeepNav ==
  ASSUME NavInv, Fetches
  PROVE  NavInv' /\ UNCHANGED <<boxVars, buttonVars>>
  <1> USE DEF mode, Answered, NavInv, Features
  <1>1. CASE StatsAnswered
    BY <1>1 DEF StatsAnswered
  <1>2. CASE NetworksLoaded
    BY <1>2 DEF NetworksLoaded
  <1>3. CASE PollGas
    BY <1>3 DEF PollGas
  <1>4. CASE GasAnswered
    BY <1>4 DEF GasAnswered
  <1>5. CASE CheckStatus
    BY <1>5 DEF CheckStatus
  <1>6. QED
    BY <1>1, <1>2, <1>3, <1>4, <1>5 DEF Fetches

\* Of the menus and links only one that leaves the page touches the search field.
LEMMA NavStepKeeps ==
  ASSUME NavInv, NavStep
  PROVE  /\ NavInv' /\ UNCHANGED buttonVars
         /\ \/ UNCHANGED boxVars
            \/ /\ Box!Cleared /\ asked' = <<>> /\ selectedIndex' = 0
               /\ overtaken' = FALSE /\ failed' = FALSE
  <1>1. CASE \E l \in Links : Follow(l)
    BY <1>1 DEF Follow, mode, fetched, NavInv, Features
  <1>2. CASE \/ ToggleDropdown \/ ClickElsewhere \/ ToggleMobileMenu \/ SignIn \/ Logout \/ LoggedOut
             \/ \E t \in {"light", "dark"} : SetTheme(t)
    <2>1. Quiet
      BY <1>2, Zenon DEF ToggleDropdown, ClickElsewhere, ToggleMobileMenu, SignIn, Logout, LoggedOut, SetTheme
    <2>2. NavInv'
      BY <2>1 DEF Quiet, mode, fetched, NavInv, Features
    <2>3. QED
      BY <2>1, <2>2, Zenon DEF Quiet
  <1>3. QED
    BY <1>1, <1>2 DEF NavStep

LEMMA ShellNext == ShellInv /\ [Next]_vars => ShellInv'
  <1> SUFFICES ASSUME ShellInv, [Next]_vars
               PROVE  ShellInv'
    OBVIOUS
  <1> USE DEF ShellInv
  <1>1. ASSUME UNCHANGED boxVars
        PROVE  Box!BoxInv'
    BY <1>1, BoxKept DEF boxVars
  <1>2. CASE SearchStep
    <2>1. NavInv' /\ UNCHANGED buttonVars
      BY <1>2 DEF SearchStep, mode, fetched, NavInv, Features
    <2>2. QED
      BY <1>2, <2>1, SearchStepKeepsBox, ButtonKept
  <1>3. CASE ButtonStep
    <2>1. UNCHANGED privacyEnabled
      BY <1>3 DEF ButtonStep, Button!AddFlow, Button!WatchFlow, Button!Click, Button!CloseDialog,
         Button!HandleAdd, Button!AddDone, Button!InfoFetched, Button!ChainInfoAnswered,
         Button!ChainInfoFails, Button!WalletReads, Button!Receive, Button!SwitchChain,
         Button!PromptAnswered, Button!Still
    <2>2. NavInv' /\ UNCHANGED boxVars
      BY <1>3, <2>1 DEF ButtonStep, mode, NavInv, Features
    <2>3. QED
      BY <1>1, <1>3, <2>2, ButtonStepKeepsButton
  <1>4. CASE NavStep
    BY <1>1, <1>4, NavStepKeeps, ClearedStep, ButtonKept
  <1>5. CASE Fetches
    BY <1>1, <1>5, FetchesKeepNav, ButtonKept
  <1>6. CASE UNCHANGED vars
    BY <1>1, <1>6, ButtonKept DEF vars, mode, fetched, NavInv, Features
  <1>7. QED
    BY <1>2, <1>3, <1>4, <1>5, <1>6 DEF Next

\* Layout.tsx, AddNetworkButton.tsx, SearchBar.tsx: what every step of the shell preserves.
THEOREM ShellInvariant == Spec => []ShellInv
  BY InitShellInv, ShellNext, PTL DEF Spec

\* Layout.tsx, NetworkMenu.tsx: every link offered is of a page that is there in the
\* mode the deployment and the backend are in, and of a network that is a web page,
\* in whatever order /stats, the network list and the gas prices are answered.
THEOREM LinksAreAlive == Spec => []NoDeadLink
  <1>1. ShellInv => NoDeadLink
    <2> SUFFICES ASSUME ShellInv
                 PROVE  NoDeadLink
      OBVIOUS
    <2> USE DEF ShellInv, NavInv, Features
    <2>1. Unavailable \subseteq {"/verify", "/stats", "/gas-tracker", "/privacy"}
      BY DEF Unavailable
    <2>2. "/verify" \in Links => Features["contractVerification"]
      BY DEF Links, HeaderLinks, FooterLinks, NavLinks, MobileLinks, MobileNavItems, BlockchainItems,
         TokenItems, AuthLinks
    <2>3. "/stats" \in Links => Features["charts"]
      BY DEF Links, HeaderLinks, FooterLinks, NavLinks, MobileLinks, MobileNavItems, BlockchainItems,
         TokenItems, AuthLinks
    <2>4. "/gas-tracker" \in Links => Features["gasTracker"]
      BY DEF Links, HeaderLinks, FooterLinks, NavLinks, MobileLinks, MobileNavItems, BlockchainItems,
         TokenItems, AuthLinks
    <2>5. "/privacy" \in Links => private
      BY DEF Links, HeaderLinks, FooterLinks, NavLinks, MobileLinks, MobileNavItems, BlockchainItems,
         TokenItems, AuthLinks
    <2>6. Links \cap Unavailable = {}
      BY <2>1, <2>2, <2>3, <2>4, <2>5 DEF Unavailable
    <2>7. \A n \in NetworkLinks \cup MobileNetworkLinks : n.http
      BY DEF NetworkLinks, MobileNetworkLinks, Switcher
    <2>8. QED
      BY <2>6, <2>7 DEF NoDeadLink
  <1>2. QED
    BY <1>1, ShellInvariant, PTL

\* SearchBar.tsx:96-124: what Enter follows is what the arrow keys have moved to, and
\* never a suggestion that an answer has put in its place.
THEOREM HighlightIsOfTheUser == Spec => []HighlightIsChosen
  <1>1. ShellInv => HighlightIsChosen
    BY DEF ShellInv, Box!BoxInv, HighlightIsChosen
  <1>2. QED
    BY <1>1, ShellInvariant, PTL

\* SearchBar.tsx:28-56: once the timer has fired and every request is answered, the
\* suggestions are those of the text, unless the last answer failed or was overtaken.
THEOREM SuggestionsFollowTheText == Spec => []ListOfTheText
  <1>1. ShellInv => ListOfTheText
    <2>1. DOMAIN <<>> = {}
      OBVIOUS
    <2>2. QED
      BY <2>1 DEF ShellInv, Box!BoxInv, Box!NewestIsOfTheText, Box!ListOfTheText, ListOfTheText
  <1>2. QED
    BY <1>1, ShellInvariant, PTL

\* useNetworkButton.ts, metamask.ts: with nothing under way the button shows whether
\* the wallet is on the chain of the explorer, whichever of /chain-info, the answers
\* of the wallet and its events came first.
THEOREM ButtonShowsTheWallet == Spec => []ButtonAgreesWithWallet
  <1>1. ShellInv => ButtonAgreesWithWallet
    <2> USE DEF ShellInv, Button!ButtonInv, Button!TargetIsKnown, Button!Settled
    <2>1. ASSUME ShellInv, Button!Settled, ~blind, installed
          PROVE  state = Button!DeriveNetworkButtonState(Button!ResolveChainIdHex(known), chain)
      BY <2>1 DEF Button!LastWordIsOfTheWallet
    <2>2. ASSUME ShellInv, ~installed
          PROVE  state = Button!DeriveNetworkButtonState(Button!ResolveChainIdHex(known), Button!None)
      BY <2>2 DEF Button!NoWalletIsQuiet, Button!DeriveNetworkButtonState
    <2>3. QED
      BY <2>1, <2>2 DEF ButtonAgreesWithWallet, Button!ButtonAgreesWithWallet
  <1>2. QED
    BY <1>1, ShellInvariant, PTL

=============================================================================
