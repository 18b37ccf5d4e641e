------------------------------ MODULE MCShell -------------------------------
(* A number that is a block itself and begins another, a text with two kinds *)
(* of matches that names nothing itself; the explorer's chain and another.   *)
EXTENDS Shell

Block(n) == [type |-> "block", value |-> n]
MCMatches == [t \in {"1", "0x"} |->
  IF t = "1" THEN <<Block("1"), Block("12")>>
             ELSE <<[type |-> "address", value |-> "a"], [type |-> "tx", value |-> "h"]>>]
MCDirect == [t \in {"1", "0x"} |-> IF t = "1" THEN <<"block", "1">> ELSE <<>>]
MCListed == {[url |-> "n1", http |-> TRUE], [url |-> "n2", http |-> TRUE],
             [url |-> "n3", http |-> FALSE]}

\* The parts share the route and what /stats has said: the search is looked at
\* in a tab that has loaded, the button and the menus one without the other.
\* Only a backend of privacy mode has sessions.
Loaded == asking = {} /\ ~loading /\ gasPrices = "shown" /\ networks = {}
BoxIdle == search = "" /\ asked = <<>> /\ suggestions = <<>> /\ selectedIndex = 0
OneBusy ==
  /\ BoxIdle \/ (Loaded /\ ~installed /\ openMenus = {} /\ ~dialogOpen)
  /\ installed => openMenus = {} /\ ~mobileMenuOpen /\ location = <<"/">> /\ networks = {}
MCInit == Init /\ (session => private) /\ (installed => ~session /\ ~small)
MCSpec == MCInit /\ [][Next /\ OneBusy']_vars
=============================================================================
