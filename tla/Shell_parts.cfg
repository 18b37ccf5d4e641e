\* Users stop giving inputs at the bounds: the shell may come to rest.
CONSTANTS
  Texts = {"", "1", "0x"}
  Matches <- MCMatches
  Direct <- MCDirect
  MaxAsked = 2
  Chains = {"0x1", "0x2"}
  BackendChain = "0x1"
  ConfigChain = "0x2"
  MaxQueue = 2
  MaxAdds = 1
  Listed <- MCListed
  BasePath = ""
  MaxBoxMoves = 4
  MaxButtonMoves = 3
  MaxNavMoves = 3
SPECIFICATION MCSpec
CHECK_DEADLOCK FALSE
INVARIANTS NoDeadLink HighlightIsChosen ListOfTheText ButtonAgreesWithWallet
