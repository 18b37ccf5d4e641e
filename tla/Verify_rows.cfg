SPECIFICATION Spec
CONSTANTS
  r1 = r1
  r2 = r2
  contract = contract
  interface = interface
  body = body
  other = other
  metadata1 = metadata1
  metadata2 = metadata2
  v1 = v1
  v19 = v19
  plain = plain
  lower = lower
  None = None
  Requests = {r1, r2}
  Versions = {v1, v19}
  Longer <- MCLonger
  Unhashed = {v19}
  Sources = {contract, interface}
  Spellings = {plain, lower}
  Plain = plain
  Pieces = {body, other, metadata1, metadata2}
  Metadata = {metadata1, metadata2}
  OnChain <- MCOnChain
  Gives <- MCGives
  Args <- MCArgs
SYMMETRY RequestSymmetry
INVARIANTS StoredMatches BrokenOnlyIfSpoilt
