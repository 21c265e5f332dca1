\* Two publishers over two scopes, with a gap between two of the dates.
SPECIFICATION HistorySpec
CONSTANTS
  NoRow = NoRow
  NumScopes = 2
  Publishers = {p1, p2}
  Dates = {1, 2, 4}
SYMMETRY PublisherSymmetry
INVARIANTS
  HistorySound
PROPERTIES
  KeepsTimeline
