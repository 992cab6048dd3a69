CONSTANTS
  Coalitions = {"red", "blue"}
  Postures = {"hold", "advance"}
  Names <- MCNames
  Texts <- MCTexts
  LineBreaks = {"two lines"}
  Absent = Absent
  Missing = Missing
  Empty = Empty
  Garbled = Garbled
  Sessions = {s1, s2}
  Ids = {"base", "copy"}
  Drafts = {d1, d2}
  Labels = {"draft", "renamed"}
  Payloads <- MCPayloads
  Requests <- MCRequests
  Shipped <- MCShipped
  MaxRequests = 5
  None = None
SYMMETRY Symmetry
SPECIFICATION StudioSpec
INVARIANTS StudioTypeOK ListedScenariosArePlayable RunsAreWhole AloneASaveIsComplete
