SPECIFICATION SourcesSpec
CONSTANTS
  geonode = geonode
  plain = plain
  A = A
  B = B
  C = C
  Local = Local
  Text = Text
  Kind <- MCKind
  v1 = v1
  v2 = v2
  NoTag = NoTag
  Nobody = Nobody
  Order <- TrailingOrder
  Config <- TrailingConfig
  Lists <- TrailingLists
  Editions <- TrailingEditions
  Items <- MCItems
  MaxPages <- MCPages
  StaleUnseen = 0
  MaxNow = 2
  MaxCrashes = 1
INVARIANT LabelHonest
