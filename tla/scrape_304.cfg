SPECIFICATION SourcesSpec
CONSTANTS
  geonode = geonode
  plain = plain
  A = A
  B = B
  C = C
  Local = Local
  Text = Text
  Kind <- MCKind
  v1 = v1
  v2 = v2
  NoTag = NoTag
  Nobody = Nobody
  Order <- MCOrder
  Config <- MCConfig
  Lists <- StaticLists
  Editions <- StaticEditions
  Items <- MCItems
  MaxPages <- MCPages
  StaleUnseen = 1
  MaxNow = 4
  MaxCrashes = 0
PROPERTY StillCarriedKept
