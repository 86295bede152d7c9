SPECIFICATION SourcesFairSpec
CONSTANTS
  geonode = geonode
  plain = plain
  A = A
  B = B
  C = C
  Local = Local
  Text = Text
  Kind <- MCKind
  v1 = v1
  v2 = v2
  NoTag = NoTag
  Nobody = Nobody
  Order <- MCOrder
  Config <- MCConfig
  Lists <- MCLists
  Editions <- MCEditions
  Items <- MCItems
  MaxPages <- MCPages
  StaleUnseen = 0
  MaxNow = 2
  MaxCrashes = 1
INVARIANTS SourcesTypeOK NothingHidden OnlyPublic LabelHonest TotalCovers
PROPERTIES BestSourceOwns AddressesListed
