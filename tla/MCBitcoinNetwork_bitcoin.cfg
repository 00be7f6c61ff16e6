\* Two or three nodes: connect, mine, disconnect, mine, reconnect, in any order.
SPECIFICATION Spec
CONSTANTS
  Sizes = {2, 3}
  Subver <- OneSubversion
  MaxHeight = 2
CONSTRAINT Followed
INVARIANTS TypeOK FirstConnectLinksAll SyncedIfOneMiner
PROPERTIES DisconnectCutsAll ConnectLinksPair
