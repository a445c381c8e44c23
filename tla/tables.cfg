CONSTANTS
  Nodes <- MCNodes
  Counts = {0, 1, 2}
  Keys <- MCKeys
  IdRange = 4
  MaxIds = 2
  TreeNodes <- MCNodes
  MaxKids = 2
  Lists <- MCLists
  Bags <- MCBags
  Empty = Empty
SPECIFICATION SceneSpec
INVARIANTS LookupRight EntitiesRight StaticRight ResponseRight
PROPERTY SearchEnds
CHECK_DEADLOCK FALSE
