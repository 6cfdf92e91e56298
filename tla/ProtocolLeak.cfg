SPECIFICATION ConvSpec
CONSTANTS
  Nodes = {n1, n2, n3, n4}
  Sections = {"light", "environment", "misc"}
  NoNode = NoNode
INVARIANTS
  DestroyFreesAll
