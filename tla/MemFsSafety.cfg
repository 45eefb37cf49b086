SPECIFICATION MCSpec
CONSTANTS
  c1 = c1
  c2 = c2
  root = root
  news = news
  newsline = newsline
  fa = fa
  fb = fb
  Clients = {c1, c2}
  Nodes <- MCNodes
  Root = root
  ParentOf <- MCParent
  Longer <- MCLonger
  Bytes <- MCBytes
  Setups <- MCSetups
  MaxObjects = 7
  Kinds = {"memfs", "dsfs"}
  MaxLen = 2
  Entries = {0, 2}
  MaxCalls = 4
SYMMETRY Sym
INVARIANTS Listed HarmedOnlyByRemoval ServesShadow NothingSkipped
CHECK_DEADLOCK FALSE
