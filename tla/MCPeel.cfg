SPECIFICATION Spec
CONSTANTS
  one = one
  two = two
  None = None
  ProofFns <- MCProof
  Axioms <- MCAxioms
  OtherFns <- MCOther
  SpecFns <- MCSpec
  Paths <- MCPaths
  Kind <- MCKind
  Glue <- MCGlue
  LemmaPaths <- MCLemmaPaths
  Sources <- MCSources
  Manifests <- MCManifests
  Cuts <- MCCuts
  Dests = {one, two}
  Branch <- MCBranch
  MaxBuilds = 2
INVARIANTS
  TypeOK
  FloorFrozen
  UnpinnedKeepsMeaning
  HarderLeavesLess
  CountIsHonest
  SealedWhenReported
SYMMETRY Symmetry
CHECK_DEADLOCK FALSE
