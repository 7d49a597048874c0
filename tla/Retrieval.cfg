SPECIFICATION Spec
CONSTANTS
  None = None
  Entity = {1, 2, 3, 4, 5, 6, 7}
  Chunk = {1, 2, 3, 4}
  Version = {"a", "b", "c"}
  Generation = {1, 2}
  TypeOf <- Types
  NameOf <- Names
  AliasOf <- Aliases
  MaxConfidence = 1
  PathDigest <- Number
  Digest <- Number
  Scale = 60
  RrfK = 1
  MaxRank = 4
  VersionOf <- Versions
  Facts <- AllFacts
  Call <- Calls
  DefaultTopK = 3
  MaxTopK = 4
  VectorDefaultTopK = 2
  VectorMaxTopK = 3
  MaxDepth = 3
  DefaultLimit = 3
  MaxLimit = 3
  MaxSupportingChunks = 2
  Stores <- AllStores
  MaxWrites = 2
INVARIANTS TypeOK VersionsAgree ProvenanceTold RanksRespected PathsAreStored
