CONSTANTS
  Type <- MCType
  Rel <- MCRel
  Resource <- MCResource
  Relation <- MCRelation
  TableStore <- MCTableStore
  Requests <- MixedRequests
SPECIFICATION Spec
INVARIANTS
  TypeOK
  CteNamesUnique
  DefinedBeforeUse
  ColumnsResolve
  PlaceholdersInOrder
  ParamsAligned
  WritesInPlace
  WritesAsAsked
  Punctuated
  ChainsHaveParents
  UnknownErrorOnlyWritingRel
  MultiSortRefused
  SortsByTheChain
  IInv
