CONSTANTS
  Type <- MCType
  Rel <- MCRel
  Resource <- MCResource
  Relation <- MCRelation
  TableStore <- MCTableStore
  Requests <- UnsortedReads
SPECIFICATION Spec
INVARIANT RelatesToChain
