CONSTANTS
  Type <- MCType
  Rel <- MCRel
  Resource <- CompositeResource
  Relation <- MCRelation
  TableStore <- MCTableStore
  Requests <- UnsortedReads
SPECIFICATION Spec
INVARIANT FilterIsOneCondition
