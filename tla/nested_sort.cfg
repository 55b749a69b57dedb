CONSTANTS
  Type <- MCType
  Rel <- MCRel
  Resource <- MCResource
  Relation <- MCRelation
  TableStore <- MCTableStore
  Requests <- NestedSorts
SPECIFICATION Spec
INVARIANT SortsResolve
