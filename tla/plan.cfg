CONSTANTS
  Type <- MCType
  Rel <- MCRel
  Resource <- MCResource
  Relation <- MCRelation
  TableStore <- MCTableStore
  Requests <- PlainRequests
SPECIFICATION Spec
PROPERTIES
  ImplementsPlan
  Ends
