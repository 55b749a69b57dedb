CONSTANTS
  Sources <- MCSources
  Count = 2
SPECIFICATION Spec
INVARIANTS
  TypeOfColumn
  ScalarsApart
  PanicsOnObjects
