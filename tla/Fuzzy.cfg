SPECIFICATION Spec
CONSTANTS
  Alnum <- Letters
  Others <- Separators
  Lower <- ToLower
  ColumnLists <- Columns
  FieldLists <- Fields
INVARIANTS
  TypeOK
  EachColumnItsClosest
