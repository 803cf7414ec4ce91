SPECIFICATION Spec
CONSTANTS
  Names = {1, 2, 3}
  SourceKey <- Spelt
  FieldIds = {1, 2}
  MaxWidth = 2
  MaxSheets = 1
  AskedSheets <- SheetIndices
INVARIANTS
  TypeOK
  RequiredNeverNil
  CellsComeFromTheirColumn
  RowVerdict
