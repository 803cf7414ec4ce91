SPECIFICATION Spec
CONSTANTS
  Names = {2, 3}
  SourceKey <- Spelt
  FieldIds = {1}
  MaxWidth = 2
  MaxSheets = 2
  AskedSheets <- SheetIndices
INVARIANTS
  SheetHonoured
