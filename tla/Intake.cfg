\* Payloads with up to two fields changed, five stored definitions, and every
\* sheet of nine columns, one of which may be faint.
CONSTANTS
  Keys <- Names
  AssetUris = {"assets://a"}
  SegmentPadding = 2
  Width = 9
  MaxFaint = 1
  MaxShades = 1
  Payloads <- TwoChanges
  StoredRules <- Releases
SPECIFICATION IntakeSpec
CHECK_DEADLOCK FALSE
INVARIANT NothingConsumedIsRefused
INVARIANT Conforms
INVARIANT NothingCutOff
INVARIANT OwnFigure
