SPECIFICATION Spec
CONSTANTS
  CanvasEdits <- SomeCanvasEdits
  ApiEdits <- SomeApiEdits
  ExtraNode <- SomeExtraNodes
  Droppable <- SomeDroppable
  Installed <- PinnedExecutor
  Executors <- SomeExecutors
  TemplateInputs <- SomeTemplateInputs
  Manifests <- SomeManifests
  Blemishes <- SomeBlemishes
  MaxChanges = 2
INVARIANTS RunsAsShown ExportIsValid VerdictFitsFingerprint SubmittedAsRecorded OnlyPreviewsAreReviewed TemplateMakesInput
CHECK_DEADLOCK FALSE
