SPECIFICATION FairSpec
CONSTANTS
  MaxDocs = 2
  MaxClicks = 1
  MaxNews = 1
  MaxSignOuts = 1
CHECK_DEADLOCK FALSE
INVARIANTS FeedIsOfThisFrame NoTemplateOverRun
PROPERTIES ReadyAfterLoadConnects EveryPanelGetsContext HeardExportIsPosted
