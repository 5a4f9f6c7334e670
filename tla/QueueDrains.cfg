SPECIFICATION FairQueueSpec
CONSTANTS
  Servers = {"serving", "failing", "refusing"}
  Pages = {t1}
  MaxOps = 2
  MaxGen = 1
PROPERTIES
  Drains
  ReopeningDrains
