SPECIFICATION QueueSpec
CONSTANTS
  Servers = {"serving", "failing", "refusing"}
  Pages = {t1}
  MaxOps = 2
  MaxGen = 2
INVARIANTS
  QueueTypeOK
  DecidedInOrder
  QuietMeansDrained
PROPERTIES
  QueueImplementsDelivery
