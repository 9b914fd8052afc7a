\* Three messages, a model that fails over to another, one edit of the configuration.
CONSTANTS
  primary = primary
  spare = spare
  unsaved = unsaved
  Texts = {t1, t2}
  Voices = {v1}
  Models = {primary, spare, unsaved}
  Resolvable = {primary, spare}
  Configs <- ModelLists
  RateLimit = 2
  Window = 2
  Cooldown = 2
  SendInterval = 1
  MaxEdits = 1
SPECIFICATION Spec
INVARIANT RepliesInOrder
PROPERTIES BreakerSound EndsUnlessHung
CHECK_DEADLOCK FALSE
