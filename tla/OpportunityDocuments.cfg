\* Two attachments, one tab beside the coordinators who do not look.
SPECIFICATION Spec
CONSTANTS
  Files = {a1, a2}
  Tabs = {k1}
  Contents = {before, after}
  Initial = before
  MaxCommands = 3
  MaxPuts = 2
  MaxPending = 1
INVARIANTS
  DocumentsTypeOK
  EditsAreInformed
  PurgedOnce
  StoredIsTracked
CHECK_DEADLOCK FALSE
