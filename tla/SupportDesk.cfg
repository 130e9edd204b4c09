\* One student with two requests at a time, two coordinators, one ticket.
SPECIFICATION Spec
CONSTANTS
  Identities = {f1}
  UserIds = {u1, u2}
  Requests = {r1, r2}
  Nobody = nobody
  NoUser = nouser
  NoReader = nouser
  Readers = {u1, u2}
  Sweeps = {w1}
  BatchSize = 1
  TicketIds = {t1}
  Coordinators = {c1, c2}
  Acting = {c1}
  MaxCommands = 3
  MaxPending = 1
INVARIANTS
  DeskTypeOK
  OneUserPerIdentity
  ActivityExplainsStatus
  TransitionsAreInformed
  MatchedCommandsRunOnce
  EveryoneIsTold
  MarkAllLeavesNothingBehind
  ShownReadIsRead
PROPERTIES
  MarkAllReturns
  ImplementsHelpDesk
CHECK_DEADLOCK FALSE
