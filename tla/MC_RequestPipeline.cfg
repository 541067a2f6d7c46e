SPECIFICATION Spec
CONSTANTS
  UserChain <- Mixed
  RouteChain <- GuardThenUser
  MaxActs = 2
  Statuses = {200, 500}
INVARIANTS HandlerAtMostOnce PanicContained
PROPERTIES OnceInOrder GlobalsBeforeRoute EventuallyAnswered
