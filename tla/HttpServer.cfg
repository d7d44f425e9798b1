SPECIFICATION RoutingSpec
CONSTANTS
  w1 = w1
  Wsis = {w1}
  MaxChunks = 3
  Outcomes = {"value", "empty", "broken", "exception"}
  None = None
  Characters = {"/", "a", "b", "registry"}
  Methods <- TwoMethods
  Names <- SomeNames
  Paths <- SomePaths
  Slash = "/"
  Registry <- RegistryPath
  MaxEndpoints = 2
INVARIANTS NothingThrown AnsweredOnce CalledWithWholeBody
PROPERTIES Answered CalledAsRegistered
CHECK_DEADLOCK FALSE
