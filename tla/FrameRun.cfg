CONSTANTS
  Fibers = {f1, f2}
  Root = root
  MaxFrames = 4
  MaxSize = 5
  MaxNest = 2
SPECIFICATION Spec
SYMMETRY Alike
INVARIANTS ContextsAgree BreaksKeepTheirTarget
PROPERTIES NativesGetTheirFramesBack EnsuresRun DeliversWhereItIsAwaited
