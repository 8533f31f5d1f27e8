SPECIFICATION Spec
CONSTANTS
  a = a
  b = b
  c = c
  r = r
  m = m
  Plugins <- ThreePlugins
  Metadata <- Versions
  WithHooks <- Hooked
  Registrars <- OneRegistrar
  Managers <- OneManager
CHECK_DEADLOCK FALSE
INVARIANTS GraphsMirror LifecycleInv DependentsGoFirst ServedOnce
