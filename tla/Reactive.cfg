SPECIFICATION Spec
CONSTANTS
  s1 = s1
  s2 = s2
  p = p
  l = l
  m = m
  App = App
  Signals <- TwoSignals
  Memos <- OneMemo
  Effects <- TwoEffects
  Layout <- OneLayout
  Listed <- MemoAndLayout
  Inputs <- MemoReads
  Reads <- EffectReads
  Writes <- EffectWrites
  MaxCallbacks = 2
CHECK_DEADLOCK FALSE
INVARIANTS NoReentry GraphInv ChangesReachReaders NoLostWakeup MemosAreCurrent
PROPERTIES DisposedNeverRuns FlushIsGlitchFree
