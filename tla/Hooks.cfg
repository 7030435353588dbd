SPECIFICATION FreshSpec
CONSTANTS
  fn1 = fn1
  fn2 = fn2
  quick = quick
  slow = slow
  plain = plain
  f1 = f1
  g1 = g1
  f2 = f2
  q1 = q1
  r1 = r1
  s1 = s1
  p1 = p1
  NoHook = NoHook
  Original = Original
  Null = Null
  JniTarget = {fn1, fn2}
  JavaTarget = {quick, slow, plain}
  NativeOnes = {quick, slow}
  FastOnes = {quick}
  Bang = {q1}
  Api = 27
  Hook <- MCHook
  TargetOf <- MCTargetOf
  JniBatches <- MCJniBatches
  JavaBatches <- MCJavaBatches
INVARIANT BackupReady OriginalReachable FastFlagKept
