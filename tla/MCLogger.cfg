SPECIFICATION Spec
CONSTANTS
  t1 = t1
  t2 = t2
  t3 = t3
  f1 = f1
  f2 = f2
  f3 = f3
  f4 = f4
  l1 = l1
  l2 = l2
  Threads = {t1, t2}
  Lines = {l1, l2}
  Files = {f1, f2, f3, f4}
  NoFile = NoFile
  Fds = {3, 4, 5}
  MaxTime = 4
  RotateInterval = 2
  Straggle = FALSE
SYMMETRY LoggerSymmetry
INVARIANTS TypeOK OneRotator FailuresRetried LogIsCurrent DescriptorsAccounted
PROPERTIES NamesKept RotatesForward
