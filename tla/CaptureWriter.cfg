SPECIFICATION Spec
CONSTANTS
  Align = 2
  HeadLen = 2
  BufLen = 6
  MaxLen = 4
  Lens = {2, 4, 6}
  Interval = 2
  n1 = n1  n2 = n2
  Names = {n1, n2}
  JitMax = 1
  Sources <- TheSources
  Saved <- TheFiles
  MaxAdds = 2
  MaxNames = 2
  MaxFaults = 1
INVARIANTS LoadAgrees ChainUnbroken NothingLost NamesResolve
PROPERTY SavedIsCapture
