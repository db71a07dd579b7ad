SPECIFICATION FairSpec
CONSTANTS
  None = None
  Root = {r1, r2}
  Subtree = {s1, s2}
  Worker = {w1, w2}
  Change = {c1}
INVARIANTS OneSweepAtATime ReportsOwnChanges StopsSoon
PROPERTY KeepsSweeping
