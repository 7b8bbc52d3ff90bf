\* All trees over seven keys, and sweeps that remove none, some or all of the nodes.
CONSTANTS
  Keys <- MCKeys
  STACK_MAX = 4
  Flushed <- MCFlushed

SPECIFICATION SweepSpec
INVARIANTS OSetShape StackFits
PROPERTIES ImplementsOrderedSet SweepExact SweepEnds
