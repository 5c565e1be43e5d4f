CONSTANTS
  t1=t1 t2=t2 None=None Threads={t1,t2} N=8 Byte=4 Sizes={1,3} MaxBlocks=2
SPECIFICATION Spec
INVARIANTS TypeOK NoOverlap GuardExact SearchExact
PROPERTIES SearchEnds
CHECK_DEADLOCK FALSE
