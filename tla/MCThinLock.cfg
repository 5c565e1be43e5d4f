CONSTANTS
  t1=t1 t2=t2 t3=t3 None=None
  Threads={t1,t2,t3} Address<-MCAddress IdRange=8
  Libraries={"os","thin"} MaxNesting=1 MaxDepth=4
SPECIFICATION Spec
INVARIANTS TypeOK MutualExclusion NestingKept AbortsOnlyMisuse
PROPERTIES FreeMonitorTaken ImplementsMonitor
CHECK_DEADLOCK FALSE
