CONSTANTS
  a=a b=b m1=m1 m2=m2 m3=m3 m4=m4 m5=m5 t1=t1 t2=t2 t3=t3 t4=t4 t5=t5
  Methods={m1,m2,m3,m4} InIR={m1,m2,m3,m4} Tickets={t1,t2,t3,t4} Callers={a,b}
  Scheduler=Scheduler Reaper=Reaper None=None
  Mode="plain" MaxPriority=1 HighThreshold=1 MaxCctorThreads=7 CctorsDelta=2
  Callees<-NoCallees CctorsToCall<-CyclicCctors Requests<-SynchAndEmpty
SPECIFICATION Spec
CHECK_DEADLOCK FALSE
INVARIANTS TypeOK ExecutableIsLinked CctorThreadFree ReaperFindsIdleThreads CctorsRanBefore NeverStuck
PROPERTIES CompiledOnReturn CctorRunsOnce
SYMMETRY TicketSymmetry
