CONSTANTS
  a=a b=b m1=m1 m2=m2 m3=m3 m4=m4 m5=m5 t1=t1 t2=t2 t3=t3 t4=t4 t5=t5
  Methods={m1,m2} InIR={} Tickets={t1,t2,t3} Callers={a}
  Scheduler=Scheduler Reaper=Reaper None=None
  Mode="dla" MaxPriority=1 HighThreshold=1 MaxCctorThreads=1 CctorsDelta=2
  Callees<-MutualCallees CctorsToCall<-NoCctors Requests<-TillIR
SPECIFICATION Spec
CHECK_DEADLOCK FALSE
INVARIANTS TicketInOnePlace InsertionKeepsTicket
SYMMETRY TicketSymmetry
