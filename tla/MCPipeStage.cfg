CONSTANTS
  l1=l1 l2=l2 h1=h1 h2=h2 t1=t1 t2=t2
  LowThreads={l1,l2} HighThreads={h1,h2} StartThreads={l1,h1}
  Tickets={t1,t2} NoTicket=NoTicket
  MaxPriority=1 HighThreshold=1 MaxKills=1
SPECIFICATION Spec
INVARIANTS TypeOK WorkNeverStranded PlacesAgree BusyWorkersAgree SteadyCounts
PROPERTIES KillEnds ImplementsStage
