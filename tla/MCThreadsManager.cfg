CONSTANTS
  main=main w1=w1 w2=w2 auto=auto manual=manual None=None
  Main=main Workers={w1,w2} Events={auto,manual} ManualEvents={manual}
  Builds={"i386","x86_64"} MaxOps=1
SPECIFICATION Spec
INVARIANTS TypeOK ListsComplete ShutdownComplete EventNotStranded
PROPERTIES ShutdownEnds
CHECK_DEADLOCK FALSE
