CONSTANTS
  main=main w1=w1 w2=w2 auto=auto manual=manual None=None
  Main=main Workers={w1,w2} Events={auto} ManualEvents={}
  Builds={"x86_64"} MaxOps=0
SPECIFICATION Spec
PROPERTIES UnstartedKilled
CHECK_DEADLOCK FALSE
