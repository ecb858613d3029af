SPECIFICATION FairSpec
CONSTANTS
  c1 = c1
  h1 = h1
  h2 = h2
  None = None
  Callers = {c1}
  Hosts = {h1, h2}
  Hellos <- MCHellos
  Deployments <- MCDeployments
  MaxHello = 1
  MaxAttempts = 2
  MaxFrames = 2
CHECK_DEADLOCK FALSE
 
PROPERTY ConnectEnds
