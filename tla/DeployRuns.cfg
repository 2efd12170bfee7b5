SPECIFICATION FairSpec
CONSTANTS
  Runs = {r1}
  Hosts = {r1}
  Foreign = {f1}
  Succeeds = {r1}
  Handlers = {h1}
  Poller = Poller
  None = None
  Slack = 1
  MaxClock = 2
  MaxFaults = 1
INVARIANT DeployInv
PROPERTY RunsSettle
