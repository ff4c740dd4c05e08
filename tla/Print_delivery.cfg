SPECIFICATION FairSpec
CONSTANTS
  kitchen = kitchen
  bar = bar
  counter = counter
  spare1 = spare1
  spare2 = spare2
  food = food
  drinks = drinks
  agent = agent
  None = None
  Printers <- MCPrinters
  Stations <- MCStations
  MaxLines = 3
  Agents <- MCAgents
  AgentOf <- MCAgentOf
  Serves <- MCServes
  Flows <- MCFlows
  ManualUse <- MCManualUse
  ReplayLimit = 2
  MaxAttempts = 1
  MaxJobs = 2
  MaxUpsets = 2
CHECK_DEADLOCK FALSE
INVARIANTS NothingForgotten LinesReachTheirStation
PROPERTIES LateAckNeverRegresses QueuedIsDelivered
