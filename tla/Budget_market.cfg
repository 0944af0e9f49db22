\* The market policy under a session limit that is raised and lowered, with an
\* agent, the root, a team and a host.
SPECIFICATION ActorSpec
CONSTANTS
  NoLimit = NoLimit
  agent = agent
  root = root
  team = team
  Agents <- OneAgent
  Roots <- OneRoot
  Teams <- OneTeam
  MaxTokens = 3
  MaxAllocations = 2
  Mode = "market"
  Batches <- MCBatches
  Limits <- MCLimits
  Amounts = {1, 2}
  MaxUsed = 3
  MaxExtra = 1
INVARIANTS
    GrantWithinBid
    EveryGrantHasItsPayer
PROPERTIES
    GrantsWithinSupply
CHECK_DEADLOCK FALSE
