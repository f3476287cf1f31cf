\* Regular requests for one address, and requests from the studio, with faults and a restart.
CONSTANTS
  r1 = r1
  r2 = r2
  a1 = a1
  e1 = e1
  Requests = {r1, r2}
  Addresses = {a1}
  Emails = {e1}
  Distributors = 2
  Workloads <- MCWorkloads
  MaxFaults = 1
  MaxRestarts = 1
SPECIFICATION FairSpec
INVARIANTS AnswersAreTrue CooldownUnlessRaced
PROPERTIES OptedInIsListed EveryRequestAnswered
CHECK_DEADLOCK FALSE
