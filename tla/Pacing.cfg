SPECIFICATION Spec
CONSTANTS
  Interval = 20
  Initial = 5
  Max = 20
  Latency = 1
  MaxQuiet = 70
INVARIANTS TypeOK ShortOutageStaysGreen PromptRecovery
