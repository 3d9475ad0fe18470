SPECIFICATION Spec
CONSTANTS
  Raw = raw
  Web = web
  Label = {l1, l2}
  Key <- MCKey
  MaxKeys = 2
  MaxAttempts = 2
  MaxAuthFails = 2
  WindowTicks = 3
  PromptTicks = 2
  CommitTicks = 1
  MaxConns = 2
  MaxWindows = 1
  MaxReveals = 2
INVARIANTS
  RequestOfLiveConnection
  AttemptBudget
  SecretsWiped
  OneKeyPerMethod
  DeliveredOnce
PROPERTIES
  
  NumberResolves
