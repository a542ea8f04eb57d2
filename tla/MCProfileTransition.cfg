CONSTANTS
    MaxChanges = 2
    MaxFeedback = 1
    MaxDamage = 1
    MaxEvents = 2
    DamagedFrom = 2
    SettleWindows = 2
SPECIFICATION FairSpec
INVARIANTS TypeOK CommitIsMutual RollbackKeepsSession SwitchAfterAccept
PROPERTIES NeverBack SenderDecides
CHECK_DEADLOCK FALSE
