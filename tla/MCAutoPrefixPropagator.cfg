SPECIFICATION Spec
CONSTANTS
  RibPrefix <- MCRibPrefix
  KeyChainOrder <- MCKeyChainOrder
  InitIdentities <- MCInitIdentities
  CommandTimeout = 1
  m_baseRetryWait = 2
  m_refreshInterval = 3
  m_maxRetryWait = 4
  MaxOps = 6
  MaxFaults = 1
INVARIANTS
  NeverStuck
PROPERTIES
  EntriesCoverRib
  EventuallyPropagated
  EventuallyRevoked
