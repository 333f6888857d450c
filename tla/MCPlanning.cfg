\* The planners on small inputs.
SPECIFICATION Spec
CONSTANTS
  MaxPort = 6
  MaxMultiport = 2
  PortInputs <- MCPortInputs
  Chunk = 2
  MaxHead = 4
  MaxBody = 2
  MaxResponse = 3
  Number <- MCNumber
  ProxyInputs <- MCProxyInputs
  Requests <- MCRequests
  RawInputs <- MCRawInputs
  Answers <- MCAnswers
  NodeInputs <- MCNodeInputs
  Places <- MCPlaces
  Companions <- MCCompanions
  Switches <- MCSwitches
  RouteInputs <- MCRouteInputs
  ListenerInputs <- MCListenerInputs
  Hosts <- MCHosts
  MachineInputs <- MCMachineInputs
  ReconcileInputs <- MCReconcileInputs
INVARIANT PortGoesToFirstAsker
INVARIANT SubscriptionGoesToOwner
INVARIANT RedirectReturns
INVARIANT ExchangeIsExact
INVARIANT RouteOutboundExists
INVARIANT EncryptedStaysEncrypted
INVARIANT NoDeadRow
INVARIANT NoSocketTwice
INVARIANT ProfileFailureIsolated
INVARIANT ReconcileSettles
INVARIANT PreflightKeepsWord
