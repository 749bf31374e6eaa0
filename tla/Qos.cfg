CONSTANTS
  NsPerMs = 2
  Forever = 100
  InitialConf <- MCConf
  InitialFields <- MCFields
  Offers <- MCOffers
  Changes <- MCChanges
  Modes = {"reject", "demote"}
  AllowUpdates = {TRUE, FALSE}
  Peers <- MCPeers
  Specs <- MCSpecs
  RevMax = 4
  Limits <- MCLimits
  MaxEvents = 2
SPECIFICATION FairSpec
INVARIANTS AppliedFollowsPeers SavedIsConfigured RequestsMatch OffersSatisfy
PROPERTIES NoLostUpdate PublicationSettles
