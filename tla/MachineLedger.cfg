CONSTANTS
  btc = btc
  nft = nft
  fungible = fungible
  collectible = collectible
  Assets = {btc}
  Streams = {fungible}
  Outputs <- OneStream
  Events <- Payments
  ListLimit = 2
  None = None
SPECIFICATION FairSpec
INVARIANTS PanicsOnlyInRace BalanceBacked CreditsWithinOutputs CreditMatchesOutput
  ForgottenWasRefused OutputBecomesEvent
PROPERTY EventuallyPaid
