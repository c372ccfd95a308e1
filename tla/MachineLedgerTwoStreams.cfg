CONSTANTS
  btc = btc
  nft = nft
  fungible = fungible
  collectible = collectible
  Assets = {btc, nft}
  Streams = {fungible, collectible}
  Outputs <- TwoStreams
  Events <- NoPayments
  ListLimit = 3
  None = None
SPECIFICATION Spec
INVARIANT CreditsWithinOutputs
