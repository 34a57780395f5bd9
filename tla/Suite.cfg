\* All contracts together: two wallets, two topics, a word of two, the storage
\* rebound and ownership of registry and storage renounced in every order.
SPECIFICATION Spec
CONSTANTS
  anson = anson
  beatrice = beatrice
  Admin = admin
  Account = {admin, anson, beatrice}
  Wallet = {anson, beatrice}
  Issuer = {admin}
  ZeroAddress = ZeroAddress
  RegistryAddress = RegistryAddress
  BindTargets = {RegistryAddress, admin}
  KYC_TOPIC = kyc
  Topic = {kyc, country}
  MaxUint = 2
  Handovers <- MCHandovers
  Approvals <- MCApprovals
INVARIANTS
  TypeOK
  TopicsInSync
  IssuersListed
  SupplyIsBacked
PROPERTIES
  CompliantLedgerSpec
  SealedForGood
