\* A removed and re-registered wallet: the storage keeps its claims.
SPECIFICATION Spec
CONSTANTS
  anson = anson
  beatrice = beatrice
  Admin = admin
  Account = {admin, anson}
  Wallet = {anson}
  Issuer = {admin}
  ZeroAddress = ZeroAddress
  RegistryAddress = RegistryAddress
  BindTargets = {RegistryAddress}
  KYC_TOPIC = kyc
  Topic = {kyc}
  MaxUint = 1
  Handovers <- NoHandovers
  Approvals <- NoApprovals
PROPERTIES
  FreshlyRegisteredUnverified
