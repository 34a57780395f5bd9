\* Three requests, scripts onboarding anson and beatrice, one loss.
SPECIFICATION BackendSpec
CONSTANTS
  anson = anson
  beatrice = beatrice
  mallory = mallory
  Admin = admin
  Account = {admin, anson, beatrice, mallory}
  Identity = {admin, anson, beatrice}
  Wallet = {anson, beatrice}
  Issuer = {admin}
  ZeroAddress = ZeroAddress
  RegistryAddress = RegistryAddress
  BindTargets = {RegistryAddress}
  KYC_TOPIC = kyc
  Topic = {kyc}
  MaxUint = 3
  Handovers <- NoHandovers
  Approvals <- NoApprovals
  Request = {r1, r2, r3}
  Body <- MCBody
  ScriptBody <- MCScriptBody
  MaxLosses = 1
INVARIANTS
  AnswersAreTrue
  AuditIsSound
  UnloggedHasACause
  RefusalsAreFinal
  LogReconciles
  HoldersVerified
PROPERTIES
  ChainSeesServices
  VerifiedIsTerminal
CHECK_DEADLOCK FALSE
