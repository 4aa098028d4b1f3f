CONSTANTS
  BYTE = 8
  WIDTH = 2
  PUBKEY_SIZE = 1
  STATE_DOMAIN <- MCDomain
  SIG_SIZE = 1
  SigOf <- MCSigOf
  Ed25519Program = "ed25519"
  SolMeshProgram = "solmesh"
  Keys <- MCKeys
  ProviderOf <- MCProviderOf
  ConsumerOf <- MCConsumerOf
  Updates <- MCUpdates
  Instructions <- MCInstructions
  MAX_INSTRUCTIONS = 3
SPECIFICATION Spec
INVARIANTS AcceptedWasSigned AcceptedWasAgreed CosignedIsAccepted
