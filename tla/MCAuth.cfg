SPECIFICATION Spec
CONSTANTS
  r1 = r1
  r2 = r2
  o1 = o1
  Operators = {o1, o2}
  Names <- SomeNames
  Annotations <- SomeAnnotations
  Payloads = {TRUE}
  Secrets <- SomeSecrets
  MaxVersions = 3
  MaxFaults = 1
  Requests = {r1, r2}
  Forms <- SomeForms
  SignID <- SignSecret
  Attempts = 2
  Expiry = 1
  MaxTime = 1
  IDTokens <- SomeIDTokens
  Calls = {a1}
  Nobody = Nobody
  Authorized <- SomeAuthorized
  Redirects <- SomeRedirects
  Ports = {1, 2}
  TryPorts <- SomeTryPorts
  Pairs = {"a", "b"}
INVARIANTS
  LatestStaysEnabled
  TokensAreSound
  GateIsExact
  LoginIsSound
  PairsVerify

  
CHECK_DEADLOCK FALSE
