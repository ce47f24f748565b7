SPECIFICATION Spec
CONSTANTS
  Algorithm = "DUAL"
  LocalKey = "local"
  ForeignKeys = {"foreign"}
  Contexts <- MCContexts
  MaxContext = 5
  Proxies = {"p"}
  Hosts = {"h1", "h2"}
  Forgeries <- MCForgeries
  Routes <- MCRoutes
  Characters <- MCCharacters
  Certs <- MCCerts
  Secrets <- MCSecrets
  Uids = {"1000", "1001"}
  Unprintable <- MCUnprintable
  AllowedNames <- MCAllowedNames
  TokenSets <- MCTokenSets
  UidSets <- MCUidSets
INVARIANT
  CertificateRequired
