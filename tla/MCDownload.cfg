\* A plaintext node and one that encrypts.
CONSTANTS
  n1 = n1
  n2 = n2
  h1 = h1
  h2 = h2
  Node = {n1, n2}
  Hash = {h1, h2}
  Manifest <- MCManifest
  Size <- MCSize
  TextLengths = {1, 2, 4}
  Sealed = {n2}
SPECIFICATION DownloadSpec
INVARIANTS
  DownloadTypeOK
  RestoredOrTextFits
PROPERTIES
  GivesUpForCause
  Answered
