\* Two tenants that chose the same server name, two processes, two overlapping requests, one death, one change of a server.
CONSTANTS
  acme = acme
  bank = bank
  look = look
  send = send
  tidy = tidy
  Tenants = {acme, bank}
  Procs = {p1, p2}
  Keys = {k1, k2}
  NoKey = NoKey
  ToolNames = {look, send, tidy}
  ReadNames = {look}
  WriteNames = {send}
  MaxPages = 2
  Servers = {crm}
  Handlers = {h1, h2}
  Guarded = {bank}
  DemoTools <- SmallDemo
  Listings <- SmallListings
  FirstListing <- TwoPages
  Answers <- SmallAnswers
  MaxRequests = 2
  MaxDeaths = 1
  MaxChanges = 1
  NoRow = NoRow
  NoEntry = NoEntry
  NoCall = NoCall
SPECIFICATION Spec
\* After the last request and death nothing has to happen.
CHECK_DEADLOCK FALSE
SYMMETRY Symmetry
INVARIANTS
  TypeOK
  OnlyApprovedGrantable
  DiscoveryIsWhole
  SecretsReadable
PROPERTIES
  RestartKeepsTools
