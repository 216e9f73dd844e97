\* Two tenants, six templates of which two form a cycle, both engines, up to four requests, recursion up to three calls.
CONSTANTS
  acme = acme
  bank = bank
  scan = scan
  web = web
  pay = pay
  feed = feed
  ghost = ghost
  kyc = kyc
  aml = aml
  memo = memo
  fraud = fraud
  loop = loop
  pool = pool
  desk = desk
  spare = spare
  customDesk = customDesk
  name = name
  icp = icp
  email = email
  ssn = ssn
  Tenants = {acme, bank}
  Global = Global
  Tools = {scan, web, pay, feed, ghost}
  Registry <- Descriptors
  Names = {kyc, aml, memo, fraud, loop, pool, desk, spare, customDesk}
  Params = {name, icp}
  PiiKinds = {email, ssn}
  Contact = {email}
  MaxSteps = 3
  DefaultSteps = 2
  NoTemplate = NoTemplate
  Catalog <- SmallCatalog
  Requests <- SmallRequests
  Proposals <- SmallProposals
  Patches <- SmallPatches
  Engines = {"llm", "rules"}
  Scratch = {desk, spare}
  CustomName <- SmallCustomName
  DefaultName = desk
  NameParam = name
  WebSearch = web
  MaxAttempts = 2
  MaxDepth = 3
  MaxRequests <- SmallMaxRequests
  NoName = NoName
  NoSpec = NoSpec
  Keep = Keep
SPECIFICATION Spec
\* After the last request nothing happens.
CHECK_DEADLOCK FALSE
INVARIANTS
  TypeOK
  LeastPrivilege
  FloorsHold
  ScopeMatchesAcl
  ChainIsBottomUp
  NoRunaway
PROPERTIES
  PrerequisitesBuilt
