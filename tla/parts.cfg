\* One behaviour of one part at a time.
CONSTANTS
  d1 = d1
  d2 = d2
  p1 = p1
  p2 = p2
  Distributors = {d1, d2}
  Runs = {p1, p2}
  refillThreshold = 1
  refillAmount = 2
  Funds = 4
  MaxFaults = 1
  Length = 3
  MaxEvents = 2
  PageSize = 2
  Validators = 3
  MaxItems = 5
  MaxHeight = 4
  c1 = c1
  c2 = c2
  Calls = {c1, c2}
  Paths = 2
  testModeAllowed = FALSE
  MaxSwitches = 1
  DecDigits = 1
  Digits = 2
  Prices <- MCPrices
  MaxGas = 20
  KeyLists <- MCKeyLists
  Thresholds = {1, 8, 9, 10}
  Addresses <- MCAddresses
  WordBits = 3
  ByteBits = 2
  AllowedUnits = {1, 2}
  Half = 4
  Passwords = {"a", "b"}
  Sha256 <- MCSha256
  Entropies <- MCEntropies
  TypedWords <- MCTypedWords
  HdPathLists <- MCHdPathLists
  MsDigits = 1
  NsDigits = 2
  Group = 3
  IntBits = 11
  IntegerBytes = 3
  Times <- MCTimes
  Signatures <- MCSignatures
  Headers <- MCHeaders
SPECIFICATION PartsSpec
INVARIANTS OverfilledOnlyByOverlap ConcatIsFaithful PagesAreComplete SignaturesAreChecked
  SignedIsExecuted FeeIsExact MultisigAccepted RestoredIsTheSame FormsAgree
PROPERTIES RefillServesLow LoopsEnd
CHECK_DEADLOCK FALSE
