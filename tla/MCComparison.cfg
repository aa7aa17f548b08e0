SPECIFICATION Spec
CONSTANT
  Build = "windows"
  IntBits = 3
  EpochBits = 3
  AddressBits = 3
  Bytes = 6
  ByteBits = 2
  DoubleUnit = 2
  IsMatch <- MCIsMatch
  Malformed = Malformed
  Throws = Throws
  NoResult = NoResult
  Colon = Colon
  Long = Long
  Other = Other
  Requests <- MCRequests
INVARIANT IntegersCompareByValue
INVARIANT EvrOrder
INVARIANT VersionsOrder
INVARIANT AddressesAreSets
INVARIANT BuildsAgree
CHECK_DEADLOCK FALSE
