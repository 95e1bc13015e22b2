CONSTANTS
  t1 = t1
  t2 = t2
  f1 = f1
  f2 = f2
  Transfers = {t1, t2}
  Files = {f1, f2}
  Length <- Lengths
  MaxInt = 7
  Sizes = {1, 2, 7}
  Offsets <- SeekOffsets
  None = None
  Types = {"audio/mpeg", "audio/x-mpeg", "audio/flac"}
  TypeLength <- TypeLengths
  Mpeg = "audio/mpeg"
  XMpeg = "audio/x-mpeg"
  Tables <- TypeTables
  Interfaces <- Hosts
  MaxInterfaces = 2
  Names = {None, "wlan0"}
  Ethers <- EtherNames
  Macs <- Addresses
SPECIFICATION DeviceSpec
SYMMETRY Symmetry
INVARIANTS DeviceTypeOK ReadsInside Delivered ToldTheTruth InsideBuffer
           AnnouncedWhole AddressAsked StoppedOnExit
PROPERTY ListAtRest
