CONSTANTS
  Sizes = {1, 5, 7}
  Wrap = 4
  MaxLength = 6
  MaxSendRetry = 2
  Hosts = {h1, h2}
  NoHost = none
  MaxPackets = 3
SPECIFICATION FairSpec
INVARIANTS DatagramPerPacket
PROPERTIES GoesToLastHost EveryPacketCounted
