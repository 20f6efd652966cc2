CONSTANTS
  lsize = 4
  MAXTOK = 4
  Bits = 8
  Long = 8
  Short = 6
  Char = 4
  CH_WIDTH = 2
  CH_HEIGHT = 2
  Word = 32
  Octet = 4
  MemSize = 13
  CH_ROM <- MCRom
  Newlines <- MCNewlines
  Strings <- MCStrings
  Delimited <- MCDelimited
  Delimiters <- MCDelimiters
  Lines <- MCLines
  Mods <- MCMods
  Numbers <- MCNumbers
  Surface <- MCSurface
  Coords <- MCCoords
  Texts <- MCTexts
  Channels <- MCChannels
  Addresses <- MCAddresses
  Payloads <- MCPayloads
SPECIFICATION Spec
INVARIANTS StringsExact TokensAreWords FormatExact DrawnExact ChecksumVerifies
