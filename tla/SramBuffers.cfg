SPECIFICATION Spec
CONSTANTS
  MAX_PAGES = 2
  PAGE_SIZE = 3
  SRAM_SIZE = 13
  CHIP_PAGE = 4
  Messages <- ShortAndLong
  Packets <- PacketsOfEvery
  None = None
INVARIANTS
  PacketsReadBack
PROPERTIES
  MessagesAreQueue
