SPECIFICATION MCSpec
CONSTANTS
  Char = {"ESC", "CAN", "BEL", "LF", "DEL", "SP", "CSI8", "WIDE", "WIDE<", "WIDEl", "[", "]", "(", "#", "P", "?", ">", "!", "2", "3", "5", ";", "m", "H", "t", "q", "l", "Y", "<", "h", "c"}
  MaxTokenLength = 6
  MaxArgs = 5
  MaxArgument = 1
  ExtendedColours = {3}
  NoChar = NoChar
  Garbage = 77
INVARIANTS TokenInv
PROPERTIES ImplementsParser
