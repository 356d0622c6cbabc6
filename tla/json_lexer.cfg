CONSTANTS
  BufferSize = 16
  IntegerMax = 10010
  StringBytes = {0, 8, 9, 10, 12, 13, 31, 32, 34, 47, 48, 56, 57, 68, 70, 71, 92, 97, 98, 99, 102, 110, 114, 116, 117, 126, 127, 128, 143, 144, 159, 160, 191, 192, 193, 194, 223, 224, 225, 236, 237, 238, 239, 240, 241, 243, 244, 245, 255}
  LongBytes = {10, 34, 48, 92, 98, 110, 117, 128, 191, 224, 241}
  MaxChars = 3
  NumberBytes = {32, 43, 45, 46, 48, 49, 50, 57, 101}
  MaxBytes = 6
SPECIFICATION Spec
CHECK_DEADLOCK FALSE
INVARIANTS ScannerInv StoredAsRead OneSpelling BufferSuffices
