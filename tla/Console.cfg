SPECIFICATION Spec
CONSTANTS
  Readers = {r1}
  Writers = {w1, w2}
  Typed = {"x", "nl", "cr", "^D", "^U", "^H"}
  INPUT_BUF_SIZE = 2
  UART_TX_BUF_SIZE = 1
  M = 4
  TxM = 2
  Counts = {2}
INVARIANT NoLostWakeup
PROPERTIES IsTty OutputGoesOn
