\* One callback thread with two packets and a cassette of two items give two
\* racing producers, each with an order to keep, over a queue that one of them
\* can fill; two handles race to shut the driver down.  The system may stop:
\* every handle is dropped and every packet pushed.
CONSTANTS
  Callback = {c1}
  Handle = {h1, h2}
  Capacity = 2
  MaxPackets = 2
  Tapes <- MCTapes
SPECIFICATION Spec
SYMMETRY MCSymmetry
CHECK_DEADLOCK FALSE
INVARIANTS ShutdownOnce ReplayReportExact DeliveredInOrder
PROPERTIES QuietBeforeShutdown
