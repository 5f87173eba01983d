SPECIFICATION BenchSpec
CONSTANTS
  Images = {"echo", "can-sim", "hello", "uart-test", "clk-test"}
  Sizes = {3, 8}
  HeapSize = 16
  Word = 32
  Blocks = 2
  MaxLoads = 2
  MaxPings = 5
  Rounds = 2
  Peers = {p1, p2}
  Half = 4
  Period = 3
  MaxCount = 7
  TxLen = 1
  FifoLen = 1
  RxLen = 2
  PoolLen = 2
  Chunk = 2
  MaxChars = 4
  MaxOpens = 2
INVARIANTS NoBusStall BlocksApart EchoIsWhatCame RttIsOwnEcho SlowPingsAnswered NowIsReal NothingSlips
CHECK_DEADLOCK FALSE
