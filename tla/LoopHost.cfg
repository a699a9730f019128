SPECIFICATION Spec
CONSTANTS
  LEN = 2
  PKTS = 2
  Period = 5
  FlushIdle = 6
  Gap = 2
  TxCap = 4
  RxCap = 3
  CaptureCap = 3
  MaxTx = 9
  Enough = 2
  Running = {"anybody","selftest","data_mover","continuous","stop_restart","start_running","soft_reset","injection","timecode","eep","fault_loaded","capture_demo","key0", "leds"}
INVARIANT BenchesPass
INVARIANT NoFalseErrors
PROPERTY BeatHeld
PROPERTY ScriptsEnd
