\* Every file of up to half a second, with the thresholds of silence.py
\* (0.2 s and 0.05 s) in ticks of 0.05 s.
SPECIFICATION Spec
CONSTANTS
    MaxTicks = 10
    MinSilence = 4
    Tolerance = 1
INVARIANTS
    NoSpeechDiscarded
    RealSilenceIsCaught
\* The precheck returns.
CHECK_DEADLOCK FALSE
