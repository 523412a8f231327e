------------------------------- MODULE MCBuzzer -------------------------------
\* Tones of every length that fits the remaining time.
EXTENDS Buzzer

AllDurations == Times \ {0}
===============================================================================
