-------------------------------- MODULE MCMouse --------------------------------
\* Instances of Mouse: one button, a movement and a wheel axis.
EXTENDS Mouse

CONSTANTS b1
MCButtons == {b1}
================================================================================
