----------------------------- MODULE MCContext -----------------------------
EXTENDS Context

\* DCD and serial input, and timer D; 0x124 is off.
MCEnabledLines == {<<"B", 1>>, <<"A", 4>>, <<"B", 4>>}
=============================================================================
