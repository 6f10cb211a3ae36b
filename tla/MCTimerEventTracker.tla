------------------------ MODULE MCTimerEventTracker ------------------------
EXTENDS TimerEventTracker
=============================================================================
