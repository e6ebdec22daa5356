------------------------ MODULE MCScreenshotCapture ------------------------
EXTENDS ScreenshotCapture, TLC

Swaps == Permutations(Jobs) \cup Permutations(Streams)
=============================================================================
