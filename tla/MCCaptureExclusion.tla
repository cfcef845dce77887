-------------------------- MODULE MCCaptureExclusion --------------------------
\* TLC instance of CaptureExclusion; the bounds are set by each cfg.
EXTENDS CaptureExclusion
==============================================================================
