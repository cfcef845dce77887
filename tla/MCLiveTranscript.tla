-------------------------- MODULE MCLiveTranscript --------------------------
\* TLC instance of LiveTranscript; the bounds are set by its cfg.
EXTENDS LiveTranscript
MCOneTrack == <<"mic">>
=============================================================================
