--------------------------- MODULE MCEncoderBuild ---------------------------
EXTENDS EncoderBuild

\* Three variables, one of them soft in both polarities.
MCSoftLit == {1, 2, 3, -1}
=============================================================================
