---------------------------- MODULE MCCamTable ------------------------------
EXTENDS CamTable
CONSTANTS video0, video1, video10

ThreeCams == {video0, video1, video10}
OnePrefix == {<<video1, video10>>}

\* No camera is plugged, or two are, and the name of one may begin that of the other.
NoneOrPair == {{}, {video0, video1}, {video1, video10}}
=============================================================================
