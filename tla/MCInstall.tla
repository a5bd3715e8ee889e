----------------------------- MODULE MCInstall ------------------------------
EXTENDS Install
Anywhere   == {Source, Elsewhere}
SourceOnly == {Source}

\* Of histories in which the configuration was used by two processes at a time
\* only what happens about the first command is followed.
FewMixed == mixed => commands <= 1
=============================================================================
