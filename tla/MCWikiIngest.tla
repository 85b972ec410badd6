----------------------------- MODULE MCWikiIngest -----------------------------
\* Instance of WikiIngest for TLC.
EXTENDS WikiIngest

=============================================================================
