----------------------------- MODULE MCFileIO -----------------------------
EXTENDS FileIO

\* One more than there are slots, numbered like those of GEMDOS.
MCGemHandles == 6..8
=============================================================================
