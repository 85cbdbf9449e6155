---------------------------- MODULE MCLineEdit ----------------------------
\* A dictionary for TLC: three words, one the beginning of two others.
EXTENDS LineEdit
CONSTANTS a, sp, w
WordList == << <<a, a, a>>, <<a, a>>, <<w>> >>
=============================================================================
