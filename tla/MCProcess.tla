----------------------------- MODULE MCProcess ------------------------------
\* Two children, nine descriptors and eight slots: either table can be the first
\* to run full.
EXTENDS Process
=============================================================================
