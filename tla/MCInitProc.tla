---- MODULE MCInitProc ----
EXTENDS InitProc
====
