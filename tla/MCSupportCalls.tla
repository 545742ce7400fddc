---- MODULE MCSupportCalls ----
EXTENDS SupportCalls
====
