---- MODULE MCCpuTime ----
EXTENDS CpuTime
====
