---- MODULE MCPcbLists ----
EXTENDS PcbLists
MCCaller == {[uses |-> {"free", "tree"}, pcbs |-> 4],
             [uses |-> {"free", "blocked"}, pcbs |-> 3],
             [uses |-> {"free", "ready"}, pcbs |-> 4],
             [uses |-> {"free", "ready", "tree"}, pcbs |-> 3],
             [uses |-> {"free", "ready", "blocked", "tree", "loose"}, pcbs |-> 2]}
====
