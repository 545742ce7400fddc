---- MODULE MCPaging ----
EXTENDS Paging
CONSTANTS u1, u2
MCPage == {<<u1, 0>>, <<u1, 1>>, <<u2, 0>>}
====
