------------------------------ MODULE MCPaging ------------------------------
EXTENDS Paging

OneToFour == 1 .. 4
=============================================================================
