--------------------------- MODULE MCToolApproval ---------------------------
EXTENDS ToolApproval

\* Two calls of one tool, which differ in their arguments.
AllCalls == {"read_x", "read_y"}
Tools == [c \in AllCalls |-> "read"]
=============================================================================
