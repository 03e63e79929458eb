------------------------------ MODULE MCPrintf ------------------------------
EXTENDS Printf

MCTypeRange == [hh |-> 4, h |-> 16, int |-> 256, ll |-> 65536]

Numbers == {c \in [specifier : {"d", "x", "o", "b"}, length : {"int"}, flags : SUBSET Flag,
                   width : {0, 2, 3, 5, 9}, precision : {0, 3, 9}, arg : {0, 8, 26, 128, 255}] :
              "PRECISION" \notin c.flags => c.precision = 0}
Lengths == [specifier : {"d", "u", "x", "b"}, length : {"hh", "h", "int", "ll"}, flags : {{}, {"ZEROPAD"}},
            width : {0, 6}, precision : {0}, arg : {1, 2, 8, 128, 200, 256, 32768, 65535}]
Others == {c \in [specifier : {"s", "c"}, length : {"int"}, flags : SUBSET {"LEFT", "PRECISION"},
                  width : {0, 1, 4}, precision : {0, 2}, arg : {0, 1, 3}] :
              "PRECISION" \notin c.flags => c.precision = 0}
          \cup [specifier : {"p"}, length : {"int"}, flags : {{}, {"LEFT"}},
                width : {0}, precision : {0}, arg : {0, 8, 255}]

MCConversions == Numbers \cup Lengths \cup Others
=============================================================================
