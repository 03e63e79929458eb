---------------------------- MODULE MCMemoryManager ----------------------------
(* An instance of MemoryManager for TLC: pages of 2 bytes and page tables  *)
(* of two entries, and two workloads of two tasks.  One is kernel memory,  *)
(* allocated and freed in one directory until it runs out and after.  The  *)
(* other is user and kernel memory and fixed addresses, never freed, each  *)
(* task in its own directory.                                              *)
EXTENDS MemoryManager

CONSTANTS d1, d2

Own == CHOOSE own \in [Task -> {{d1}, {d2}}] : \A t, u \in Task : t # u => own[t] # own[u]

KernelWork == [calls |-> {"allocate", "directory", "free"}, sizes |-> {2, 4},
               uses |-> [t \in Task |-> {d1}], maxAllocations |-> 6]
UserWork == [calls |-> {"allocate", "allocateUser", "map"}, sizes |-> {3},
             uses |-> Own, maxAllocations |-> 3]

MCDir == {d1, d2}
MCWorkloads == {KernelWork, UserWork}
===============================================================================
