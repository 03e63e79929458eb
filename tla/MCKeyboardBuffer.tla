--------------------------- MODULE MCKeyboardBuffer ---------------------------
(* Instances of KeyboardBuffer for TLC.                                    *)
EXTENDS KeyboardBuffer
===============================================================================
