---------------------------- MODULE MCToolCalls -----------------------------
(* Small instance of ToolCalls for TLC. *)
EXTENDS ToolCalls, TLC

CONSTANTS r1, r2, write1, write2, push1, push2, write3, write, push

\* One run with two writes of one file and two pushes, which always prompt and
\* start a process; and another run that writes the same file.
MCRunOf == [c \in Calls |-> IF c = write3 THEN r2 ELSE r1]
MCKeyOf == [c \in Calls |-> IF c \in {push1, push2} THEN push ELSE write]
MCKindOf == [c \in Calls |-> IF c \in {push1, push2} THEN "strict" ELSE "ask"]
=============================================================================
