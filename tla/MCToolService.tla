---------------------------- MODULE MCToolService ----------------------------
EXTENDS ToolService
CONSTANTS r1, r2, r3, o1, o2, good, bad

\* The two operations accept different arguments.
MCInputSchema == [o \in {o1, o2} |-> IF o = o1 THEN {good} ELSE {bad}]
MCAsked ==
  LET Ask(k, o, a) == [kind |-> k, operation_id |-> o, arguments |-> a]
      search == Ask("search", NoOperation, good) IN
  [r \in {r1, r2, r3} |->
     CASE r = r1 -> {search, Ask("call", o2, bad)}
       [] r = r2 -> {search, Ask("call", o1, good), Ask("call", o1, bad)}
       [] r = r3 -> {search, Ask("get", o1, good), Ask("get", NoOperation, good),
                     Ask("call", o2, good), Ask("call", NoOperation, good)}]

MCOutputSchema == [o \in {o1, o2} |-> {good, bad}]
=============================================================================
