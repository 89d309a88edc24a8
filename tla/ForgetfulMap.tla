---------------------------- MODULE ForgetfulMap ----------------------------
(***************************************************************************)
(* What a cache promises whoever reads through it: a map that may forget   *)
(* any of its entries at any time, but answers with nothing else than what *)
(* was put there last and has not been cleared since.                      *)
(***************************************************************************)
CONSTANTS Keys, Values, NoValue

VARIABLES
  known,     \* the value of each key that is remembered, or NoValue
  answer     \* what the last lookup returned

Init ==
  /\ known = [k \in Keys |-> NoValue]
  /\ answer = NoValue

Put(k, v) ==
  /\ known' \in {[j \in Keys |-> IF j = k THEN v
                                  ELSE IF j \in forgotten THEN NoValue
                                                          ELSE known[j]] :
                   forgotten \in SUBSET Keys}
  /\ UNCHANGED answer

Look(k) ==
  /\ answer' = known[k]
  /\ UNCHANGED known

Forget(forgotten) ==
  /\ known' = [k \in Keys |-> IF k \in forgotten THEN NoValue ELSE known[k]]
  /\ UNCHANGED answer

Next ==
  \/ \E k \in Keys, v \in Values : Put(k, v)
  \/ \E k \in Keys : Look(k)
  \/ \E forgotten \in SUBSET Keys : Forget(forgotten)

Spec == Init /\ [][Next]_<<known, answer>>
=============================================================================
