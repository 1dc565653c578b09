----------------------------- MODULE WriteOnce -----------------------------
(***************************************************************************)
(* What the callers of GetGlobalSSHKeyPair are promised: a value is chosen   *)
(* once, by one of them, and every call that ends with an answer has that    *)
(* value.                                                                   *)
(***************************************************************************)
CONSTANTS Callers, Values, NoValue

VARIABLES
    value,    \* the value, or NoValue as long as none is chosen
    answers   \* what each caller was told, or NoValue

Init ==
    /\ value = NoValue
    /\ answers = [c \in Callers |-> NoValue]

Choose(v) ==
    /\ value = NoValue
    /\ value' = v
    /\ UNCHANGED answers

Answer(c) ==
    /\ value # NoValue
    /\ answers' = [answers EXCEPT ![c] = value]
    /\ UNCHANGED value

\* The process that served the callers ends, and with it the calls.
Forget ==
    /\ answers' = [c \in Callers |-> NoValue]
    /\ UNCHANGED value

Next ==
    \/ \E v \in Values : Choose(v)
    \/ \E c \in Callers : Answer(c)
    \/ Forget

Spec == Init /\ [][Next]_<<value, answers>>

=============================================================================
