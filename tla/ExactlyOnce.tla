---------------------------- MODULE ExactlyOnce ----------------------------
(***************************************************************************)
(* What the application service promises for the actions of a Run: an      *)
(* action takes effect at most once, it gets at most one final answer, and *)
(* the answer says whether it took effect, with two exceptions: not_found  *)
(* and bad_payload leave it open.  No action takes effect after its        *)
(* answer.                                                                 *)
(***************************************************************************)
EXTENDS Naturals

CONSTANT Id   \* the actionIds

VARIABLES done,    \* how often each action took effect
          answer   \* the final answer of each action

\* The action was applied, it asked for what was already so, or it failed;
\* the last two answers say less than they seem to.
Answers == {"applied", "moot", "error", "not_found", "bad_payload"}

\* What an answer says of the effect.
Truthful(effect, a) ==
    /\ a = "applied" => effect = 1
    /\ a \in {"moot", "error"} => effect = 0

Init ==
    /\ done = [i \in Id |-> 0]
    /\ answer = [i \in Id |-> "none"]

Effect(i) ==
    /\ done[i] = 0
    /\ answer[i] = "none"
    /\ done' = [done EXCEPT ![i] = 1]
    /\ UNCHANGED answer

Answer(i, a) ==
    /\ answer[i] = "none"
    /\ Truthful(done[i], a)
    /\ answer' = [answer EXCEPT ![i] = a]
    /\ UNCHANGED done

Next == \E i \in Id : Effect(i) \/ \E a \in Answers : Answer(i, a)

Spec == Init /\ [][Next]_<<done, answer>>
=============================================================================
