----------------------------- MODULE SdpaService -----------------------------
(* What VulkanAttention promises its callers: every call is answered with    *)
(* the attention of its own inputs, by the device while it is usable and by  *)
(* the CPU otherwise, and a device once given up on answers no more calls.   *)
EXTENDS Naturals

CONSTANTS Threads, Data, Nil

VARIABLES
  calling,      \* the call each thread is in, or Nil
  answer,       \* what the last call of each thread returned
  usable,       \* the device has not been given up on
  deviceCalls   \* calls the device has answered

vars == <<calling, answer, usable, deviceCalls>>

Init ==
  /\ calling = [t \in Threads |-> Nil]
  /\ answer = [t \in Threads |-> Nil]
  /\ usable = TRUE /\ deviceCalls = 0

Call(t, r) ==
  /\ calling[t] = Nil
  /\ calling' = [calling EXCEPT ![t] = r]
  /\ answer' = [answer EXCEPT ![t] = Nil]
  /\ UNCHANGED <<usable, deviceCalls>>

Answer(t) ==
  /\ calling[t] # Nil
  /\ answer' = [answer EXCEPT ![t] = calling[t]]
  /\ calling' = [calling EXCEPT ![t] = Nil]
  /\ \/ usable /\ deviceCalls' = deviceCalls + 1
     \/ UNCHANGED deviceCalls
  /\ UNCHANGED usable

GiveUp == usable /\ usable' = FALSE /\ UNCHANGED <<calling, answer, deviceCalls>>

Next == GiveUp \/ \E t \in Threads : Answer(t) \/ \E r \in Data : Call(t, r)

Spec == Init /\ [][Next]_vars /\ \A t \in Threads : WF_vars(Answer(t))
=============================================================================
