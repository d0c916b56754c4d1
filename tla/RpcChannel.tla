---------------------------- MODULE RpcChannel ----------------------------
(***************************************************************************)
(* What esp_host_zb_output promises the tasks that call it, without locks, *)
(* queues, frames or tasks of the link: calls are answered one at a time,  *)
(* and a call ends with the answer to itself or with no answer.  A call    *)
(* may be lost: its task then never runs again.                            *)
(***************************************************************************)
EXTENDS Naturals

CONSTANTS Task, NoCall,
  Turns   \* calls of one task in a row that are told apart

VARIABLES phase, call, answer

rpcVars == <<phase, call, answer>>

Init ==
  /\ phase = [t \in Task |-> "idle"]
  /\ answer = [t \in Task |-> NoCall]
  /\ call = [t \in Task |-> <<t, 0>>]

Ask(t) ==
  /\ phase[t] = "idle"
  /\ phase'  = [phase EXCEPT ![t] = "asking"]
  /\ call'   = [call EXCEPT ![t] = <<t, (@[2] + 1) % Turns>>]
  /\ UNCHANGED answer

Admit(t) ==
  /\ phase[t] = "asking"
  /\ \A u \in Task : phase[u] # "talking"
  /\ phase' = [phase EXCEPT ![t] = "talking"]
  /\ UNCHANGED <<call, answer>>

Answer(t) ==
  /\ phase[t] = "talking"
  /\ phase' = [phase EXCEPT ![t] = "answered"]
  /\ answer' \in {answer, [answer EXCEPT ![t] = call[t]]}
  /\ UNCHANGED call

Leave(t) ==
  /\ phase[t] = "answered"
  /\ phase' = [phase EXCEPT ![t] = "idle"]
  /\ answer' = [answer EXCEPT ![t] = NoCall]
  /\ UNCHANGED call

Lose(S) ==
  /\ \A t \in S : phase[t] \in {"asking", "talking"}
  /\ phase' = [t \in Task |-> IF t \in S THEN "lost" ELSE phase[t]]
  /\ UNCHANGED <<call, answer>>

Next ==
  \/ \E t \in Task : Ask(t) \/ Admit(t) \/ Answer(t) \/ Leave(t)
  \/ \E S \in SUBSET Task : Lose(S)

Spec == Init /\ [][Next]_rpcVars
=============================================================================
