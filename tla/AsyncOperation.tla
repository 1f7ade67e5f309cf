--------------------------- MODULE AsyncOperation ---------------------------
(***************************************************************************)
(* What an asynchronous operation promises to who initiates it: its        *)
(* completion handler is called once, by the executor it is associated     *)
(* with, or never, when the initiating function threw or the handler was   *)
(* destroyed with the context or by an exception.                          *)
(***************************************************************************)
CONSTANTS
  Ops,        \* operations, each initiated at most once
  Executors,
  Null        \* no executor

VARIABLES
  phase,  \* phase[op]
  home,   \* home[op]: the executor its handler is associated with
  ran     \* ran[op]: the executor that called the handler

vars == <<phase, home, ran>>

TypeOK ==
  /\ phase \in [Ops -> {"idle", "pending", "called", "dropped"}]
  /\ home \in [Ops -> Executors \cup {Null}]
  /\ ran \in [Ops -> Executors \cup {Null}]

Init ==
  /\ phase = [op \in Ops |-> "idle"]
  /\ home = [op \in Ops |-> Null]
  /\ ran = [op \in Ops |-> Null]

Initiate(op, e) ==
  /\ phase[op] = "idle"
  /\ phase' = [phase EXCEPT ![op] = "pending"]
  /\ home' = [home EXCEPT ![op] = e]
  /\ UNCHANGED ran

Refuse(op) ==
  /\ phase[op] = "idle"
  /\ phase' = [phase EXCEPT ![op] = "dropped"]
  /\ UNCHANGED <<home, ran>>

Call(op) ==
  /\ phase[op] = "pending"
  /\ phase' = [phase EXCEPT ![op] = "called"]
  /\ ran' = [ran EXCEPT ![op] = home[op]]
  /\ UNCHANGED home

(* The context may take several handlers with it at once.                  *)
Drop(S) ==
  /\ S # {}
  /\ \A op \in S : phase[op] = "pending"
  /\ phase' = [op \in Ops |-> IF op \in S THEN "dropped" ELSE phase[op]]
  /\ UNCHANGED <<home, ran>>

Next ==
  \/ \E op \in Ops :
       (\E e \in Executors : Initiate(op, e)) \/ Refuse(op) \/ Call(op)
  \/ \E S \in SUBSET Ops : Drop(S)

Spec == Init /\ [][Next]_vars
=============================================================================
