---------------------------- MODULE Publication ----------------------------
(***************************************************************************)
(* What a caller of BRPeerManagerPublishTx may rely on, whatever the peers *)
(* do: its callback is called at most once, and a callback with an error   *)
(* means that the transaction has not left the device and will not leave   *)
(* it on behalf of this call.  A caller that was told of a failure, and    *)
(* has no other call for the same transaction, may spend its coins again.  *)
(***************************************************************************)
CONSTANTS
    Calls,           \* calls of BRPeerManagerPublishTx
    TxOf             \* the transaction each of them publishes

VARIABLES
    outcome,         \* "idle", "pending", "ok" or "failed" for each call
    sent             \* the transactions that were written to a socket

vars == <<outcome, sent>>

Init ==
    /\ outcome = [c \in Calls |-> "idle"]
    /\ sent = {}

Submit(c) ==
    /\ outcome[c] = "idle"
    /\ \E o \in {"pending", "failed"} : outcome' = [outcome EXCEPT ![c] = o]
    /\ UNCHANGED sent

Succeed(c) ==
    /\ outcome[c] = "pending"
    /\ outcome' = [outcome EXCEPT ![c] = "ok"]
    /\ UNCHANGED sent

\* Another call for the same transaction answers for it.
Answered(c, O) == \E d \in Calls \ {c} : TxOf[d] = TxOf[c] /\ outcome[d] \in O

Fail(c) ==
    /\ outcome[c] = "pending"
    /\ TxOf[c] \notin sent \/ Answered(c, {"ok"})
    /\ outcome' = [outcome EXCEPT ![c] = "failed"]
    /\ UNCHANGED sent

Transmit(c) ==
    /\ outcome[c] \in {"pending", "ok"}
    /\ sent' = sent \cup {TxOf[c]}
    /\ UNCHANGED outcome

Next == \E c \in Calls : Submit(c) \/ Succeed(c) \/ Fail(c) \/ Transmit(c)

Spec == Init /\ [][Next]_vars
=============================================================================
