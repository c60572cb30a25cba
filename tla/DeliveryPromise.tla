--------------------------- MODULE DeliveryPromise ---------------------------
(***************************************************************************)
(* What MsgRiver promises about one message, told without tables, loops,   *)
(* attempts or crashes.  A message is open from its durable acceptance     *)
(* until it is confirmed (the provider acknowledged it), refused (a        *)
(* definite failure, which an operator may reopen) or unknown (an effect   *)
(* may have happened; final).  The whatsapp channel publishes at most      *)
(* once, and never after or before a refusal; ntfy has the weaker promise  *)
(* that only an operator's Reopen can lead to a second publication.        *)
(***************************************************************************)
EXTENDS Naturals

CONSTANT Messages

VARIABLES status, channel, published, reopened

promiseVars == <<status, channel, published, reopened>>

PromiseInit ==
  /\ status = [m \in Messages |-> "none"]
  /\ channel = [m \in Messages |-> "ntfy"]
  /\ published = [m \in Messages |-> 0]
  /\ reopened = [m \in Messages |-> 0]

Accept(m, c) ==
  /\ status[m] = "none"
  /\ status' = [status EXCEPT ![m] = "open"]
  /\ channel' = [channel EXCEPT ![m] = c]
  /\ UNCHANGED <<published, reopened>>

Publish(m) ==
  /\ status[m] = "open"
  /\ published[m] <= IF channel[m] = "whatsapp" THEN 0 ELSE reopened[m]
  /\ published' = [published EXCEPT ![m] = @ + 1]
  /\ UNCHANGED <<status, channel, reopened>>

Settle(m, s) ==
  /\ status[m] = "open"
  /\ status' = [status EXCEPT ![m] = s]
  /\ UNCHANGED <<channel, published, reopened>>

Confirm(m) == published[m] >= 1 /\ Settle(m, "confirmed")

Refuse(m) == (channel[m] = "whatsapp" => published[m] = 0) /\ Settle(m, "refused")

GiveUp(m) == Settle(m, "unknown")

Reopen(m) ==
  /\ status[m] = "refused"
  /\ status' = [status EXCEPT ![m] = "open"]
  /\ reopened' = [reopened EXCEPT ![m] = @ + 1]
  /\ UNCHANGED <<channel, published>>

PromiseNext ==
  \E m \in Messages :
    \/ \E c \in {"ntfy", "whatsapp"} : Accept(m, c)
    \/ Publish(m)
    \/ Confirm(m)
    \/ Refuse(m)
    \/ GiveUp(m)
    \/ Reopen(m)

PromiseSpec == PromiseInit /\ [][PromiseNext]_promiseVars
=============================================================================
