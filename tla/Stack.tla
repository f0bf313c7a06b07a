------------------------------- MODULE Stack -------------------------------
(***************************************************************************)
(* What "dyo up" and "dyo down" promise, seen from outside the process:    *)
(* which containers of the stack exist, not their run state nor the calls *)
(* that make them.  A command either fails at some point, leaving what it *)
(* did so far, or succeeds:                                                *)
(*   - "up" creates only enabled containers, each after every enabled      *)
(*     container before it in the start order, and succeeds only when all *)
(*     enabled containers exist;                                           *)
(*   - "down" removes only enabled containers, and succeeds only when none *)
(*     of them is left.                                                    *)
(* Between commands the operator may change which components are enabled. *)
(* Runner refines this specification when nothing outside the CLI removes  *)
(* containers (see StackRefined in Runner).                                *)
(***************************************************************************)
EXTENDS Naturals, Sequences

CONSTANTS Names,       \* the containers of the stack
          StartOrder,  \* the order "up" creates them in
          Flags,       \* the settings flags
          GuardedBy    \* the containers each flag switches off

VARIABLES present,   \* the containers that exist
          cmd,       \* "idle", "up" or "down"
          disabled,  \* the settings flags
          outcome    \* how the last command ended: "none" while one runs

vars == <<present, cmd, disabled, outcome>>

Off(c) == \E f \in Flags : c \in GuardedBy[f] /\ disabled[f]
Enabled == {c \in Names : ~Off(c)}

\* The containers that come before c in the start order.
Before(c) == {StartOrder[i] : i \in {j \in DOMAIN StartOrder :
                                       \E k \in DOMAIN StartOrder :
                                         StartOrder[k] = c /\ j < k}}

Begin ==
  /\ cmd = "idle"
  /\ cmd' \in {"up", "down"}
  /\ outcome' = "none"
  /\ UNCHANGED <<present, disabled>>

Configure ==
  /\ cmd = "idle"
  /\ disabled' \in [Flags -> BOOLEAN]
  /\ UNCHANGED <<present, cmd, outcome>>

Create(c) ==
  /\ cmd = "up"
  /\ c \in Enabled \ present
  /\ Before(c) \cap Enabled \subseteq present
  /\ present' = present \cup {c}
  /\ UNCHANGED <<cmd, disabled, outcome>>

\* The command ends with outcome o, which it may report only if it holds.
Finish(o) ==
  /\ \/ o = "error"
     \/ o = "up_ok" /\ cmd = "up" /\ Enabled \subseteq present'
     \/ o = "down_ok" /\ cmd = "down" /\ Enabled \cap present' = {}
  /\ cmd' = "idle"
  /\ outcome' = o

\* A removal; the last one may end the command in the same step.
Remove(c) ==
  /\ cmd = "down"
  /\ c \in Enabled \cap present
  /\ present' = present \ {c}
  /\ \/ UNCHANGED <<cmd, outcome>>
     \/ Finish("down_ok")
  /\ UNCHANGED disabled

Return(o) ==
  /\ cmd # "idle"
  /\ Finish(o)
  /\ UNCHANGED <<present, disabled>>

Init ==
  /\ present = {}
  /\ cmd = "idle"
  /\ disabled \in [Flags -> BOOLEAN]
  /\ outcome = "none"

Next ==
  \/ Begin \/ Configure
  \/ \E c \in Names : Create(c) \/ Remove(c)
  \/ \E o \in {"error", "up_ok", "down_ok"} : Return(o)

\* The safety part: what may happen.
Safety == Init /\ [][Next]_vars

\* Every command returns.
Spec == Safety /\ WF_vars(\E o \in {"error", "up_ok", "down_ok"} : Return(o))

==============================================================================
