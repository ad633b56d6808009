------------------------------- MODULE Grace -------------------------------
(***************************************************************************)
(* The time of graceCloseRegistry (src/plugin/handler.go): a replaced      *)
(* registry is closed refreshGraceCloseDelay after the swap, so that a     *)
(* call in flight, which has the deadline CallTool gives it                *)
(* (src/mcp/client.go), ends first. Time is discrete. A timer may fire     *)
(* late, but nothing a goroutine does at its deadline takes any.           *)
(***************************************************************************)
EXTENDS Naturals

CONSTANTS
  Calls,        \* calls of Execute
  GraceDelay,   \* refreshGraceCloseDelay
  CallTimeout,  \* the timeout CallTool passes to roundTrip
  MaxRegs,      \* bound: registries built
  MaxNow        \* bound: the last instant

ASSUME DelaysAssumption == GraceDelay \in Nat /\ CallTimeout \in Nat /\ CallTimeout < GraceDelay
ASSUME BoundsAssumption == MaxRegs \in Nat \ {0} /\ MaxNow \in Nat

VARIABLES
  now,
  current,  \* Handler.registry: the number of a registry
  retired,  \* when each registry was replaced, or Never
  closed,   \* registries whose closer has run
  pc,       \* where each call is
  reg,      \* the registry a call has loaded
  started   \* when the timer of its round trip was set, or Never

vars == <<now, current, retired, closed, pc, reg, started>>

Never == MaxNow + 1
Regs == 1..MaxRegs

Init ==
  /\ now = 0 /\ current = 1 /\ closed = {}
  /\ retired = [r \in Regs |-> Never]
  /\ pc = [c \in Calls |-> "idle"]
  /\ reg = [c \in Calls |-> 1]
  /\ started = [c \in Calls |-> Never]

Expired(c) == pc[c] = "calling" /\ now >= started[c] + CallTimeout

\* A round trip does not outlast its deadline.
Tick ==
  /\ now < MaxNow /\ ~\E c \in Calls : Expired(c)
  /\ now' = now + 1
  /\ UNCHANGED <<current, retired, closed, pc, reg, started>>

SwapWrong ==    \* mutant: the new registry is retired
  /\ current < MaxRegs
  /\ current' = current + 1
  /\ retired' = [retired EXCEPT ![current + 1] = now]
  /\ UNCHANGED <<now, closed, pc, reg, started>>

\* Configure or RefreshCapabilities puts the next registry in place, and the closer of the
\* old one starts to wait.
Swap ==
  /\ current < MaxRegs
  /\ current' = current + 1
  /\ retired' = [retired EXCEPT ![current] = now]
  /\ UNCHANGED <<now, closed, pc, reg, started>>

\* A call whose timer is not set yet may be reconnecting, or over SSE in a POST that has no
\* deadline: time passes until StartTimer.
LoadRegistry(c) ==
  /\ pc[c] = "idle"
  /\ pc' = [pc EXCEPT ![c] = "preparing"] /\ reg' = [reg EXCEPT ![c] = current]
  /\ UNCHANGED <<now, current, retired, closed, started>>

StartTimer(c) ==
  /\ pc[c] = "preparing"
  /\ pc' = [pc EXCEPT ![c] = "calling"] /\ started' = [started EXCEPT ![c] = now]
  /\ UNCHANGED <<now, current, retired, closed, reg>>

\* The answer, an error, or the deadline.
CallEnds(c) ==
  /\ pc[c] \in {"preparing", "calling"}
  /\ pc' = [pc EXCEPT ![c] = "ended"]
  /\ UNCHANGED <<now, current, retired, closed, reg, started>>

\* Closing a registry cuts off the calls on it, but for one whose client a reconnect has
\* replaced in the entries since, or put there after the closer ran.
CutOff(r) ==
  \E cut \in SUBSET {c \in Calls : reg[c] = r /\ pc[c] \in {"preparing", "calling"}} :
    pc' = [c \in Calls |-> IF c \in cut THEN "cut" ELSE pc[c]]

GraceCloseFromBuild(r) ==    \* mutant: the delay is that of the registry before
  /\ retired[r] # Never /\ r \notin closed
  /\ \E q \in 1..r : retired[q] # Never /\ now >= retired[q] + GraceDelay
  /\ closed' = closed \cup {r}
  /\ CutOff(r)
  /\ UNCHANGED <<now, current, retired, reg, started>>

GraceClose(r) ==
  /\ retired[r] # Never /\ r \notin closed
  /\ now >= retired[r] + GraceDelay
  /\ closed' = closed \cup {r}
  /\ CutOff(r)
  /\ UNCHANGED <<now, current, retired, reg, started>>

CallStep(c) == LoadRegistry(c) \/ StartTimer(c) \/ CallEnds(c)
Next == Tick \/ Swap \/ (\E c \in Calls : CallStep(c)) \/ (\E r \in Regs : GraceClose(r))

Spec == Init /\ [][Next]_vars

-----------------------------------------------------------------------------
(***************************************************************************)
(* Properties.                                                             *)
(***************************************************************************)

\* Every variable has the type its comment gives it, and no event is in the future.
TypeOK ==
  /\ now \in 0..MaxNow /\ current \in Regs /\ closed \subseteq Regs
  /\ retired \in [Regs -> 0..Never]
  /\ \A r \in Regs : retired[r] # Never => retired[r] <= now /\ r < current
  /\ pc \in [Calls -> {"idle", "preparing", "calling", "ended", "cut"}]
  /\ reg \in [Calls -> Regs] /\ started \in [Calls -> 0..Never]
  /\ \A c \in Calls : started[c] # Never => started[c] <= now

\* A round trip under way has not reached its deadline, or has just reached it.
NotOverdue == \A c \in Calls : pc[c] = "calling" => now <= started[c] + CallTimeout

\* A call whose timer was running when its registry was replaced is not cut off: it ends, by
\* its own deadline at the latest, on the old connection. Only a call that set its
\* timer later, or had not set it at all, can be.
InFlightFinishes ==
  [][\A c \in Calls :
       pc[c] = "calling" /\ pc'[c] = "cut" =>
         started[c] >= retired[reg[c]] + GraceDelay - CallTimeout]_vars

\* What the comment on refreshGraceCloseDelay says of a round trip under its 60 s timeout: it
\* finishes instead of being cut off.
NeverCutOff == \A c \in Calls : pc[c] = "cut" => started[c] = Never
=============================================================================
