--------------------------------- MODULE Startup ---------------------------------
(***************************************************************************)
(* What starting a Server promises its program (server.rs:220-257 and      *)
(* errors.rs), with the builder, the router and the listeners left out and *)
(* only the sockets the process holds kept: a start takes sockets for its  *)
(* targets, in any order, and comes up on them, or gives them all back for *)
(* a reason the program or its host gives. ServerStart is shown to         *)
(* implement it.                                                           *)
(***************************************************************************)
EXTENDS Program

VARIABLES
  stacks,     \* the address families the host has
  disturbed,  \* another process has taken a socket
  phase,      \* where the start is
  sockets,    \* the sockets the process holds
  reason,     \* why it ended
  wasUp       \* an earlier start, or this one, came up

vars == <<program, stacks, disturbed, phase, sockets, reason, wasUp>>

Init ==
  /\ program \in Programs
  /\ stacks \in (SUBSET Families) \ {{}}
  /\ disturbed = FALSE
  /\ phase = "starting"
  /\ sockets = {}
  /\ reason = "none"
  /\ wasUp = FALSE

-------------------------------------------------------------------------------
(* Whose the sockets are: the binds of the program, or one for the          *)
(* configured port.                                                         *)
Implicit == 0
BindCalls == {i \in DOMAIN program : Binds(i)}
Owners == IF BindCalls = {} THEN {Implicit} ELSE BindCalls
Wants(i) == IF i = Implicit THEN DualStack(ConfigPort) ELSE Asked(program[i].target)

(* Those that main has bound before it makes the call.                      *)
PreBoundCalls == {i \in BindCalls : program[i].target.is = "TcpListener"}

(* One target has its socket before another: main's own come first, then    *)
(* the calls are followed.                                                  *)
Before(j, i) ==
  \/ j \in PreBoundCalls /\ i \notin PreBoundCalls
  \/ (j \in PreBoundCalls <=> i \in PreBoundCalls) /\ j < i

(* Each socket is of one target that asks for it, and each target has some, *)
(* in one family no more than one.                                          *)
Divided(held) ==
  \E owner \in [held -> Owners] :
    /\ \A s \in held : s \in Wants(owner[s])
    /\ \A i \in Owners : \E s \in held : owner[s] = i
    /\ \A s, t \in held : s # t /\ owner[s] = owner[t] => s[1] # t[1]

(* The families of this host that would do for a target, and those that do  *)
(* for certain if nobody is in the way: after an earlier start TIME_WAIT    *)
(* may keep the IPv6 half of a pair, never another bind.                    *)
Suited(i) == {Stack(s[1]) : s \in Wants(i)} \cap stacks
Certain(i) ==
  IF wasUp /\ {Stack(s[1]) : s \in Wants(i)} = Families THEN Suited(i) \ {"v6"} ELSE Suited(i)

(* Every target has its certain families.                                   *)
Whole(held) ==
  \A i \in Owners : \A f \in Certain(i) : \E s \in held \cap Wants(i) : Stack(s[1]) = f

(* A target goes without only for another process, for want of a family or  *)
(* for a target that had its sockets before.                                *)
Obstructed(i) ==
  \/ disturbed
  \/ Certain(i) = {}
  \/ \E j \in Owners : Before(j, i) /\ ~Clear(Wants(j), Wants(i))

Bad(i) == i # Implicit /\ Unreadable(program[i].target)

(* The causes of a refusal; the last two are of a target that is reached,   *)
(* past others that can be bound and read.                                  *)
Cause(why) ==
  CASE why = "NoRoutes" -> ~HasRoutes
    [] why = "InvalidDescriptorSet" -> HasInvalidSet /\ ~Clash
    [] why = "panic" -> Clash
    [] why = "NoListener" -> \E i \in PreBoundCalls : Obstructed(i)
    [] why = "InvalidAddress" ->
         Servable /\ \E i \in Owners : Bad(i) /\ \A j \in Owners : Before(j, i) => Suited(j) # {}
    [] why = "Io" ->
         Servable /\ \E i \in Owners \ PreBoundCalls :
           Obstructed(i) /\ ~Bad(i) /\ \A j \in Owners : Before(j, i) => ~Bad(j)

-------------------------------------------------------------------------------
(* A target gets one socket, of those it asks for and the process has not.  *)
Acquire ==
  /\ phase = "starting"
  /\ \E i \in Owners : \E s \in Wants(i) :
       /\ Servable \/ i \in PreBoundCalls
       /\ Stack(s[1]) \in stacks
       /\ Clear({s}, sockets)
       /\ sockets' = sockets \cup {s}
  /\ UNCHANGED <<program, stacks, disturbed, phase, reason, wasUp>>

Open ==
  /\ phase = "starting"
  /\ Servable
  /\ \A i \in Owners : ~Bad(i)
  /\ Divided(sockets)
  /\ ~disturbed /\ Apart => Whole(sockets)
  /\ phase' = "up"
  /\ wasUp' = TRUE
  /\ UNCHANGED <<program, stacks, disturbed, sockets, reason>>

(* Nothing stays bound for a start that is refused.                         *)
Refuse ==
  /\ phase = "starting"
  /\ phase' = "down"
  /\ sockets' = {}
  /\ reason' \in {"NoRoutes", "InvalidDescriptorSet", "panic", "NoListener",
                  "InvalidAddress", "Io"}
  /\ Cause(reason')
  /\ UNCHANGED <<program, stacks, disturbed, wasUp>>

Stop ==
  /\ phase = "up"
  /\ phase' = "down"
  /\ sockets' = {}
  /\ reason' = "stopped"
  /\ UNCHANGED <<program, stacks, disturbed, wasUp>>

Again ==
  /\ phase = "down"
  /\ phase' = "starting"
  /\ reason' = "none"
  /\ UNCHANGED <<program, stacks, disturbed, sockets, wasUp>>

Disturb ==
  /\ disturbed' = TRUE
  /\ UNCHANGED <<program, stacks, phase, sockets, reason, wasUp>>

Next == Acquire \/ Open \/ Refuse \/ Stop \/ Again \/ Disturb

Spec == Init /\ [][Next]_vars
================================================================================
