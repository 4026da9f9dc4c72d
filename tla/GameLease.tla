----------------------------- MODULE GameLease -----------------------------
(***************************************************************************)
(* What the life of game servers promises, without threads, pools or       *)
(* timers: a game leases a port nobody holds, at most once; its server     *)
(* runs only while the game holds the lease; when the server has stopped   *)
(* the port is returned, and after that the game may be awarded, once.     *)
(* GameLifecycle is shown to implement this specification.                 *)
(***************************************************************************)
EXTENDS Integers

CONSTANTS Games, Ports, NoPort

VARIABLES
  holds,     \* the port each game leases, or NoPort
  served,    \* games that were ever given a port
  live,      \* games whose server process runs
  started,   \* games whose server process was ever started
  awarded    \* how often a game's ranking points were given out

vars == <<holds, served, live, started, awarded>>

Init ==
  /\ holds = [g \in Games |-> NoPort]
  /\ served = {}
  /\ live = {}
  /\ started = {}
  /\ awarded = [g \in Games |-> 0]

Grant(g, p) ==
  /\ g \notin served
  /\ \A h \in Games : holds[h] # p
  /\ holds' = [holds EXCEPT ![g] = p]
  /\ served' = served \union {g}
  /\ UNCHANGED <<live, started, awarded>>

Start(g) ==
  /\ holds[g] # NoPort
  /\ g \notin started
  /\ live' = live \union {g}
  /\ started' = started \union {g}
  /\ UNCHANGED <<holds, served, awarded>>

Stop(g) ==
  /\ g \in live
  /\ live' = live \ {g}
  /\ UNCHANGED <<holds, served, started, awarded>>

GiveUp(g) ==
  /\ g \notin live
  /\ holds[g] # NoPort
  /\ holds' = [holds EXCEPT ![g] = NoPort]
  /\ UNCHANGED <<served, live, started, awarded>>

Award(g) ==
  /\ g \in started \ live
  /\ holds[g] = NoPort
  /\ awarded[g] = 0
  /\ awarded' = [awarded EXCEPT ![g] = 1]
  /\ UNCHANGED <<holds, served, live, started>>

Next == \E g \in Games :
  Start(g) \/ Stop(g) \/ GiveUp(g) \/ Award(g) \/ \E p \in Ports : Grant(g, p)

Spec == Init /\ [][Next]_vars
=============================================================================
