---------------------------- MODULE PortManager ----------------------------
(***************************************************************************)
(* The pool of UDP ports the master server gives to game servers           *)
(* (master_server/game/PortManager.cpp).  The pool is the vector ports_;   *)
(* a Reservation takes the last element and its destructor pushes it back. *)
(* Every operation runs under the pool's mutex, so each is one step of the *)
(* modules that use them; here they are operators on the vector.           *)
(***************************************************************************)
EXTENDS Integers, SequencesExt

CONSTANTS PortMin,   \* game_port_min of the configuration
          PortMax    \* game_port_max, the first port that is not used

ASSUME PortRangeAssumption == PortMin \in Nat /\ PortMax \in Nat

Ports == PortMin .. (PortMax - 1)

\* The port_ of a default-constructed or moved-from Reservation.
NoPort == -1

\* PortManager::create
FullPool == [i \in 1 .. (IF PortMin < PortMax THEN PortMax - PortMin ELSE 0)
               |-> PortMin + i - 1]

\* Reservation::Reservation(mgr): the port taken, what is left of the pool,
\* and when it throws "no free port".
NoFreePort(pool)   == pool = <<>>
PortTaken(pool)    == Last(pool)
\* Faulty variant: the port is copied, not popped.
PoolKept(pool)     == pool
PoolAfter(pool)    == Front(pool)

\* Reservation::~Reservation, for a Reservation that holds port; one that was
\* moved from (self_ = nullptr) gives nothing back.
GiveBack(pool, port) == IF port = NoPort THEN pool ELSE Append(pool, port)
=============================================================================
