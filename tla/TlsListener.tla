---------------------------- MODULE TlsListener ----------------------------
(***************************************************************************)
(* The listener of the message servers (TlsListener.cpp): one acceptor for *)
(* IPv4 and one for IPv6 on the same port, each with a mutex, the          *)
(* connection that is being accepted and a timer to try again a minute     *)
(* after an exception.  An accepted connection is posted to the io threads *)
(* for the callback, which begins the handshake (MessageConnection).       *)
(*                                                                         *)
(* An IPv6 socket takes IPv4 clients too where the system says so          *)
(* (dualStack); there, only one of the two can listen on the port.         *)
(***************************************************************************)
EXTENDS Naturals

CONSTANTS Clients4,    \* clients that connect over IPv4
          Clients6,    \* clients that connect over IPv6
          NoClient,
          MaxFaults    \* bounds the exceptions and the failures to accept

ASSUME ClientsAssumption == NoClient \notin Clients4 \union Clients6
ASSUME FaultsAssumption == MaxFaults \in Nat

Clients   == Clients4 \union Clients6
Listeners == {"v4", "v6"}

VARIABLES
  dualStack,
  begun,      \* the listeners that TlsListener's constructor has started
  disposed,   \* disposed_
  listening,  \* those with an acceptor_
  accept,     \* the accept of each: none, pending, or its completion is queued
  current,    \* the client whose socket is in current_accepting_
  retry,      \* retry_timer_: off, waiting, or its expired wait is queued
  queue,      \* clients the system has connected, for an acceptor to take
  posted,     \* connections on their way to the callback
  served,     \* clients whose connection the callback has got
  gone,       \* clients that have given up
  faults

sockets == <<listening, accept, current, retry, queue>>
listenerVars == <<dualStack, begun, disposed, sockets, posted, served, gone, faults>>

ListenerTypeOK ==
  /\ dualStack \in BOOLEAN
  /\ begun \subseteq Listeners /\ disposed \subseteq begun /\ listening \subseteq begun
  /\ accept \in [Listeners -> {"none", "pending", "done", "failed"}]
  /\ current \in [Listeners -> Clients \union {NoClient}]
  /\ retry \in [Listeners -> {"off", "waiting", "due"}]
  /\ queue \in [Listeners -> SUBSET Clients]
  /\ posted \subseteq Clients /\ served \subseteq Clients /\ gone \subseteq Clients
  /\ faults \in 0 .. MaxFaults

ListenerInit ==
  /\ dualStack \in BOOLEAN
  /\ begun = {} /\ disposed = {} /\ listening = {}
  /\ accept = [l \in Listeners |-> "none"]
  /\ current = [l \in Listeners |-> NoClient]
  /\ retry = [l \in Listeners |-> "off"]
  /\ queue = [l \in Listeners |-> {}]
  /\ posted = {} /\ served = {} /\ gone = {}
  /\ faults = 0

\* run_io_workers comes after the constructor.
Running == begun = Listeners

CanBind(l) == dualStack => listening \subseteq {l}
Takes(l)   == IF l = "v4" THEN Clients4
              ELSE IF dualStack THEN Clients ELSE Clients6

\* The accept is begun, on a new acceptor where there was none; f counts the
\* exceptions before it.
Listen(l, timers, f) ==
  /\ l \in listening \/ CanBind(l)
  /\ listening' = listening \union {l}
  /\ accept' = [accept EXCEPT ![l] = "pending"]
  /\ current' = [current EXCEPT ![l] = NoClient]
  /\ retry' = timers
  /\ faults' = f
  /\ UNCHANGED queue

\* Something of it throws: the acceptor goes, with the clients that no accept
\* has taken, and the timer is set.
RetryLater(l, timers, f) ==
  /\ \/ l \notin listening /\ ~CanBind(l) /\ faults' = f
     \/ f < MaxFaults /\ faults' = f + 1
  /\ listening' = listening \ {l}
  /\ queue' = [queue EXCEPT ![l] = {}]
  /\ accept' = [accept EXCEPT ![l] = "none"]
  /\ current' = [current EXCEPT ![l] = NoClient]
  /\ retry' = [timers EXCEPT ![l] = "waiting"]

\* start_locked, with the state the timers have before it
StartLocked(l, timers, f) == Listen(l, timers, f) \/ RetryLater(l, timers, f)

\* The constructor: first the one for IPv4.
StartListener(l) ==
  /\ l \notin begun /\ (l = "v6" => "v4" \in begun)
  /\ begun' = begun \union {l}
  /\ StartLocked(l, retry, faults)
  /\ UNCHANGED <<dualStack, disposed, posted, served, gone>>

\* The destructor, which destroys the later one first.  What is queued already
\* still runs; a pending accept completes with an error.
Dispose(l) ==
  /\ Running /\ l \notin disposed /\ (l = "v4" => "v6" \in disposed)
  /\ disposed' = disposed \union {l}
  /\ listening' = listening \ {l}
  /\ queue' = [queue EXCEPT ![l] = {}]
  /\ accept' = [accept EXCEPT ![l] = IF @ = "pending" THEN "failed" ELSE @]
  /\ retry' = [retry EXCEPT ![l] = IF @ = "waiting" THEN "off" ELSE @]
  /\ UNCHANGED <<dualStack, begun, current, posted, served, gone, faults>>

(***************************************************************************)
(* The system and the clients.  A client whose connection was refused or   *)
(* reset tries again.                                                      *)
(***************************************************************************)
Away(c) == /\ c \notin posted \union served \union gone
           /\ \A l \in Listeners : c \notin queue[l] /\ c # current[l]

Connect(c) ==
  /\ Away(c)
  /\ \E l \in listening :
       c \in Takes(l) /\ queue' = [queue EXCEPT ![l] = @ \union {c}]
  /\ UNCHANGED <<dualStack, begun, disposed, listening, accept, current, retry,
                 posted, served, gone, faults>>

GivesUp(c) ==
  /\ c \notin gone /\ gone' = gone \union {c}
  /\ UNCHANGED <<dualStack, begun, disposed, sockets, posted, served, faults>>

AcceptSucceeds(l) ==
  /\ Running /\ accept[l] = "pending"
  /\ accept' = [accept EXCEPT ![l] = "done"]
  /\ \E c \in queue[l] : /\ queue' = [queue EXCEPT ![l] = @ \ {c}]
                         /\ current' = [current EXCEPT ![l] = c]
  /\ UNCHANGED <<dualStack, begun, disposed, listening, retry, posted, served,
                 gone, faults>>

\* There is no descriptor, or no memory, for the socket of the client.
AcceptFails(l) ==
  /\ Running /\ accept[l] = "pending" /\ faults < MaxFaults
  /\ accept' = [accept EXCEPT ![l] = "failed"]
  /\ faults' = faults + 1
  /\ UNCHANGED <<dualStack, begun, disposed, listening, current, retry, queue,
                 posted, served, gone>>

(***************************************************************************)
(* The handlers.                                                           *)
(***************************************************************************)
\* on_accept_locked, on a failure, or when remote_endpoint() throws since the
\* client is gone: the connection is destroyed when the next one is created.
Reject(l) ==
  /\ accept[l] = "failed" \/ (accept[l] = "done" /\ current[l] \in gone)
  /\ UNCHANGED posted

\* initialize_connection_locked
HandOn(l) ==
  /\ accept[l] = "done" /\ current[l] \notin gone
  /\ posted' = posted \union {current[l]}

\* Something else throws on the way, up to the post: the connection is destroyed
\* with the client still there.
Drop(l) ==
  /\ accept[l] = "done" /\ faults < MaxFaults
  /\ UNCHANGED posted

\* Faulty variant: the exception for a client that is gone ends the accepting.
AcceptCompletesOrStops(l) ==
  /\ Running /\ accept[l] \in {"done", "failed"} /\ l \notin disposed
  /\ \/ HandOn(l) /\ StartLocked(l, retry, faults)
     \/ /\ Reject(l) /\ accept' = [accept EXCEPT ![l] = "none"]
        /\ UNCHANGED <<listening, current, retry, queue, faults>>
  /\ UNCHANGED <<dualStack, begun, disposed, served, gone>>

AcceptCompletes(l) ==
  /\ Running /\ accept[l] \in {"done", "failed"} /\ l \notin disposed
  /\ \/ (Reject(l) \/ HandOn(l)) /\ StartLocked(l, retry, faults)
     \/ Drop(l) /\ StartLocked(l, retry, faults + 1)
  /\ UNCHANGED <<dualStack, begun, disposed, served, gone>>

\* After the destructor a completion does nothing; with it goes the socket in
\* current_accepting_.
LateCompletion(l) ==
  /\ l \in disposed /\ accept[l] \in {"done", "failed"}
  /\ accept' = [accept EXCEPT ![l] = "none"]
  /\ current' = [current EXCEPT ![l] = NoClient]
  /\ UNCHANGED <<dualStack, begun, disposed, listening, retry, queue, posted,
                 served, gone, faults>>

RetryExpires(l) ==
  /\ Running /\ retry[l] = "waiting"
  /\ retry' = [retry EXCEPT ![l] = "due"]
  /\ UNCHANGED <<dualStack, begun, disposed, listening, accept, current, queue,
                 posted, served, gone, faults>>

\* Faulty variant: the second exception is final.
RetryOnce(l) ==
  /\ Running /\ retry[l] = "due"
  /\ \/ l \notin disposed /\ Listen(l, [retry EXCEPT ![l] = "off"], faults)
     \/ /\ retry' = [retry EXCEPT ![l] = "off"]
        /\ UNCHANGED <<listening, accept, current, queue, faults>>
  /\ UNCHANGED <<dualStack, begun, disposed, posted, served, gone>>

\* The handler of the timer.
Retry(l) ==
  LET timers == [retry EXCEPT ![l] = "off"]
  IN
  /\ Running /\ retry[l] = "due"
  /\ IF l \in disposed
       THEN retry' = timers /\ UNCHANGED <<listening, accept, current, queue, faults>>
       ELSE StartLocked(l, timers, faults)
  /\ UNCHANGED <<dualStack, begun, disposed, posted, served, gone>>

\* The posted call of on_accept_.
CallBack(c) ==
  /\ Running /\ c \in posted
  /\ posted' = posted \ {c} /\ served' = served \union {c}
  /\ UNCHANGED <<dualStack, begun, disposed, sockets, gone, faults>>

\* The callback throws, and the connection is destroyed with the posted call.
CallBackThrows(c) ==
  /\ Running /\ c \in posted /\ faults < MaxFaults
  /\ posted' = posted \ {c} /\ faults' = faults + 1
  /\ UNCHANGED <<dualStack, begun, disposed, sockets, served, gone>>

-----------------------------------------------------------------------------
ListenerNext ==
  \/ \E l \in Listeners :
       \/ StartListener(l) \/ Dispose(l)
       \/ AcceptSucceeds(l) \/ AcceptFails(l)
       \/ AcceptCompletes(l) \/ LateCompletion(l)
       \/ RetryExpires(l) \/ Retry(l)
  \/ \E c \in Clients : Connect(c) \/ GivesUp(c) \/ CallBack(c) \/ CallBackThrows(c)

ListenerSpec == ListenerInit /\ [][ListenerNext]_listenerVars

\* The constructor ends, io threads run, the system takes clients from the queue
\* and timers expire; a client that has not given up tries again.
ListenerFairness ==
  /\ \A l \in Listeners :
       /\ WF_listenerVars(StartListener(l))
       /\ WF_listenerVars(AcceptSucceeds(l)) /\ WF_listenerVars(AcceptCompletes(l))
       /\ WF_listenerVars(RetryExpires(l)) /\ WF_listenerVars(Retry(l))
  /\ \A c \in Clients : WF_listenerVars(Connect(c)) /\ WF_listenerVars(CallBack(c))

ListenerFairSpec == ListenerSpec /\ ListenerFairness

-----------------------------------------------------------------------------
(***************************************************************************)
(* Properties.                                                             *)
(***************************************************************************)
\* Whatever throws, and whichever completions and waits come together, a listener
\* goes on in exactly one way: an accept is under way on its acceptor, or the
\* timer will try again.  Never none, which would leave the port deaf, and never
\* two, which would put two accepts on the one current_accepting_.
OneContinuation ==
  \A l \in begun \ disposed :
    /\ accept[l] = "none" <=> retry[l] # "off"
    /\ accept[l] # "none" => l \in listening

\* A client that keeps trying over IPv4 gets its handshake in the end, through
\* one listener or the other, whatever failed before.
ClientsAreServed ==
  \A c \in Clients4 : <>(c \in served \union gone \/ disposed # {})

\* A client whose connection was accepted leaves current_accepting_ for the posted
\* call, and the posted call for the callback.  It is dropped on the way only when it
\* has given up, when the listener is being destroyed, or by an exception of its own:
\* never by a second accept, nor by an exception of the start_locked that follows,
\* which shows in that no accept is left.
AcceptedIsHandedOn ==
  [][/\ \A l \in Listeners \ disposed :
          current[l] # NoClient /\ current'[l] # current[l]
            => \/ current[l] \in posted' \union gone
               \/ faults' > faults + (IF accept'[l] = "none" THEN 1 ELSE 0)
     /\ \A c \in posted \ posted' : c \in served' \/ faults' > faults]_listenerVars

\* The inductive invariant: nothing happens to a listener before its constructor, and
\* a client is in current_accepting_ exactly while the completion of its accept waits.
ListenerInv ==
  /\ ListenerTypeOK /\ OneContinuation
  /\ \A l \in Listeners \ begun : accept[l] = "none" /\ retry[l] = "off"
  /\ \A l \in Listeners : accept[l] = "done" <=> current[l] # NoClient
=============================================================================
