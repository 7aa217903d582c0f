--------------------------- MODULE TrackerClient ---------------------------
(***************************************************************************)
(* The UDP tracker client: a TrackerClient that starts requests against a  *)
(* RequestLimiter, the bounded channel to the event loop, and the          *)
(* ClientDispatcher that runs there.  The dispatcher connects to a tracker *)
(* before it sends the request proper, retransmits on a timer whose length *)
(* doubles with every attempt, and notifies the client of the outcome.     *)
(*                                                                         *)
(* Time advances in units of 15 seconds, the first timeout.  A timer that  *)
(* is due fires before time advances again, but before or after what else  *)
(* happens at that time.  A request packet stays on the wire until it is   *)
(* answered; one that is never answered was lost.  A request always fits   *)
(* in the send buffer of 1500 bytes, so MaxLength does not occur.          *)
(***************************************************************************)
EXTENDS Integers, Sequences, FiniteSets, SequencesExt

CONSTANTS
  Addr,                  \* addresses of trackers
  Mismatched,            \* those of the other IP version than the bound address
  Kinds,                 \* requests that the client makes
  Capacity,              \* of the limiter
  MAXIMUM_REQUEST_RETRANSMIT_ATTEMPTS,
  CONNECTION_ID_VALID,   \* CONNECTION_ID_VALID_DURATION_MILLIS in units
  MaxRequests,           \* bound: requests admitted by the limiter in all
  MaxDuplicates          \* bound: answers that the network duplicates

ASSUME TrackerAssumption ==
  /\ Mismatched \subseteq Addr
  /\ Kinds \subseteq {"Announce", "Scrape"}
  /\ Capacity \in Nat
  /\ MAXIMUM_REQUEST_RETRANSMIT_ATTEMPTS \in Nat
  /\ CONNECTION_ID_VALID \in Nat \ {0}
  /\ MaxRequests \in Nat /\ MaxDuplicates \in Nat

VARIABLES
  limiter,          \* the atomic counter of the RequestLimiter
  client,           \* where the client is in request()
  channel,          \* messages to the event loop
  loop,             \* "running", "stopping" or "stopped"
  active_requests,
  timers,           \* times left of the timers set for each token
  cleanup,          \* time left of the CleanUp timer, or Unset
  id_cache,         \* age of the connection id of each address, or Unset
  wire,             \* request packets that trackers may answer
  notified,         \* results given to the client for each token
  requests,         \* requests admitted so far; their numbers are the tokens
  lost,             \* requests that were dropped without a notification
  duplicates

vars == <<limiter, client, channel, loop, active_requests, timers, cleanup,
          id_cache, wire, notified, requests, lost, duplicates>>

-----------------------------------------------------------------------------
Token == 1 .. MaxRequests

Unset == -1

None == [addr |-> "none", kind |-> "none", attempt |-> 0]

(* The client is not in request(), it is before the send or the acknowledge *)
(* there, or it was dropped.                                                *)
IdleClient == [pc |-> "idle", seen |-> 0, addr |-> "none", kind |-> "none"]

Active(t) == active_requests[t] # None

ChannelCapacity == Capacity + 1

StartTimer == [type |-> "StartTimer", token |-> 0, addr |-> "none",
               kind |-> "none"]

Shutdown == [StartTimer EXCEPT !.type = "Shutdown"]

Init ==
  /\ limiter = 0
  /\ client = IdleClient
  /\ channel = <<StartTimer>>
  /\ loop = "running"
  /\ active_requests = [t \in Token |-> None]
  /\ timers = [t \in Token |-> <<>>]
  /\ cleanup = Unset
  /\ id_cache = [a \in Addr |-> Unset]
  /\ wire = {}
  /\ notified = [t \in Token |-> <<>>]
  /\ requests = 0
  /\ lost = {}
  /\ duplicates = 0

dispatcherVars == <<loop, active_requests, timers, cleanup, id_cache, wire,
                    notified, lost, duplicates>>

-----------------------------------------------------------------------------
(* The client.                                                             *)

Admitted == client.pc = "added" /\ client.seen < Capacity

Refused == client.pc = "added" /\ client.seen >= Capacity

(* The fetch_add of can_initiate. *)
CanInitiate(a, kind) ==
  /\ client.pc = "idle"
  /\ requests < MaxRequests \/ limiter >= Capacity
  /\ client' = [pc |-> "added", seen |-> limiter, addr |-> a, kind |-> kind]
  /\ limiter' = limiter + 1
  /\ UNCHANGED <<channel, requests, dispatcherVars>>

SendRequest ==
  /\ Admitted
  /\ Len(channel) < ChannelCapacity
  /\ channel' = Append(channel, [type |-> "Request", token |-> requests + 1,
                                 addr |-> client.addr, kind |-> client.kind])
  /\ requests' = requests + 1
  /\ client' = IdleClient
  /\ UNCHANGED <<limiter, dispatcherVars>>

(* request() returns None. *)
RefuseRequest ==
  /\ Refused
  /\ limiter' = limiter - 1
  /\ client' = IdleClient
  /\ UNCHANGED <<channel, requests, dispatcherVars>>

(* drop; the send of the Shutdown message fails when the channel is full. *)
DropClient ==
  /\ client.pc = "idle"
  /\ client' = [IdleClient EXCEPT !.pc = "dropped"]
  /\ channel' = IF Len(channel) < ChannelCapacity THEN Append(channel, Shutdown)
                ELSE channel
  /\ UNCHANGED <<limiter, requests, dispatcherVars>>

-----------------------------------------------------------------------------
(* The dispatcher.                                                         *)

notify_client(t, result) ==
  /\ notified' = [notified EXCEPT ![t] = Append(@, result)]
  /\ limiter' = limiter - 1

(* calculate_message_timeout_millis, in units *)
MessageTimeout(attempt) == 2 ^ attempt

(* Mutant: attempts are not counted. *)
AttemptUncounted(r, timed_out) == r.attempt

(* current_timeout counts a retransmission when there was a timeout. *)
Attempt(r, timed_out) == r.attempt + IF timed_out THEN 1 ELSE 0

(* Mutant: a connection id is used for as long as it is in the cache. *)
CachedIsValid(age) == age # Unset

(* ConnectIdCache::get finds an id that has not expired. *)
IsValid(age) == age \in 0 .. CONNECTION_ID_VALID - 1

(* Mutant: a request that is given up stays with the dispatcher. *)
process_request_keeps(t, r, timed_out, tms, cache, packets) ==
  /\ timers' = [tms EXCEPT ![t] = Append(@, MessageTimeout(r.attempt))]
  /\ id_cache' = cache
  /\ wire' = packets \cup {[token |-> t, addr |-> r.addr, kind |-> "Connect"]}
  /\ active_requests' =
       [active_requests EXCEPT ![t] = [r EXCEPT !.attempt =
          IF @ = MAXIMUM_REQUEST_RETRANSMIT_ATTEMPTS THEN @
          ELSE Attempt(r, timed_out)]]
  /\ IF r.attempt = MAXIMUM_REQUEST_RETRANSMIT_ATTEMPTS
     THEN notify_client(t, "MaxTimeout")
     ELSE UNCHANGED <<notified, limiter>>

(* process_request for request r with token t, when the timers, the cache   *)
(* and the wire are tms, cache and packets.  The packet is a Connect unless *)
(* the cache has a connection id for the tracker; an expired id is removed. *)
process_request(t, r, timed_out, tms, cache, packets) ==
  \/ /\ r.attempt = MAXIMUM_REQUEST_RETRANSMIT_ATTEMPTS
     /\ notify_client(t, "MaxTimeout")
     /\ active_requests' = [active_requests EXCEPT ![t] = None]
     /\ timers' = tms
     /\ id_cache' = cache
     /\ wire' = packets
  \/ /\ r.attempt # MAXIMUM_REQUEST_RETRANSMIT_ATTEMPTS
     /\ LET attempt == Attempt(r, timed_out)
            valid   == IsValid(cache[r.addr])
        IN  /\ active_requests' =
                 [active_requests EXCEPT ![t] = [r EXCEPT !.attempt = attempt]]
            /\ timers' =
                 [tms EXCEPT ![t] = Append(@, MessageTimeout(attempt))]
            /\ id_cache' = IF valid THEN cache
                           ELSE [cache EXCEPT ![r.addr] = Unset]
            /\ wire' = packets \cup {[token |-> t, addr |-> r.addr,
                                      kind |-> IF valid THEN r.kind
                                               ELSE "Connect"]}
     /\ UNCHANGED <<notified, limiter>>

(* clean_expired walks the cache by index.  Removing an entry moves the     *)
(* next one to its index, so that one is skipped.                           *)
CleanedInOrder(order) ==
  LET Visit(kept, i) ==
        IF i <= Len(kept) /\ ~IsValid(id_cache[kept[i]])
        THEN RemoveAt(kept, i) ELSE kept
      kept == FoldLeft(Visit, order, [i \in 1 .. Len(order) |-> i])
  IN  [a \in Addr |-> IF a \in ToSet(kept) THEN id_cache[a] ELSE Unset]

(* The CleanUp timeout: the entries of a HashMap come in any order. *)
CleanUp ==
  /\ \E order \in SetToSeqs({a \in Addr : id_cache[a] # Unset}) :
       id_cache' = CleanedInOrder(order)
  /\ cleanup' = CONNECTION_ID_VALID

NotifyStartTimer ==
  /\ loop = "running"
  /\ channel # <<>> /\ Head(channel).type = "StartTimer"
  /\ channel' = Tail(channel)
  /\ CleanUp
  /\ UNCHANGED <<limiter, client, loop, active_requests, timers, wire, notified,
                 requests, lost, duplicates>>

TimeoutCleanUp ==
  /\ loop = "running"
  /\ cleanup = 0
  /\ CleanUp
  /\ UNCHANGED <<limiter, client, channel, loop, active_requests, timers, wire,
                 notified, requests, lost, duplicates>>

(* Mutant: a request to an address of the other version keeps its slot. *)
MismatchKeepsSlot ==
  /\ loop = "running"
  /\ channel # <<>> /\ Head(channel).type = "Request"
  /\ channel' = Tail(channel)
  /\ LET m == Head(channel)
     IN  \/ /\ m.addr \in Mismatched
            /\ notified' = [notified EXCEPT ![m.token] =
                              Append(@, "IPVersionMismatch")]
            /\ UNCHANGED <<limiter, active_requests, timers, id_cache, wire>>
         \/ /\ m.addr \notin Mismatched
            /\ process_request(m.token, [addr |-> m.addr, kind |-> m.kind,
                                         attempt |-> 0],
                               FALSE, timers, id_cache, wire)
  /\ UNCHANGED <<client, loop, cleanup, requests, lost, duplicates>>

(* send_request *)
NotifyRequest ==
  /\ loop = "running"
  /\ channel # <<>> /\ Head(channel).type = "Request"
  /\ channel' = Tail(channel)
  /\ LET m == Head(channel)
     IN  \/ /\ m.addr \in Mismatched
            /\ notify_client(m.token, "IPVersionMismatch")
            /\ UNCHANGED <<active_requests, timers, id_cache, wire>>
         \/ /\ m.addr \notin Mismatched
            /\ process_request(m.token, [addr |-> m.addr, kind |-> m.kind,
                                         attempt |-> 0],
                               FALSE, timers, id_cache, wire)
  /\ UNCHANGED <<client, loop, cleanup, requests, lost, duplicates>>

NotifyShutdown ==
  /\ loop = "running"
  /\ channel # <<>> /\ Head(channel).type = "Shutdown"
  /\ channel' = Tail(channel)
  /\ loop' = "stopping"
  /\ UNCHANGED <<limiter, client, active_requests, timers, cleanup, id_cache,
                 wire, notified, requests, lost, duplicates>>

(* The loop of shutdown over the active requests, and its end. *)
ShutdownRequest(t) ==
  /\ loop = "stopping"
  /\ Active(t)
  /\ notify_client(t, "ClientShutdown")
  /\ active_requests' = [active_requests EXCEPT ![t] = None]
  /\ UNCHANGED <<client, channel, loop, timers, cleanup, id_cache, wire,
                 requests, lost, duplicates>>

ShutdownEnds ==
  /\ loop = "stopping"
  /\ \A t \in Token : ~Active(t)
  /\ loop' = "stopped"
  /\ UNCHANGED <<limiter, client, channel, active_requests, timers, cleanup,
                 id_cache, wire, notified, requests, lost, duplicates>>

TimeoutConnect(t) ==
  /\ loop = "running"
  /\ \E i \in 1 .. Len(timers[t]) :
       /\ timers[t][i] = 0
       /\ LET tms == [timers EXCEPT ![t] = RemoveAt(@, i)]
          IN  \/ /\ Active(t)
                 /\ process_request(t, active_requests[t], TRUE, tms, id_cache,
                                    wire)
              \/ /\ ~Active(t)
                 /\ timers' = tms
                 /\ UNCHANGED <<limiter, active_requests, id_cache, wire, notified>>
  /\ UNCHANGED <<client, channel, loop, cleanup, requests, lost, duplicates>>

(* Mutant: the timer keeps running when the response arrives. *)
KeepTimeout(t) == timers

(* clear_timeout of the timer that was set last for the token *)
ClearTimeout(t) == [timers EXCEPT ![t] = Front(@)]

(* Mutant: the response is taken for what was asked for. *)
ResponseTrusted(asked, response) ==
  IF response = "Error" THEN "ServerMessage" ELSE response

(* The result for the response to a request of kind asked. *)
ResponseResult(asked, response) ==
  CASE response = asked   -> asked
    [] response = "Error" -> "ServerMessage"
    [] OTHER              -> "ServerError"

(* recv_response of a response that came from address a.  The request is    *)
(* removed before the address is compared, and a response from another      *)
(* address ends there.                                                      *)
recv_response(t, a, response, packets) ==
  \/ /\ ~Active(t)
     /\ wire' = packets
     /\ UNCHANGED <<limiter, active_requests, timers, id_cache, notified, lost>>
  \/ /\ Active(t) /\ active_requests[t].addr # a
     /\ active_requests' = [active_requests EXCEPT ![t] = None]
     /\ lost' = lost \cup {t}
     /\ wire' = packets
     /\ UNCHANGED <<limiter, timers, id_cache, notified>>
  \/ /\ Active(t) /\ active_requests[t].addr = a
     /\ response = "Connect"
     /\ process_request(t, active_requests[t], FALSE, ClearTimeout(t),
                        [id_cache EXCEPT ![a] = 0], packets)
     /\ UNCHANGED lost
  \/ /\ Active(t) /\ active_requests[t].addr = a
     /\ response # "Connect"
     /\ notify_client(t, ResponseResult(active_requests[t].kind, response))
     /\ active_requests' = [active_requests EXCEPT ![t] = None]
     /\ timers' = ClearTimeout(t)
     /\ wire' = packets
     /\ UNCHANGED <<id_cache, lost>>

(* External: what a tracker answers to a packet: a response of the same     *)
(* kind, one of the wrong kind, or an error.                                *)
Answers(kind) ==
  IF kind = "Connect" THEN {"Connect", "Error"}
  ELSE {"Announce", "Scrape", "Error"}

(* A response to packet p arrives from address a, which need not be the one *)
(* that was asked; a copy of the response may follow.                       *)
Incoming(p, a, response) ==
  /\ loop = "running"
  /\ \/ /\ recv_response(p.token, a, response, wire \ {p})
        /\ UNCHANGED duplicates
     \/ /\ duplicates < MaxDuplicates
        /\ duplicates' = duplicates + 1
        /\ recv_response(p.token, a, response, wire)
  /\ UNCHANGED <<client, channel, loop, cleanup, requests>>

(* External: time passes, unless a timer is due. *)
Tick ==
  /\ loop = "running"
  /\ cleanup # 0
  /\ \A t \in Token : 0 \notin ToSet(timers[t])
  /\ timers' = [t \in Token |-> [i \in 1 .. Len(timers[t]) |-> timers[t][i] - 1]]
  /\ cleanup' = IF cleanup = Unset THEN Unset ELSE cleanup - 1
  /\ id_cache' = [a \in Addr |-> IF id_cache[a] \in 0 .. CONNECTION_ID_VALID - 1
                                 THEN id_cache[a] + 1 ELSE id_cache[a]]
  /\ UNCHANGED <<limiter, client, channel, loop, active_requests, wire, notified,
                 requests, lost, duplicates>>

Dispatch ==
  \/ NotifyStartTimer \/ NotifyRequest \/ NotifyShutdown \/ ShutdownEnds
  \/ \E t \in Token : ShutdownRequest(t)

Next ==
  \/ \E a \in Addr, kind \in Kinds : CanInitiate(a, kind)
  \/ SendRequest
  \/ RefuseRequest
  \/ DropClient
  \/ Dispatch
  \/ TimeoutCleanUp
  \/ \E t \in Token : TimeoutConnect(t)
  \/ \E p \in wire, a \in Addr : \E response \in Answers(p.kind) :
       Incoming(p, a, response)
  \/ Tick

Spec == Init /\ [][Next]_vars

(* The event loop handles its messages and timers, and time passes.  Nothing *)
(* is assumed of the trackers.                                              *)
FairSpec ==
  /\ Spec
  /\ WF_vars(Dispatch)
  /\ WF_vars(TimeoutCleanUp)
  /\ \A t \in Token : WF_vars(TimeoutConnect(t))
  /\ WF_vars(Tick)

-----------------------------------------------------------------------------
(* Tokens of the requests that are in the channel or with the dispatcher. *)
InProgress ==
  {m.token : m \in {x \in ToSet(channel) : x.type = "Request"}}
    \cup {t \in Token : Active(t)}

L == INSTANCE Limiter WITH
       Caller <- {"client"}, count <- limiter,
       admitted <- {c \in {"client"} : Admitted},
       refused <- {c \in {"client"} : Refused},
       held <- Cardinality(InProgress), lost <- Cardinality(lost)

(* The client, the channel and the dispatcher together implement the        *)
(* limiter: every way a request ends gives back its slot exactly once, but  *)
(* for the response that comes from another address.                        *)
ImplementsLimiter == L!Spec

(* A request is notified at most once, and not while it is still in         *)
(* progress, whatever the order of its responses, their copies, its         *)
(* timeouts and the shutdown.                                               *)
NotifiedOnce ==
  \A t \in Token :
    /\ Len(notified[t]) <= 1
    /\ t \in InProgress => notified[t] = <<>>

(* While the loop runs a request has exactly one timer and a timer has a    *)
(* request, if not one that was dropped: "assuming each request uses at     *)
(* most 1 timer at any time" (DEFAULT_CAPACITY), which sizes the timers of  *)
(* the event loop.                                                          *)
OneTimerPerRequest ==
  loop = "running" =>
    \A t \in Token \ lost : Len(timers[t]) = IF Active(t) THEN 1 ELSE 0

(* "unwrapping this value is guaranteed to succeed" (announce_response):    *)
(* the result of a request is a response of its kind or an error.           *)
ResultOfItsKind ==
  [][\A t \in Token :
       /\ notified'[t] # notified[t]
       /\ Last(notified'[t]) \in {"Announce", "Scrape"}
       => Last(notified'[t]) = active_requests[t].kind]_vars

(* A request other than Connect goes to a tracker only with a connection id *)
(* that this tracker gave less than CONNECTION_ID_VALID ago.                *)
FreshConnectionId ==
  [][\A p \in wire' \ wire :
       p.kind # "Connect" => id_cache'[p.addr] \in 0 .. CONNECTION_ID_VALID - 1]_vars

(* Every request that the client makes is answered, also when no tracker    *)
(* responds and also across a shutdown; a request is dropped only for a     *)
(* response that came from another address.                                 *)
EveryRequestNotified ==
  \A t \in Token : t <= requests ~> notified[t] # <<>> \/ t \in lost
=============================================================================
