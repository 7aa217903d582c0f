----------------------------- MODULE DhtWorker -----------------------------
(***************************************************************************)
(* The event loop of the DHT: the bootstrap of the routing table, the      *)
(* lookups that are queued until it ends, and the refresh of the table,    *)
(* all driven by responses and timers.                                     *)
(*                                                                         *)
(* The routing table is what RoutingTable promises of it: each contact is  *)
(* good, questionable or (also when bad) not there; to add one may fail or *)
(* cost another its place.  A transaction id says who was asked for what,  *)
(* so a late or repeated response still carries it.  No call here fails:   *)
(* the outgoing messenger lives as long as the handler, and the timer has  *)
(* room.                                                                   *)
(***************************************************************************)
EXTENDS Integers, Sequences, FiniteSets, FiniteSetsExt, SequencesExt

CONSTANTS
  Contact,
  dist,                          \* distance of each contact to the info hash
  Lookup,                        \* calls of search
  StartingNodes, Router,         \* who is asked first
  MAX_BUCKETS,
  MAX_BOOTSTRAP_ATTEMPTS,
  BOOTSTRAP_GOOD_NODE_THRESHOLD,
  INITIAL_PICK_NUM, ITERATIVE_PICK_NUM, ANNOUNCE_PICK_NUM,
  MaxNames                       \* bound: nodes in a response

ASSUME WorkerAssumption ==
  /\ dist \in [Contact -> Nat \ {0}] /\ IsInjective(dist)
  /\ StartingNodes \subseteq Contact /\ Router \cap Contact = {}
  /\ StartingNodes \cup Router # {}
  /\ MAX_BUCKETS \in Nat \ {0, 1}

VARIABLES
  table,       \* status of each contact
  boot,        \* the bootstrap action
  look,        \* the lookup actions
  refresh,     \* whether the refresh action has started
  timers,      \* armed timeouts
  events,      \* DhtEvents that were broadcast
  shutdown     \* "no", "sent" (in the channel), "done", "panicked"

vars == <<table, boot, look, refresh, timers, events, shutdown>>

Running == shutdown \in {"no", "sent"}

-----------------------------------------------------------------------------
(* The routing table.  Each operator is the set of possible outcomes.      *)

Added(t, c, status) ==
  IF t[c] = "good" \/ t[c] = status THEN {t}
  ELSE IF t[c] # "none" THEN {[t EXCEPT ![c] = status]}
  ELSE {t, [t EXCEPT ![c] = status]} \cup
       {[t EXCEPT ![c] = status, ![d] = "none"] :
          d \in {d \in Contact : status = "good" /\ t[d] = "questionable"}}

AddedAll(t, names) ==
  FoldLeft(LAMBDA ts, c : UNION {Added(u, c, "questionable") : u \in ts}, {t}, names)

(* We ask the contacts: one that is questionable may turn bad. *)
Asked(t, cs) ==
  {[c \in Contact |-> IF c \in bad THEN "none" ELSE t[c]] :
     bad \in SUBSET {c \in cs : t[c] = "questionable"}}

Names == UNION {{s \in [1 .. n -> Contact] : IsInjective(s)} : n \in 0 .. MaxNames}

num_good_nodes(t) == Cardinality({c \in Contact : t[c] = "good"})

should_rebootstrap(t) == num_good_nodes(t) <= BOOTSTRAP_GOOD_NODE_THRESHOLD

-----------------------------------------------------------------------------
(* Lookups.                                                                *)

NoLookup == [at |-> "none", sorted |-> [c \in Contact |-> "unknown"],
             requested |-> {}, rest |-> {}, active |-> {}, tokens |-> {}, values |-> FALSE]

(* An active transaction: for which phase it was sent, and what to beat. *)
Request(phase, c, beat) == [phase |-> phase, contact |-> c, beat |-> beat]

Closest(cs, n) ==
  {c \in cs : Cardinality({d \in cs : dist[d] < dist[c]}) < n}

LookupTimer(l, c) == [task |-> "CheckLookupTimeout", of |-> l, contact |-> c]
EndGameTimer(l) == [task |-> "CheckLookupEndGame", of |-> l]

(* TableLookup::new and its first start_request_round: the closest of the   *)
(* good nodes are asked, each with its own distance to beat.  Without any,  *)
(* the lookup is there all the same.                                        *)
StartedLookup(t) ==
  LET good == {c \in Contact : t[c] = "good"}
      picked == Closest(good, INITIAL_PICK_NUM)
  IN  [NoLookup EXCEPT
         !.at = "searching",
         !.sorted = [c \in Contact |-> IF c \in picked THEN "pinged"
                                       ELSE IF c \in good THEN "unpinged"
                                       ELSE "unknown"],
         !.requested = picked,
         !.active = {Request("round", c, dist[c]) : c \in picked}]

(* insert_closest_nodes: the first slot that is unused or holds a contact   *)
(* that is further away.                                                    *)
InsertClosest(slots, c) ==
  LET fits == {i \in 1 .. ITERATIVE_PICK_NUM :
                 i > Len(slots) \/ dist[c] < dist[slots[i]]}
  IN  IF fits = {} THEN slots
      ELSE IF Min(fits) > Len(slots) THEN Append(slots, c)
      ELSE [slots EXCEPT ![Min(fits)] = c]

pick_iterate_nodes(names) == ToSet(FoldLeft(InsertClosest, <<>>, names))

(* Mutant: the endgame has no timer of its own. *)
EndgameTimers0(l) == {}

EndgameTimers(l) == {EndGameTimer(l)}

(* start_endgame_round: without values, everyone who was not pinged is      *)
(* asked.                                                                   *)
InEndgame(lk) ==
  LET rest == IF lk.values THEN {} ELSE {c \in Contact : lk.sorted[c] = "unpinged"}
  IN  [lk EXCEPT
         !.at = "endgame",
         !.sorted = [c \in Contact |-> IF c \in rest THEN "pinged" ELSE @[c]],
         !.rest = rest,
         !.active = @ \cup {Request("endgame", c, dist[c]) : c \in rest}]

(* The lookup l becomes lk, and the endgame follows if nothing is active. *)
ContinueLookup(l, lk, t, cleared, armed) ==
  LET ends == lk.at = "searching" /\ lk.active = {}
      asked == {a.contact : a \in (IF ends THEN InEndgame(lk) ELSE lk).active \ look[l].active}
  IN  /\ look' = [look EXCEPT ![l] = IF ends THEN InEndgame(lk) ELSE lk]
      /\ timers' = (timers \ cleared) \cup armed \cup
                   (IF ends THEN EndgameTimers(l) ELSE {})
      /\ table' \in Asked(t, asked)

(* handle_start_lookup, while the bootstrap runs: the lookup is queued. *)
StartLookup(l) ==
  /\ Running /\ boot.at # "none" /\ look[l].at = "none"
  /\ IF boot.at = "active"
     THEN /\ look' = [look EXCEPT ![l].at = "queued"]
          /\ UNCHANGED <<table, timers>>
     ELSE LET lk == StartedLookup(table) IN
          /\ look' = [look EXCEPT ![l] = lk]
          /\ timers' = timers \cup {LookupTimer(l, c) : c \in lk.requested}
          /\ table' \in Asked(table, lk.requested)
  /\ UNCHANGED <<boot, refresh, events, shutdown>>

(* Mutant: the names of contacts that were asked count as well. *)
NotRequested0(lk, names) == names

NotRequested(lk, names) == SelectSeq(names, LAMBDA c : c \notin lk.requested)

(* handle_incoming of a GetPeers response, TableLookup::recv_response: the  *)
(* sender is a good node.  If the transaction is still active and a closer  *)
(* node is named, the search goes on with the picked ones.                  *)
LookupResponse(l, phase, c, names, token, kind) ==
  LET lk == look[l]
      mine == {a \in lk.active : a.contact = c /\ a.phase = phase}
  IN
  /\ Running
  /\ lk.at \in {"searching", "endgame"}
  /\ c \in IF phase = "round" THEN lk.requested ELSE lk.rest
  /\ \E t \in Added(table, c, "good") :
     IF mine = {}
     THEN table' = t /\ UNCHANGED <<look, timers>>
     ELSE LET beat == Max({a.beat : a \in mine})
              nodes == IF kind = "values" THEN <<>> ELSE names
              fresh == NotRequested(lk, nodes)
              next == Min({beat} \cup {dist[d] : d \in ToSet(fresh)})
              picked == IF next < beat THEN pick_iterate_nodes(fresh) ELSE {}
              iterate == IF lk.at = "searching" THEN picked ELSE {}
              heard == [lk EXCEPT
                !.tokens = IF token THEN @ \cup {c} ELSE @,
                !.values = @ \/ kind = "values",
                !.sorted = [d \in Contact |->
                              IF @[d] # "unknown" \/ d \notin ToSet(nodes) THEN @[d]
                              ELSE IF d \in picked THEN "pinged" ELSE "unpinged"],
                !.requested = @ \cup iterate,
                !.active = (@ \ mine) \cup
                           {Request("round", d, next) : d \in iterate}]
          IN  ContinueLookup(l, heard, t,
                             IF lk.at = "endgame" THEN {} ELSE {LookupTimer(l, c)},
                             {LookupTimer(l, d) : d \in iterate})
  /\ UNCHANGED <<boot, refresh, events, shutdown>>

(* handle_check_lookup_timeout, TableLookup::recv_timeout *)
LookupTimeout(l, c) ==
  /\ Running /\ LookupTimer(l, c) \in timers
  /\ LET mine == {a \in look[l].active : a.contact = c /\ a.phase = "round"} IN
     IF mine = {}
     THEN timers' = timers \ {LookupTimer(l, c)} /\ UNCHANGED <<look, table>>
     ELSE ContinueLookup(l, [look[l] EXCEPT !.active = @ \ mine], table,
                         {LookupTimer(l, c)}, {})
  /\ UNCHANGED <<boot, refresh, events, shutdown>>

Announced(lk) ==
  Closest({c \in lk.tokens : lk.sorted[c] # "unknown"}, ANNOUNCE_PICK_NUM)

(* handle_check_lookup_endgame, TableLookup::recv_finished *)
LookupEndGame(l, announce) ==
  /\ Running /\ EndGameTimer(l) \in timers
  /\ timers' = timers \ {EndGameTimer(l)}
  /\ look' = [look EXCEPT ![l] = [NoLookup EXCEPT !.at = "finished"]]
  /\ events' = Append(events, [event |-> "LookupCompleted", of |-> l])
  /\ IF announce THEN table' \in Asked(table, Announced(look[l])) ELSE UNCHANGED table
  /\ UNCHANGED <<boot, refresh, shutdown>>
-----------------------------------------------------------------------------
(* The bootstrap.                                                          *)

Transaction(attempt, round, c) == [attempt |-> attempt, round |-> round, contact |-> c]

InitialTransaction(attempt) == Transaction(attempt, 0, "any")

BootTimer(id) == [task |-> "CheckBootstrapTimeout", of |-> id]

RefreshTimer == [task |-> "CheckTableRefresh"]

(* Mutant: the attempts are counted anew. *)
StartedBootstrap0(attempts) ==
  [at |-> "active", bucket |-> 0, attempts |-> 0,
   active |-> {InitialTransaction(attempts)}]

(* start_bootstrap: everyone to start with is asked under one transaction.  *)
StartedBootstrap(attempts) ==
  [at |-> "active", bucket |-> 0, attempts |-> attempts,
   active |-> {InitialTransaction(attempts)}]

Init ==
  /\ table = [c \in Contact |-> "none"]
  /\ boot = [at |-> "none", bucket |-> 0, attempts |-> 0, active |-> {}]
  /\ look = [l \in Lookup |-> NoLookup]
  /\ refresh = FALSE
  /\ timers = {}
  /\ events = <<>>
  /\ shutdown = "no"

(* handle_start_bootstrap: the first task that the handler is sent. *)
StartBootstrap ==
  /\ Running /\ boot.at = "none"
  /\ boot' = StartedBootstrap(0)
  /\ timers' = {BootTimer(InitialTransaction(0))}
  /\ UNCHANGED <<table, look, refresh, events, shutdown>>

(* Whom a bucket has questionable nodes to ask: any for the first two, the  *)
(* ones of three buckets for the others.                                    *)
Picks(bucket, t) ==
  LET questionable == {c \in Contact : t[c] = "questionable"}
  IN  IF bucket <= 1 THEN {questionable} ELSE SUBSET questionable

(* bootstrap_next_bucket: the next bucket that has someone to ask, or the   *)
(* last one.                                                                *)
NextRounds(bucket, t) ==
  {r \in [bucket : bucket .. MAX_BUCKETS - 1, asked : SUBSET Contact] :
     /\ r.asked \in Picks(r.bucket, t)
     /\ \A k \in bucket .. r.bucket - 1 : {} \in Picks(k, t)
     /\ r.asked # {} \/ r.bucket = MAX_BUCKETS - 1}

(* The closest questionable node is asked, if there is one. *)
RefreshPicks(t) ==
  LET questionable == {c \in Contact : t[c] = "questionable"}
  IN  IF questionable = {} THEN {{}} ELSE {{c} : c \in questionable}

(* Mutant: the bootstrap stays among the actions. *)
BootstrapRemoved0 == boot

BootstrapRemoved == [boot EXCEPT !.at = "done", !.active = {}]

(* Mutant: the lookups that waited are dropped. *)
FutureLookups0 == {}

FutureLookups == {l \in Lookup : look[l].at = "queued"}

(* broadcast_bootstrap_completed: the refresh and the lookups that waited   *)
(* start.                                                                   *)
CompleteBootstrap(t, remaining) ==
  \E picked \in RefreshPicks(t) : \E u \in Asked(t, picked) :
    LET queued == FutureLookups
        lk == StartedLookup(u)
    IN  /\ table' = u
        /\ events' = Append(events, [event |-> "BootstrapCompleted"])
        /\ boot' = BootstrapRemoved
        /\ refresh' = TRUE
        /\ look' = [l \in Lookup |-> IF l \in queued THEN lk ELSE look[l]]
        /\ timers' = remaining \cup {RefreshTimer} \cup
                     {LookupTimer(l, c) : l \in queued, c \in lk.requested}
        /\ UNCHANGED shutdown

AttemptsLeft(b) == b.attempts + 1 < MAX_BOOTSTRAP_ATTEMPTS

(* Mutant: the last attempt always counts. *)
GivesUp0(t) == FALSE

GivesUp(t) == num_good_nodes(t) = 0

(* attempt_rebootstrap, in the state b of the bootstrap. *)
attempt_rebootstrap(b, t, remaining) ==
  \/ /\ AttemptsLeft(b)
     /\ boot' = StartedBootstrap(b.attempts + 1)
     /\ timers' = remaining \cup {BootTimer(InitialTransaction(b.attempts + 1))}
     /\ table' = t
     /\ UNCHANGED <<look, refresh, events, shutdown>>
  \/ /\ ~ AttemptsLeft(b) /\ GivesUp(t)
     /\ boot' = [b EXCEPT !.attempts = @ + 1]
     /\ timers' = remaining
     /\ table' = t
     /\ shutdown' = "sent"
     /\ UNCHANGED <<look, refresh, events>>
  \/ /\ ~ AttemptsLeft(b) /\ ~ GivesUp(t)
     /\ CompleteBootstrap(t, remaining)

(* No transaction is left: ask for the next bucket.  When that was the last *)
(* one the bootstrap has completed, or is tried again.  Beyond the last     *)
(* bucket, flip_id_bit_at_index panics.                                     *)
NextBucket(t, remaining) ==
  \/ /\ boot.bucket = MAX_BUCKETS
     /\ shutdown' = "panicked"
     /\ boot' = [boot EXCEPT !.active = {}]
     /\ timers' = remaining
     /\ table' = t
     /\ UNCHANGED <<look, refresh, events>>
  \/ \E r \in NextRounds(boot.bucket, t) : \E u \in Asked(t, r.asked) :
       LET sent == {Transaction(boot.attempts, r.bucket + 1, c) : c \in r.asked}
           b == [boot EXCEPT !.bucket = r.bucket + 1, !.active = sent]
           armed == remaining \cup {BootTimer(id) : id \in sent}
       IN  IF b.bucket < MAX_BUCKETS
           THEN /\ boot' = b
                /\ timers' = armed
                /\ table' = u
                /\ UNCHANGED <<look, refresh, events, shutdown>>
           ELSE IF should_rebootstrap(u)
           THEN attempt_rebootstrap(b, u, armed)
           ELSE CompleteBootstrap(u, armed)

(* A response or a timeout changes nothing more: the bootstrap goes on, or  *)
(* (current_bootstrap_status is Idle) it is complete.                       *)
CurrentStatus(b, t, remaining) ==
  IF b.bucket = MAX_BUCKETS \/ b.active = {}
  THEN CompleteBootstrap(t, remaining)
  ELSE /\ boot' = b
       /\ timers' = remaining
       /\ table' = t
       /\ UNCHANGED <<look, refresh, events, shutdown>>

(* An answer that comes when its transaction is no longer active. *)
Expired == [round |-> MAX_BUCKETS + 1]

(* Who can answer a transaction: its contact; for the initial one all that  *)
(* were asked; for one that expired anyone, as only the action that the     *)
(* transaction belongs to is looked at.                                     *)
Answers(id) ==
  IF id = Expired THEN Contact \cup Router
  ELSE IF id.round = 0 THEN StartingNodes \cup Router
  ELSE {id.contact}

(* Transactions of this attempt or an earlier one. *)
Transactions ==
  {Transaction(a, r, c) : a \in 0 .. boot.attempts, r \in 1 .. MAX_BUCKETS, c \in Contact}
    \cup {InitialTransaction(a) : a \in 0 .. boot.attempts}

(* handle_incoming of a FindNode response, TableBootstrap::recv_response:   *)
(* the names become questionable, the sender good unless it is a router.    *)
(* The initial transaction stays active until its timer fires.              *)
BootstrapResponse(id, sender, names) ==
  /\ Running /\ boot.at = "active"
  /\ sender \in Answers(id)
  /\ \E named \in AddedAll(table, names) :
     \E t \in IF sender \in Router THEN {named} ELSE Added(named, sender, "good") :
       IF id \in boot.active /\ boot.bucket # 0
       THEN LET left == boot.active \ {id}
                remaining == timers \ {BootTimer(id)}
            IN  IF left = {}
                THEN NextBucket(t, remaining)
                ELSE CurrentStatus([boot EXCEPT !.active = left], t, remaining)
       ELSE CurrentStatus(boot, t, timers)

(* handle_check_bootstrap_timeout, TableBootstrap::recv_timeout; without    *)
(* the action nothing happens.                                              *)
BootstrapTimeout(id) ==
  /\ Running /\ BootTimer(id) \in timers
  /\ LET left == boot.active \ {id}
         remaining == timers \ {BootTimer(id)}
     IN  \/ /\ boot.at = "done"
            /\ timers' = remaining
            /\ UNCHANGED <<table, boot, look, refresh, events, shutdown>>
         \/ /\ boot.at = "active" /\ id \in boot.active /\ left = {}
            /\ NextBucket(table, remaining)
         \/ /\ boot.at = "active" /\ ~ (id \in boot.active /\ left = {})
            /\ CurrentStatus([boot EXCEPT !.active = left], table, remaining)

-----------------------------------------------------------------------------
(* The refresh, the table's own life, and the end.                         *)

(* handle_check_table_refresh, continue_refresh: the timer is armed again. *)
CheckTableRefresh ==
  /\ Running /\ RefreshTimer \in timers
  /\ \E picked \in RefreshPicks(table) : table' \in Asked(table, picked)
  /\ UNCHANGED <<boot, look, refresh, timers, events, shutdown>>

(* A FindNode response to the refresh; its transaction is not looked at. *)
RefreshResponse(c, names) ==
  /\ Running /\ refresh
  /\ \E named \in AddedAll(table, names) : table' \in Added(named, c, "good")
  /\ UNCHANGED <<boot, look, refresh, timers, events, shutdown>>

(* A node that was not heard of for a while is questionable; one that asks  *)
(* us something may be good again.                                          *)
Ages(c) ==
  /\ Running /\ table[c] = "good"
  /\ table' = [table EXCEPT ![c] = "questionable"]
  /\ UNCHANGED <<boot, look, refresh, timers, events, shutdown>>

RemoteRequest(c) ==
  /\ Running /\ table[c] = "questionable"
  /\ table' = [table EXCEPT ![c] = "good"]
  /\ UNCHANGED <<boot, look, refresh, timers, events, shutdown>>

(* Drop of MainlineDht. *)
ClientShutdown ==
  /\ shutdown = "no"
  /\ shutdown' = "sent"
  /\ UNCHANGED <<table, boot, look, refresh, timers, events>>

(* handle_shutdown: the event loop ends. *)
Shutdown ==
  /\ shutdown = "sent"
  /\ shutdown' = "done"
  /\ events' = Append(events, [event |-> "ShuttingDown"])
  /\ UNCHANGED <<table, boot, look, refresh, timers>>

Timeouts ==
  \/ \E id \in Transactions : BootstrapTimeout(id)
  \/ \E l \in Lookup, c \in Contact : LookupTimeout(l, c)
  \/ \E l \in Lookup, announce \in BOOLEAN : LookupEndGame(l, announce)

Responses ==
  \/ \E id \in boot.active \cup {Expired} : \E sender \in Answers(id), names \in Names :
       BootstrapResponse(id, sender, names)
  \/ \E l \in Lookup, phase \in {"round", "endgame"}, c \in Contact, names \in Names,
        token \in BOOLEAN, kind \in {"nodes", "values", "both"} :
       LookupResponse(l, phase, c, names, token, kind)
  \/ \E c \in Contact, names \in Names : RefreshResponse(c, names)

Next ==
  \/ StartBootstrap
  \/ \E l \in Lookup : StartLookup(l)
  \/ Timeouts
  \/ Responses
  \/ CheckTableRefresh
  \/ \E c \in Contact : Ages(c) \/ RemoteRequest(c)
  \/ ClientShutdown
  \/ Shutdown

Spec == Init /\ [][Next]_vars

(* The handler's first task is there from the start, and every timer fires; *)
(* nobody has to answer.                                                    *)
FairSpec ==
  /\ Spec
  /\ WF_vars(StartBootstrap)
  /\ \A a \in 0 .. MAX_BOOTSTRAP_ATTEMPTS : \A c \in Contact \cup {"any"} :
     \A r \in 0 .. MAX_BUCKETS : WF_vars(BootstrapTimeout(Transaction(a, r, c)))
  /\ \A l \in Lookup, c \in Contact : WF_vars(LookupTimeout(l, c))
  /\ \A l \in Lookup : WF_vars(\E announce \in BOOLEAN : LookupEndGame(l, announce))

-----------------------------------------------------------------------------
(* Properties.                                                             *)

(* Whatever is waited for has its timer: every active transaction of the    *)
(* bootstrap and of a search, and every endgame.  A transaction without one *)
(* would block its action for good if the contact does not answer.          *)
TimerForEach ==
  /\ \A id \in boot.active : BootTimer(id) \in timers
  /\ \A l \in Lookup :
       /\ look[l].at = "searching" =>
            \A a \in look[l].active : LookupTimer(l, a.contact) \in timers
       /\ look[l].at = "endgame" => EndGameTimer(l) \in timers

(* A search asks nobody twice before its endgame, and among those that it   *)
(* asks next is the one whose distance all of them have to beat: every      *)
(* round gets nearer to the info hash.                                      *)
SearchApproaches ==
  [][\A l \in Lookup :
       LET new == {a \in look'[l].active \ look[l].active : a.phase = "round"}
       IN  look[l].at = "searching" =>
             \A a \in new : /\ a.contact \notin look[l].requested
                            /\ \E b \in new : dist[b.contact] = a.beat
                            /\ a.beat <= dist[a.contact]]_vars

(* Clients hear at most once that the bootstrap completed and that a lookup *)
(* did; the lookup only afterwards; and of the shutdown last of all.        *)
EventsInOrder ==
  /\ IsInjective(events)
  /\ \A i \in 1 .. Len(events) :
       /\ events[i].event = "LookupCompleted" =>
            \E j \in 1 .. i - 1 : events[j].event = "BootstrapCompleted"
       /\ events[i].event = "ShuttingDown" => i = Len(events)

(* The bootstrap is not complete without a good node, unless the handler    *)
(* has already sent itself the shutdown.                                    *)
CompletesWithNodes ==
  [][boot.at = "active" /\ boot'.at = "done" =>
       num_good_nodes(table') > 0 \/ shutdown = "sent"]_vars

(* The bootstrap ends: complete, or with the end of the event loop, even if *)
(* nobody answers.                                                          *)
BootstrapEnds == <>(boot.at = "done" \/ shutdown # "no")

(* A lookup that is queued is started once the bootstrap is over, and one   *)
(* that found somebody to ask finishes.                                     *)
LookupEnds ==
  \A l \in Lookup :
    look[l].at # "none" ~> \/ look[l].at = "finished"
                          \/ (look[l].at = "searching" /\ look[l].requested = {})
                          \/ shutdown # "no"
=============================================================================
