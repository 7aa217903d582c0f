---------------------------- MODULE DiskManager ----------------------------
(***************************************************************************)
(* The disk manager: clones of a sink submit operations, a pool runs each  *)
(* of them as a task against the shared map of torrents, and a stream      *)
(* receives the messages of the tasks over one channel.  The sink limits   *)
(* the operations in progress with an atomic counter that the stream       *)
(* decrements.                                                             *)
(*                                                                         *)
(* Contents of files and pieces are abstracted to the outcomes of the file *)
(* system calls and of the piece checks.  A torrent in the map is the      *)
(* number of its insertion; 0 means that it is not there.  A closure run   *)
(* by update_torrent holds the read lock of the map and the lock of the    *)
(* torrent throughout, so it is one step.                                  *)
(***************************************************************************)
EXTENDS Integers, Sequences, FiniteSets, SequencesExt

CONSTANTS
  Sink,          \* clones of the sink
  Hash,          \* torrents
  Ops,           \* kinds of operation that the clients submit
  max_capacity,
  MaxOps         \* bound: operations submitted in all

AllOps == {"AddTorrent", "RemoveTorrent", "SyncTorrent", "LoadBlock",
           "ProcessBlock"}

ASSUME DiskAssumption ==
  /\ IsFiniteSet(Sink)
  /\ Ops \subseteq AllOps
  /\ max_capacity \in Nat
  /\ MaxOps \in Nat

VARIABLES
  cur_capacity,  \* the atomic counter shared by the sinks and the stream
  sinks,         \* where each sink is in start_send
  tasks,         \* tasks of the pool
  torrents,      \* the map of torrents
  inserted,      \* insertions so far
  out,           \* the channel from the tasks to the stream
  submitted,     \* operations submitted so far
  leaked         \* error results that the stream has taken

vars == <<cur_capacity, sinks, tasks, torrents, inserted, out, submitted,
          leaked>>

-----------------------------------------------------------------------------
Idle == [pc |-> "idle", seen |-> 0, op |-> "none", hash |-> "none"]

Report(t, good, gen) ==
  [type |-> IF good THEN "FoundGoodPiece" ELSE "FoundBadPiece",
   id |-> t.id, op |-> t.op, hash |-> t.hash, gen |-> gen]

(* TorrentAdded, ..., BlockProcessed, or the error of the operation. *)
Result(t) ==
  [type |-> IF t.ok THEN "Completed" ELSE "Error",
   id |-> t.id, op |-> t.op, hash |-> t.hash, gen |-> t.gen]

IsResult(m) == m.type \in {"Completed", "Error"}

Init ==
  /\ cur_capacity = 0
  /\ sinks = [s \in Sink |-> Idle]
  /\ tasks = {}
  /\ torrents = [h \in Hash |-> 0]
  /\ inserted = 0
  /\ out = <<>>
  /\ submitted = 0
  /\ leaked = 0

-----------------------------------------------------------------------------
(* The sink: try_submit_work and start_send.                               *)

Admitted == {s \in Sink : sinks[s].pc = "added" /\ sinks[s].seen < max_capacity}

Refused == {s \in Sink : sinks[s].pc = "added" /\ sinks[s].seen >= max_capacity}

(* fetch_add of try_submit_work. *)
AddCapacity(s, op, h) ==
  /\ sinks[s].pc = "idle"
  /\ submitted + Cardinality(Admitted) < MaxOps
  /\ sinks' = [sinks EXCEPT ![s] = [pc |-> "added", seen |-> cur_capacity,
                                    op |-> op, hash |-> h]]
  /\ cur_capacity' = cur_capacity + 1
  /\ UNCHANGED <<tasks, torrents, inserted, out, submitted, leaked>>

(* There was room: execute_on_pool spawns the task. *)
Submit(s) ==
  /\ s \in Admitted
  /\ tasks' = tasks \cup {[id |-> submitted + 1, op |-> sinks[s].op,
                           hash |-> sinks[s].hash, pc |-> "start", ok |-> FALSE,
                           gen |-> 0]}
  /\ submitted' = submitted + 1
  /\ sinks' = [sinks EXCEPT ![s] = Idle]
  /\ UNCHANGED <<cur_capacity, torrents, inserted, out, leaked>>

(* There was none: fetch_sub, and start_send returns an error. *)
Refuse(s) ==
  /\ s \in Refused
  /\ cur_capacity' = cur_capacity - 1
  /\ sinks' = [sinks EXCEPT ![s] = Idle]
  /\ UNCHANGED <<tasks, torrents, inserted, out, submitted, leaked>>

-----------------------------------------------------------------------------
(* The tasks of execute_on_pool.                                           *)

Become(t, new) == tasks' = (tasks \ {t}) \cup {new}

Finished(t, ok) == [t EXCEPT !.pc = "done", !.ok = ok]

(* AddTorrent, before the map: init_state checks the files and the pieces,  *)
(* then the good pieces are reported; bad ones are ignored.                 *)
CheckNewTorrent(t) ==
  /\ t.op = "AddTorrent" /\ t.pc = "start"
  /\ \/ /\ Become(t, Finished(t, FALSE))
        /\ UNCHANGED out
     \/ /\ Become(t, [t EXCEPT !.pc = "checked"])
        /\ \E n \in 0 .. 1 :
             out' = out \o [i \in 1 .. n |-> Report(t, TRUE, 0)]
  /\ UNCHANGED <<cur_capacity, sinks, torrents, inserted, submitted, leaked>>

(* Mutant: a torrent that is already there is waited for. *)
InsertTorrentWaits(t) ==
  /\ t.op = "AddTorrent" /\ t.pc = "checked"
  /\ torrents[t.hash] = 0
  /\ torrents' = [torrents EXCEPT ![t.hash] = inserted + 1]
  /\ inserted' = inserted + 1
  /\ Become(t, Finished(t, TRUE))
  /\ UNCHANGED <<cur_capacity, sinks, out, submitted, leaked>>

(* AddTorrent, insert_torrent: an info hash that is already there is an error. *)
InsertTorrent(t) ==
  /\ t.op = "AddTorrent" /\ t.pc = "checked"
  /\ \/ /\ torrents[t.hash] = 0
        /\ torrents' = [torrents EXCEPT ![t.hash] = inserted + 1]
        /\ inserted' = inserted + 1
        /\ Become(t, Finished(t, TRUE))
     \/ /\ torrents[t.hash] # 0
        /\ UNCHANGED <<torrents, inserted>>
        /\ Become(t, Finished(t, FALSE))
  /\ UNCHANGED <<cur_capacity, sinks, out, submitted, leaked>>

RemoveTorrent(t) ==
  /\ t.op = "RemoveTorrent" /\ t.pc = "start"
  /\ torrents' = [torrents EXCEPT ![t.hash] = 0]
  /\ Become(t, [Finished(t, torrents[t.hash] # 0)
                  EXCEPT !.gen = torrents[t.hash]])
  /\ UNCHANGED <<cur_capacity, sinks, inserted, out, submitted, leaked>>

(* Every file is synced; the result is that of the last one, an error of    *)
(* another file is overwritten.                                             *)
SyncTorrent(t) ==
  /\ t.op = "SyncTorrent" /\ t.pc = "start"
  /\ \/ /\ torrents[t.hash] = 0
        /\ Become(t, Finished(t, FALSE))
     \/ /\ torrents[t.hash] # 0
        /\ \E last \in BOOLEAN : Become(t, Finished(t, last))
  /\ UNCHANGED <<cur_capacity, sinks, torrents, inserted, out, submitted, leaked>>

LoadBlock(t) ==
  /\ t.op = "LoadBlock" /\ t.pc = "start"
  /\ \E read \in BOOLEAN :
       Become(t, Finished(t, torrents[t.hash] # 0 /\ read))
  /\ UNCHANGED <<cur_capacity, sinks, torrents, inserted, out, submitted, leaked>>

(* Mutant: the pieces are reported after the locks were released. *)
ProcessBlockReportsLate(t) ==
  /\ t.op = "ProcessBlock"
  /\ \/ /\ t.pc = "start" /\ torrents[t.hash] # 0
        /\ Become(t, [t EXCEPT !.pc = "unlocked", !.gen = torrents[t.hash]])
        /\ UNCHANGED out
     \/ /\ t.pc = "unlocked"
        /\ Become(t, Finished(t, TRUE))
        /\ out' = Append(out, Report(t, TRUE, t.gen))
  /\ UNCHANGED <<cur_capacity, sinks, torrents, inserted, submitted, leaked>>

(* The closure writes the block, checks the pieces that it completes, and   *)
(* reports them, also when the write or the check failed.                   *)
ProcessBlock(t) ==
  /\ t.op = "ProcessBlock" /\ t.pc = "start"
  /\ \/ /\ torrents[t.hash] = 0
        /\ Become(t, Finished(t, FALSE))
        /\ UNCHANGED out
     \/ /\ torrents[t.hash] # 0
        /\ \E ok \in BOOLEAN : Become(t, Finished(t, ok))
        /\ \/ UNCHANGED out
           \/ \E good \in BOOLEAN :
                out' = Append(out, Report(t, good, torrents[t.hash]))
  /\ UNCHANGED <<cur_capacity, sinks, torrents, inserted, submitted, leaked>>

(* The result of the operation is sent last, and the task ends. *)
SendResult(t) ==
  /\ t.pc = "done"
  /\ tasks' = tasks \ {t}
  /\ out' = Append(out, Result(t))
  /\ UNCHANGED <<cur_capacity, sinks, torrents, inserted, submitted, leaked>>

TaskStep(t) ==
  \/ CheckNewTorrent(t) \/ InsertTorrent(t) \/ RemoveTorrent(t)
  \/ SyncTorrent(t) \/ LoadBlock(t) \/ ProcessBlock(t) \/ SendResult(t)

-----------------------------------------------------------------------------
(* Mutant: a piece report completes work as well. *)
CompletesWorkOnReport(m) == m.type # "Error"

(* The messages for which poll_next calls complete_work. *)
CompletesWork(m) == m.type = "Completed"

(* The stream takes a message; only a completed operation gives back its    *)
(* capacity, an error does not.                                             *)
PollNext ==
  /\ out # <<>>
  /\ out' = Tail(out)
  /\ cur_capacity' = IF CompletesWork(Head(out)) THEN cur_capacity - 1
                     ELSE cur_capacity
  /\ leaked' = IF Head(out).type = "Error" THEN leaked + 1 ELSE leaked
  /\ UNCHANGED <<sinks, tasks, torrents, inserted, submitted>>

Next ==
  \/ \E s \in Sink :
       \/ \E op \in Ops, h \in Hash : AddCapacity(s, op, h)
       \/ Submit(s)
       \/ Refuse(s)
  \/ \E t \in tasks : TaskStep(t)
  \/ PollNext

Spec == Init /\ [][Next]_vars

(* The pool runs every task, and the client of the stream keeps polling. *)
FairSpec ==
  /\ Spec
  /\ \A id \in 1 .. MaxOps : WF_vars(\E t \in tasks : t.id = id /\ TaskStep(t))
  /\ WF_vars(PollNext)

-----------------------------------------------------------------------------
InFlight ==
  {t.id : t \in tasks} \cup {m.id : m \in {x \in ToSet(out) : IsResult(x)}}

L == INSTANCE Limiter WITH
       Caller <- Sink, Capacity <- max_capacity, count <- cur_capacity,
       admitted <- Admitted, refused <- Refused,
       held <- Cardinality(InFlight), lost <- leaked

(* The sink, the tasks and the stream together implement the limiter, for   *)
(* which WithinCapacity and CounterExact are proved: whatever the tasks do, *)
(* the operations in progress keep to max_capacity.                         *)
ImplementsLimiter == L!Spec

(* Once the removal of a torrent is announced, no piece of that insertion   *)
(* is reported any more: the closure of ProcessBlock sends its reports      *)
(* before it lets the removal have the map.                                 *)
NoReportAfterRemoval ==
  \A i, j \in 1 .. Len(out) :
    i < j /\ out[i].type = "Completed" /\ out[i].op = "RemoveTorrent" =>
      ~(/\ ~IsResult(out[j]) /\ out[j].op = "ProcessBlock"
        /\ out[j].hash = out[i].hash /\ out[j].gen = out[i].gen)

(* Every operation that was submitted is answered, once its task runs and   *)
(* the stream is polled.                                                    *)
EveryOperationAnswered ==
  \A id \in 1 .. MaxOps : id \in InFlight ~> id \notin InFlight
=============================================================================
