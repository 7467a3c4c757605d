----------------------------- MODULE EventStream -----------------------------
(***************************************************************************)
(* How a change of server state reaches a browser: the EventHub and the    *)
(* SSE handler of apps/server/src/transport.rs, the EventSource wrapper of *)
(* apps/web/src/api.ts and the refresh and merge of App.tsx and store.ts.  *)
(*                                                                         *)
(* One resource stands for all of its kind: a tunnel, a telemetry status,  *)
(* or a task (a transfer or command job).  Its states are numbered in the  *)
(* order in which it went through them; each carries a revision, by which  *)
(* the browser merges.  The two differ for a tunnel: its registry forgets  *)
(* the revision together with the entry.  A registry changes a resource    *)
(* under its lock and emits the snapshot afterwards: states of telemetry   *)
(* and of tasks may be emitted out of order, a tunnel drops those that are *)
(* superseded.  The snapshots of tasks pass through a broadcast channel of *)
(* their registry and a forwarder before the hub.                          *)
(*                                                                         *)
(* One browser tab.  The EventSource of this repository closes on an error *)
(* and is replaced by a new one, without Last-Event-ID; the endpoint also  *)
(* serves clients that resume from the last id they saw (Resumable).       *)
(* Keep-alive comments and the payloads are left out.                      *)
(***************************************************************************)
EXTENDS Integers, Sequences, FiniteSetsExt

CONSTANTS
    LogLimit,     \* entries the log retains (512)
    ByteLimit,    \* bytes the log retains (8 MiB)
    Capacity,     \* capacity of the hub's broadcast channel (256)
    BusCapacity,  \* capacity of a task registry's broadcast channel (128 and 256)
    Kinds,        \* kinds of resource
    Sizes,        \* sizes of a serialized event
    Resumable,    \* whether a client may reconnect with Last-Event-ID
    MaxStates,    \* bound: changes of the resource,
    MaxTaskStates, \* and of a task
    MaxRemovals,  \* bound: removals of its entry
    MaxConnects,  \* bound: connections of the browser
    MaxWire       \* bound: messages in the connection

ASSUME StreamAssumption ==
    /\ LogLimit \in Nat \ {0}
    /\ ByteLimit \in Nat \ {0}
    /\ Capacity \in Nat \ {0}
    /\ BusCapacity \in Nat \ {0}
    /\ Kinds \subseteq {"tunnel", "telemetry", "task"}
    /\ Sizes \subseteq Nat \ {0}
    /\ Resumable \in BOOLEAN
    /\ MaxStates \in Nat
    /\ MaxTaskStates \in Nat
    /\ MaxRemovals \in Nat
    /\ MaxConnects \in Nat \ {0}
    /\ MaxWire \in Nat \ {0}

VARIABLES
    kind,      \* kind of the resource
    revisions, \* the revision of each of its states so far; it starts with 0
    unsent,    \* states whose event is not emitted yet
    bus,       \* states in the registry's broadcast channel
    overrun,   \* the channel has dropped a state that the forwarder did not take
    sent,      \* every envelope published, with the bytes of those up to it: its
               \* place is its sequence
    kept,      \* how many of them EventLog.entries retains
    conn,      \* progress of the SSE handler of the connection
    since,     \* Last-Event-ID of the connection, None if absent
    receiver,  \* next sequence of the broadcast receiver
    pending,   \* envelopes the handler replays first
    last,      \* last sequence the handler delivered
    wire,      \* messages on their way to the browser
    connects,  \* connections made
    lastId,    \* id of the last message the browser received
    view,      \* state the browser shows
    refresh,   \* progress of the browser's latest refresh
    snapshot   \* state that refresh has read

sourceVars == <<kind, revisions, unsent, bus, overrun>>
logVars    == <<sent, kept>>
hubVars    == <<sourceVars, logVars>>
connVars   == <<conn, since, receiver, pending, last>>
clientVars == <<lastId, view, refresh, snapshot>>
streamVars == <<kind, revisions, unsent, bus, overrun, sent, kept, conn, since, receiver, pending, last,
                wire, connects, lastId, view, refresh, snapshot>>

None == -1
States == 0 .. MaxStates
Messages == [resync : BOOLEAN, sequence : States, state : States]

Latest == Len(revisions)
Revision(n) == IF n = 0 THEN 0 ELSE revisions[n]

Sequence == Len(sent)

Envelope(s) == [resync |-> sent[s].resync, sequence |-> s, state |-> sent[s].state]
Resync == [resync |-> TRUE, sequence |-> Sequence, state |-> 0]

StreamInit ==
    /\ kind \in Kinds
    /\ revisions = <<>>
    /\ unsent = {}
    /\ bus = <<>>
    /\ overrun = FALSE
    /\ sent = <<>>
    /\ kept = 0
    /\ conn = "none"
    /\ since = None
    /\ receiver = 1
    /\ pending = <<>>
    /\ last = 0
    /\ wire = <<>>
    /\ connects = 0
    /\ lastId = None
    /\ view = 0
    /\ refresh = "none"
    /\ snapshot = 0

-----------------------------------------------------------------------------
(* The server.                                                             *)

\* A registry changes the resource under its lock.
Change ==
    /\ Latest < MaxStates /\ (kind = "task" => Latest < MaxTaskStates)
    /\ revisions' = Append(revisions, Revision(Latest) + 1)
    /\ unsent' = unsent \cup {Latest + 1}
    /\ UNCHANGED <<kind, bus, overrun, logVars, connVars, wire, connects, clientVars>>

Removals == Cardinality({n \in 1 .. Latest : revisions[n] = 0})

\* The host's deletion removes the stopped tunnel's entry and then fails, so the
\* tunnel stays: it is listed as stopped with revision 0, and no event says so.
Remove ==
    /\ kind = "tunnel"
    /\ Latest < MaxStates /\ Removals < MaxRemovals
    /\ Revision(Latest) # 0 /\ Latest \notin unsent
    /\ revisions' = Append(revisions, 0)
    /\ UNCHANGED <<kind, unsent, bus, overrun, logVars, connVars, wire, connects, clientVars>>

\* emit_pending: a tunnel's snapshot is emitted only while it is the entry's last.
DropSuperseded ==
    /\ kind = "tunnel"
    /\ unsent \ {Latest} # {}
    /\ unsent' = unsent \cap {Latest}
    /\ UNCHANGED <<kind, revisions, bus, overrun, logVars, connVars, wire, connects, clientVars>>

\* Bytes of the first n envelopes of s, and of the last k.
Total(s, n) == IF n = 0 THEN 0 ELSE s[n].total
Bytes(s, k) == Total(s, Len(s)) - Total(s, Len(s) - k)

\* EventHub::publish: the oldest entries leave the log until both limits hold.
Publish(resync, n, size) ==
    /\ sent' = Append(sent, [resync |-> resync, state |-> n, total |-> Total(sent, Sequence) + size])
    /\ kept' = Max({k \in 0 .. kept + 1 : k <= LogLimit /\ Bytes(sent', k) <= ByteLimit})

\* A tunnel or telemetry status is emitted to the hub itself.
EmitStatus(n, size) ==
    /\ kind # "task"
    /\ n \in unsent
    /\ kind = "tunnel" => n = Latest
    /\ unsent' = unsent \ {n}
    /\ Publish(FALSE, n, size)
    /\ UNCHANGED <<kind, revisions, bus, overrun, connVars, wire, connects, clientVars>>

\* A task is emitted to the broadcast channel of its registry, which drops the
\* oldest when it is full.
EmitTask(n) ==
    /\ kind = "task"
    /\ n \in unsent
    /\ unsent' = unsent \ {n}
    /\ IF Len(bus) < BusCapacity
         THEN bus' = Append(bus, n) /\ UNCHANGED overrun
         ELSE bus' = Append(Tail(bus), n) /\ overrun' = TRUE
    /\ UNCHANGED <<kind, revisions, logVars, connVars, wire, connects, clientVars>>

\* The forwarder of api.rs publishes what it receives.
Forward(size) ==
    /\ ~overrun /\ bus # <<>>
    /\ bus' = Tail(bus)
    /\ Publish(FALSE, Head(bus), size)
    /\ UNCHANGED <<kind, revisions, unsent, overrun, connVars, wire, connects, clientVars>>


\* RecvError::Lagged of the forwarder: it publishes a resync in place of what it lost.
ForwarderLags(size) ==
    /\ overrun
    /\ overrun' = FALSE
    /\ Publish(TRUE, 0, size)
    /\ UNCHANGED <<kind, revisions, unsent, bus, connVars, wire, connects, clientVars>>

\* ensureEventSource: the browser of this repository connects without
\* Last-Event-ID and refreshes; a resuming client names the last id it received.
Connect(s) ==
    /\ conn = "none"
    /\ connects < MaxConnects
    /\ s = None \/ (Resumable /\ s = lastId)
    /\ conn' = "connecting"
    /\ connects' = connects + 1
    /\ since' = s
    /\ IF s = None THEN refresh' = "asked" /\ snapshot' = 0
                   ELSE UNCHANGED <<refresh, snapshot>>
    /\ UNCHANGED <<hubVars, receiver, pending, last, wire, lastId, view>>

\* events, first part: the broadcast receiver is subscribed before the log is
\* read.
Subscribe ==
    /\ conn = "connecting"
    /\ conn' = "subscribed"
    /\ receiver' = Sequence + 1
    /\ UNCHANGED <<hubVars, since, pending, last, wire, connects, clientVars>>

\* Faulty initial: one envelope that left the log is overlooked.
RetainedOffByOne(s) == s # None /\ s <= Sequence /\ (kept = 0 \/ s + 2 >= Sequence - kept + 1)

\* EventHub::initial: replay what follows since, if the log still has it.
Retained(s) == s # None /\ s <= Sequence /\ (kept = 0 \/ s + 1 >= Sequence - kept + 1)

Replay(s) ==
    IF Retained(s)
      THEN LET first == Max({s, Sequence - kept}) + 1
           IN  [i \in 1 .. Sequence - first + 1 |-> Envelope(first + i - 1)]
      ELSE <<Resync>>

\* events, second part.
Initial ==
    /\ conn = "subscribed"
    /\ conn' = "open"
    /\ pending' = Replay(since)
    /\ last' = Max({since, 0})
    /\ UNCHANGED <<hubVars, since, receiver, wire, connects, clientVars>>

\* The handler sends m, unless it is an event that was delivered before.
Deliver(m) ==
    IF m.sequence <= last /\ ~m.resync
      THEN UNCHANGED <<last, wire>>
      ELSE last' = m.sequence /\ wire' = Append(wire, m)

\* The stream is polled only when the connection takes more data.
CanSend == conn = "open" /\ Len(wire) < MaxWire

DeliverPending ==
    /\ CanSend
    /\ pending # <<>>
    /\ Deliver(Head(pending))
    /\ pending' = Tail(pending)
    /\ UNCHANGED <<hubVars, conn, since, receiver, connects, clientVars>>

\* The broadcast channel retains the last Capacity envelopes (tokio).
Oldest == Max({1, Sequence - Capacity + 1})

DeliverReceived ==
    /\ CanSend
    /\ pending = <<>>
    /\ receiver \in Oldest .. Sequence
    /\ Deliver(Envelope(receiver))
    /\ receiver' = receiver + 1
    /\ UNCHANGED <<hubVars, conn, since, pending, connects, clientVars>>

\* RecvError::Lagged: the receiver skips to the oldest retained envelope.
ReceiverLags ==
    /\ CanSend
    /\ pending = <<>>
    /\ receiver < Oldest
    /\ receiver' = Oldest
    /\ conn' = "lagged"
    /\ UNCHANGED <<hubVars, since, pending, last, wire, connects, clientVars>>

\* The handler then reads the cursor and asks the client to resync.
DeliverResync ==
    /\ conn = "lagged"
    /\ conn' = "open"
    /\ Deliver(Resync)
    /\ UNCHANGED <<hubVars, since, receiver, pending, connects, clientVars>>

\* The connection breaks, the browser session expires or the tab sleeps:
\* messages in flight are lost.
Disconnect ==
    /\ conn # "none"
    /\ connects < MaxConnects
    /\ conn' = "none"
    /\ wire' = <<>>
    /\ since' = None /\ receiver' = 1 /\ pending' = <<>> /\ last' = 0
    /\ UNCHANGED <<hubVars, connects, clientVars>>

-----------------------------------------------------------------------------
(* The browser.                                                            *)

\* The merge of store.ts: a snapshot with a lower revision than the one shown is
\* discarded.
Merge(n) == view' = IF Revision(n) < Revision(view) THEN view ELSE n

\* Faulty onmessage: a resync is not dispatched.
MessageIgnoresResync ==
    /\ wire # <<>>
    /\ wire' = Tail(wire)
    /\ lastId' = Head(wire).sequence
    /\ IF Head(wire).resync THEN UNCHANGED view ELSE Merge(Head(wire).state)
    /\ UNCHANGED <<hubVars, connVars, connects, refresh, snapshot>>

\* EventSource.onmessage: an event is merged, a resync starts a refresh, which
\* supersedes the one in progress (refreshEpoch).
Message ==
    /\ wire # <<>>
    /\ wire' = Tail(wire)
    /\ lastId' = Head(wire).sequence
    /\ IF Head(wire).resync
         THEN refresh' = "asked" /\ snapshot' = 0 /\ UNCHANGED view
         ELSE Merge(Head(wire).state) /\ UNCHANGED <<refresh, snapshot>>
    /\ UNCHANGED <<hubVars, connVars, connects>>

\* The server answers the list request of the refresh.
ReadSnapshot ==
    /\ refresh = "asked"
    /\ refresh' = "read"
    /\ snapshot' = Latest
    /\ UNCHANGED <<hubVars, connVars, wire, connects, lastId, view>>

\* The answer of the latest refresh arrives.
ApplySnapshot ==
    /\ refresh = "read"
    /\ refresh' = "none"
    /\ Merge(snapshot)
    /\ snapshot' = 0
    /\ UNCHANGED <<hubVars, connVars, wire, connects, lastId>>

-----------------------------------------------------------------------------
EmitSome == DropSuperseded \/ \E n \in unsent : EmitTask(n) \/ \E size \in Sizes : EmitStatus(n, size)
ForwardSome == \E size \in Sizes : Forward(size) \/ ForwarderLags(size)
ConnectSome == \E s \in {None, lastId} : Connect(s)

StreamNext ==
    \/ Change \/ Remove
    \/ EmitSome \/ ForwardSome
    \/ ConnectSome \/ Subscribe \/ Initial
    \/ DeliverPending \/ DeliverReceived \/ ReceiverLags \/ DeliverResync
    \/ Disconnect
    \/ Message \/ ReadSnapshot \/ ApplySnapshot

(* Fairness: emitters, forwarders, the SSE task and the browser keep       *)
(* running, and the browser reconnects (reconnectTimer).  Nothing is       *)
(* assumed of changes, removals and disconnections, except that            *)
(* MaxConnects bounds the latter.                                          *)
Fairness ==
    /\ WF_streamVars(EmitSome) /\ WF_streamVars(ForwardSome)
    /\ WF_streamVars(ConnectSome) /\ WF_streamVars(Subscribe) /\ WF_streamVars(Initial)
    /\ WF_streamVars(DeliverPending) /\ WF_streamVars(DeliverReceived)
    /\ WF_streamVars(ReceiverLags) /\ WF_streamVars(DeliverResync)
    /\ WF_streamVars(Message) /\ WF_streamVars(ReadSnapshot) /\ WF_streamVars(ApplySnapshot)

StreamSpec == StreamInit /\ [][StreamNext]_streamVars /\ Fairness

-----------------------------------------------------------------------------
(* Properties.                                                             *)

\* Every variable keeps its type.
TypeOK ==
    /\ kind \in Kinds
    /\ revisions \in Seq(States) /\ Latest <= MaxStates
    /\ unsent \subseteq 1 .. Latest
    /\ bus \in Seq(1 .. Latest) /\ Len(bus) <= BusCapacity
    /\ overrun \in BOOLEAN
    /\ sent \in Seq([resync : BOOLEAN, state : 0 .. Latest, total : Nat])
    /\ Sequence <= Latest
    /\ kept <= Sequence
    /\ kept \in 0 .. LogLimit
    /\ conn \in {"none", "connecting", "subscribed", "open", "lagged"}
    /\ since \in States \cup {None}
    /\ receiver \in 1 .. MaxStates + 1
    /\ pending \in Seq(Messages)
    /\ last \in States
    /\ wire \in Seq(Messages)
    /\ connects \in 0 .. MaxConnects
    /\ lastId \in States \cup {None}
    /\ view \in 0 .. Latest
    /\ refresh \in {"none", "asked", "read"}
    /\ snapshot \in 0 .. Latest

\* A client never misses or repeats an event without being told: the message
\* after id n is event n + 1 or a resync, across the switch from replay to live
\* events, a lagging receiver and a resumed connection.
NoSilentGap ==
    \A i \in 1 .. Len(wire) :
        ~wire[i].resync =>
            wire[i].sequence = (IF i = 1 THEN lastId ELSE wire[i - 1].sequence) + 1

\* An entry removed after state n makes the later states look no newer than n.
Outranks(n) ==
    /\ \E m \in n + 1 .. Latest : revisions[m] = 0
    /\ Revision(n) >= Revision(Latest)


\* docs/tunnels.md:5 says that every snapshot emitted carries a monotonically
\* increasing revision by which stale state is dropped: the browser would then end up
\* with the latest state emitted, also after a removal.
ShowsLatest == <>[](view = Latest \/ Revision(Latest) = 0)

=============================================================================
