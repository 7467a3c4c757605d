----------------------------- MODULE TerminalStream -----------------------------
(***************************************************************************)
(* One terminal session and the browser tabs attached to it.               *)
(*                                                                         *)
(* Server: TerminalInputState and TerminalEventStream of                   *)
(* crates/remotedeck-core/src/session.rs, the attach, write and release    *)
(* calls of the registry, and the WebSocket of apps/server/src/            *)
(* transport.rs (ticket, upgrade, terminal_socket).  Client: the           *)
(* attachment effect of apps/web/src/panels/TerminalPanel.tsx.             *)
(*                                                                         *)
(* A session has generations: a reconnect replaces the PTY, its event      *)
(* stream and its input state.  Events are their sequence numbers; a       *)
(* stream keeps the sizes of the events it retains for replay.  A socket   *)
(* outlives the tab that opened it until its server task has released its  *)
(* lease, so old and new sockets of one tab overlap.                       *)
(***************************************************************************)
EXTENDS Naturals, Sequences, FiniteSets, SequencesExt

CONSTANTS
    Tabs,          \* browser tabs that show the session
    Sockets,       \* numbers, the sockets that may exist at a time
    ReplayLimit,   \* MAX_TERMINAL_REPLAY_BYTES
    Buffer,        \* TERMINAL_BROADCAST_BUFFER
    Sizes,         \* sizes of an event's data
    MaxSequence,   \* bound on the events before the last exit
    MaxAttempts,   \* bound on the attachments the tabs attempt
    MaxFaults,     \* bound on the tabs left and the connections that break
    MaxGeneration, \* bound on the reconnects
    MaxWire        \* bound on the messages under way to a tab

ASSUME StreamAssumption ==
    /\ Sockets \subseteq Nat
    /\ {ReplayLimit, Buffer, MaxWire, MaxGeneration} \subseteq Nat \ {0}
    /\ Sizes \subseteq Nat

VARIABLES
    generation,    \* generation of the last PTY
    running,       \* it is in the registry's active map
    stream,        \* [generation -> [next, log, closed]]
    input,         \* TerminalInputState of the running PTY
    owner,         \* history: the tab whose attachment was activated last
    sock,          \* [Sockets -> server side of a socket]
    wire,          \* [Sockets -> messages under way to the tab]
    tab,           \* [Tabs -> client side]
    attempts,      \* attachments attempted so far
    faults         \* tabs left and connections broken so far

ptyVars    == <<generation, running, stream>>
inputVars  == <<input, owner>>
bounds     == <<attempts, faults>>
vars       == <<ptyVars, inputVars, sock, wire, tab, bounds>>

NoTab == "none"
Generations == 1..MaxGeneration

NewStream == [next |-> 0, log |-> <<>>, closed |-> FALSE]
NewInput  == [active |-> 0, issued |-> {}, last |-> 0]
\* granted, history: the generation that granted the lease of a tab, or the one
\* that a socket is to resume.
NoSock    == [phase |-> "none", of |-> NoTab, ticket |-> 0, gen |-> 0,
              lease |-> 0, since |-> 0, resume |-> 0, granted |-> 0, marker |-> FALSE,
              sent |-> 0, upto |-> 0, position |-> 0, link |-> "up"]
NewTab    == [phase |-> "idle", sock |-> 0, gen |-> 0, seq |-> 0, lease |-> 0, granted |-> 0,
              resume |-> 0, retry |-> FALSE, control |-> FALSE]

Init ==
    /\ generation = 1
    /\ running = TRUE
    /\ stream = [g \in Generations |-> NewStream]
    /\ input = NewInput
    /\ owner = NoTab
    /\ sock = [s \in Sockets |-> NoSock]
    /\ wire = [s \in Sockets |-> <<>>]
    /\ tab = [t \in Tabs |-> NewTab]
    /\ attempts = 0
    /\ faults = 0

-----------------------------------------------------------------------------
(* The event stream of a generation.                                       *)

Bytes(log) == FoldSeq(+, 0, log)

\* dropped_through, 0 for None: the retained events are the last ones.
Dropped(g) == stream[g].next - Len(stream[g].log)

\* publish: the oldest events go until the rest fits, or nothing is left.
Retained(log) ==
    LET fits == {n \in 0..Len(log) :
                    n = Len(log) \/ Bytes(SubSeq(log, n + 1, Len(log))) <= ReplayLimit}
        n == CHOOSE n \in fits : \A k \in fits : n <= k
    IN  SubSeq(log, n + 1, Len(log))

Published(s, size) ==
    [s EXCEPT !.next = @ + 1, !.log = Retained(Append(@, size))]

\* Events published by all generations.
Produced == FoldFunction(+, 0, [g \in Generations |-> stream[g].next])

\* The PTY reader publishes output, or a waiter an error.
Output(size) ==
    /\ running
    /\ Produced < MaxSequence
    /\ stream' = [stream EXCEPT ![generation] = Published(@, size)]
    /\ UNCHANGED <<generation, running, inputVars, sock, wire, tab, bounds>>

\* The child exited, or the session was closed: it leaves the active map, its
\* last event is published, and the sender is dropped.
Exit ==
    /\ running
    /\ running' = FALSE
    /\ stream' = [stream EXCEPT ![generation] = [Published(@, 0) EXCEPT !.closed = TRUE]]
    /\ UNCHANGED <<generation, inputVars, sock, wire, tab, bounds>>

\* reconnect: a new PTY with a stream and an input state of its own.
Reconnect ==
    /\ ~running
    /\ generation < MaxGeneration
    /\ generation' = generation + 1
    /\ running' = TRUE
    /\ input' = NewInput
    /\ owner' = NoTab
    /\ UNCHANGED <<stream, sock, wire, tab, bounds>>

-----------------------------------------------------------------------------
(* Input leases.                                                           *)

\* issue_lease and activate under one lock.  activate forgets every older
\* lease, so the limit on issued leases is never met.
Activated(i) ==
    [active |-> i.last + 1, issued |-> {i.last + 1}, last |-> i.last + 1]

\* Faulty resume_lease: accepts any lease that was once the newest.
MayResumeOlder(i, lease) == lease # 0 /\ lease <= i.last

\* resume_lease: only the holder of the newest lease may renew it.
MayResume(i, lease) == lease # 0 /\ i.last = lease

\* release.
Released(i, lease) ==
    [i EXCEPT !.issued = @ \ {lease},
              !.active = IF @ = lease THEN 0 ELSE @]

\* running_session with the socket's generation, then assert_active.
IsCurrent(s) ==
    /\ running
    /\ sock[s].gen = generation
    /\ input.active = sock[s].lease
    /\ sock[s].lease \in input.issued

-----------------------------------------------------------------------------
(* Tickets and the upgrade.                                                *)

Free == {s \in Sockets : sock[s].phase = "none"}

\* reattach of the client: only a tab that once held a lease tries again.
Reattaching(c) ==
    IF c.lease = 0
    THEN [c EXCEPT !.phase = "idle", !.sock = 0, !.control = FALSE, !.retry = FALSE]
    ELSE [c EXCEPT !.phase = "wait", !.sock = 0, !.control = FALSE,
                   !.retry = FALSE, !.resume = c.lease]

Detached(c) ==
    [c EXCEPT !.phase = "idle", !.sock = 0, !.control = FALSE, !.retry = FALSE]

\* The tab's side of its socket, if it has one, is gone: the server's task
\* will see that, and nobody reads what is under way.
Gone(s) == IF sock[s].phase = "closing" THEN NoSock ELSE [sock[s] EXCEPT !.link = "gone"]

Hangup(t) ==
    /\ sock' = [s \in Sockets |-> IF s = tab[t].sock THEN Gone(s) ELSE sock[s]]
    /\ wire' = [s \in Sockets |-> IF s = tab[t].sock THEN <<>> ELSE wire[s]]

\* The tab becomes active, or its user asks for control: a new attachment.
Attach(t) ==
    /\ tab[t].phase \in {"idle", "wait"}
    /\ attempts < MaxAttempts
    /\ tab' = [tab EXCEPT ![t].phase = "asking", ![t].resume = 0]
    /\ UNCHANGED <<ptyVars, inputVars, sock, wire, bounds>>

\* The tab is left, or its attachment is disposed of to make a new one.
Leave(t) ==
    /\ tab[t].phase = "open"
    /\ faults < MaxFaults
    /\ tab' = [tab EXCEPT ![t] = Detached(@)]
    /\ Hangup(t)
    /\ faults' = faults + 1
    /\ UNCHANGED <<ptyVars, inputVars, attempts>>

\* The reconnect timer of the tab fires.
Retry(t) ==
    /\ tab[t].phase = "wait"
    /\ tab' = [tab EXCEPT ![t].phase = "asking"]
    /\ UNCHANGED <<ptyVars, inputVars, sock, wire, bounds>>

\* open_terminal_input answers with a ticket for the running generation; the
\* tab gives up an automatic recovery when the terminal was rebuilt, and
\* starts its screen again for a new generation.
OpenTerminalInput(t) ==
    /\ tab[t].phase = "asking"
    /\ attempts < MaxAttempts
    /\ tab' = [tab EXCEPT ![t] =
                   IF ~running \/ (tab[t].resume # 0 /\ tab[t].gen # generation)
                   THEN [Detached(@) EXCEPT !.resume = 0]
                   ELSE [@ EXCEPT !.phase = "ticket",
                                  !.gen = generation,
                                  !.seq = IF tab[t].gen = generation THEN tab[t].seq ELSE 0]]
    /\ attempts' = attempts + 1
    /\ UNCHANGED <<ptyVars, inputVars, sock, wire, faults>>

\* The request fails on its way.
AskFails(t) ==
    /\ tab[t].phase = "asking"
    /\ faults < MaxFaults
    /\ tab' = [tab EXCEPT ![t] = Reattaching(@)]
    /\ faults' = faults + 1
    /\ UNCHANGED <<ptyVars, inputVars, sock, wire, attempts>>

\* terminal_upgrade before the upgrade: the ticket must be of the running
\* generation; a refusal reaches the tab as an abnormal close.
TerminalUpgrade(t) ==
    /\ tab[t].phase = "ticket"
    /\ IF running /\ tab[t].gen = generation
       THEN /\ Free # {}
            /\ LET s == CHOOSE s \in Free : \A x \in Free : s <= x
               IN  /\ sock' = [sock EXCEPT ![s] =
                                  [NoSock EXCEPT !.phase = "upgraded", !.of = t,
                                                 !.ticket = tab[t].gen,
                                                 !.since = tab[t].seq,
                                                 !.resume = tab[t].resume,
                                                 !.granted = tab[t].granted]]
                   /\ tab' = [tab EXCEPT ![t].phase = "open", ![t].sock = s,
                                         ![t].resume = 0]
       ELSE /\ tab' = [tab EXCEPT ![t] = Reattaching(@)]
            /\ UNCHANGED sock
    /\ UNCHANGED <<ptyVars, inputVars, wire, bounds>>

-----------------------------------------------------------------------------
(* The server task of a socket.                                            *)

\* A message is sent; a full connection makes the sender wait.  What is sent
\* when the tab's side is gone reaches nobody and is left out.
Sends(s, message) ==
    /\ sock[s].link = "up"
    /\ Len(wire[s]) < MaxWire
    /\ wire' = [wire EXCEPT ![s] = Append(@, message)]

\* The loop of the socket is left; the lease is still to be released.
Leaves(s) ==
    [NoSock EXCEPT !.phase = "release", !.of = sock[s].of, !.link = sock[s].link,
                   !.ticket = sock[s].ticket, !.gen = sock[s].gen,
                   !.lease = sock[s].lease]

\* The output is closed: a socket nobody listens to is gone with it.
Closing(s) ==
    IF sock[s].link # "up" THEN NoSock
    ELSE [NoSock EXCEPT !.phase = "closing", !.of = sock[s].of]

Attached(s)    == [kind |-> "attached", lease |-> sock[s].lease]
Event(n)       == [kind |-> "event", seq |-> n]
Marker(n)      == [kind |-> "truncated", seq |-> n]
Complete       == [kind |-> "complete"]
Resync         == [kind |-> "resync"]
ControlMoved   == [kind |-> "moved"]
AttachError    == [kind |-> "error"]

\* Faulty attach: does not ask for the ticket's generation.
MayAttachAny(s) == running

\* running_session_in_state with the expected generation.
MayAttach(s) == running /\ sock[s].ticket = generation

\* attach_with_expected_generation up to the activation of the lease.
TakeLease(s) ==
    /\ sock[s].phase = "upgraded"
    /\ MayAttach(s)
    /\ sock[s].resume # 0 => MayResume(input, sock[s].resume)
    /\ input' = Activated(input)
    /\ owner' = sock[s].of
    /\ sock' = [sock EXCEPT ![s].phase = "leased", ![s].gen = generation,
                            ![s].lease = input.last + 1]
    /\ UNCHANGED <<ptyVars, wire, tab, bounds>>

\* The same, refused: the terminal changed, or control moved.
LeaseRefused(s) ==
    /\ sock[s].phase = "upgraded"
    /\ \/ /\ ~MayAttach(s)
          /\ Sends(s, AttachError)
       \/ /\ MayAttach(s)
          /\ sock[s].resume # 0
          /\ ~MayResume(input, sock[s].resume)
          /\ Sends(s, ControlMoved)
    /\ sock' = [sock EXCEPT ![s] = Closing(s)]
    /\ UNCHANGED <<ptyVars, inputVars, tab, bounds>>

\* Faulty truncation: a client that names no sequence is not told.
TruncatedIfNamed(g, since) == since > 0 /\ since < Dropped(g)

\* replay_is_truncated.
Truncated(g, since) == since < Dropped(g)

\* TerminalEventStream::attach under the stream's lock: what to replay, and a
\* receiver of everything that is published later.
AttachStream(s) ==
    LET g == sock[s].gen
    IN  /\ sock[s].phase = "leased"
        /\ sock' = [sock EXCEPT ![s].phase = "greet",
                                ![s].marker = Truncated(g, sock[s].since),
                                ![s].upto = stream[g].next,
                                ![s].position = stream[g].next + 1,
                                ![s].sent = IF sock[s].since < Dropped(g)
                                            THEN Dropped(g) ELSE sock[s].since]
        /\ UNCHANGED <<ptyVars, inputVars, wire, tab, bounds>>

\* terminal_socket: the greeting, the marker, the replay and its end.
Greet(s) ==
    /\ sock[s].phase = "greet"
    /\ Sends(s, Attached(s))
    /\ sock' = [sock EXCEPT ![s].phase = "replay"]
    /\ UNCHANGED <<ptyVars, inputVars, tab, bounds>>

SendMarker(s) ==
    /\ sock[s].phase = "replay"
    /\ sock[s].marker
    /\ Sends(s, Marker(sock[s].sent))
    /\ sock' = [sock EXCEPT ![s].marker = FALSE]
    /\ UNCHANGED <<ptyVars, inputVars, tab, bounds>>

SendReplay(s) ==
    /\ sock[s].phase = "replay"
    /\ ~sock[s].marker
    /\ sock[s].sent < sock[s].upto
    /\ Sends(s, Event(sock[s].sent + 1))
    /\ sock' = [sock EXCEPT ![s].sent = @ + 1]
    /\ UNCHANGED <<ptyVars, inputVars, tab, bounds>>

ReplayComplete(s) ==
    /\ sock[s].phase = "replay"
    /\ ~sock[s].marker
    /\ sock[s].sent >= sock[s].upto
    /\ Sends(s, Complete)
    /\ sock' = [sock EXCEPT ![s].phase = "live"]
    /\ UNCHANGED <<ptyVars, inputVars, tab, bounds>>

Waiting(s) == stream[sock[s].gen].next + 1 - sock[s].position

\* receiver.recv: the next event, unless it was overwritten.
SendLive(s) ==
    /\ sock[s].phase = "live"
    /\ Waiting(s) \in 1..Buffer
    /\ Sends(s, Event(sock[s].position))
    /\ sock' = [sock EXCEPT ![s].sent = sock[s].position, ![s].position = @ + 1]
    /\ UNCHANGED <<ptyVars, inputVars, tab, bounds>>

\* RecvError::Lagged: tell the tab to attach again.
Lagged(s) ==
    /\ sock[s].phase = "live"
    /\ Waiting(s) > Buffer
    /\ Sends(s, Resync)
    /\ sock' = [sock EXCEPT ![s] = Leaves(s)]
    /\ UNCHANGED <<ptyVars, inputVars, tab, bounds>>

\* RecvError::Closed: everything was received and the sender is gone.
StreamClosed(s) ==
    /\ sock[s].phase = "live"
    /\ Waiting(s) = 0
    /\ stream[sock[s].gen].closed
    /\ sock' = [sock EXCEPT ![s] = Leaves(s)]
    /\ UNCHANGED <<ptyVars, inputVars, wire, tab, bounds>>

\* The heartbeat, or an input frame, finds that the lease is not current.
NotCurrent(s) ==
    /\ sock[s].phase = "live"
    /\ ~IsCurrent(s)
    /\ Sends(s, ControlMoved)
    /\ sock' = [sock EXCEPT ![s] = Leaves(s)]
    /\ UNCHANGED <<ptyVars, inputVars, tab, bounds>>

\* An input frame, sent while the tab had control, passes the check of
\* terminal_socket.
InputFrame(s) ==
    /\ sock[s].phase = "live"
    /\ IsCurrent(s)
    /\ sock' = [sock EXCEPT ![s].phase = "write"]
    /\ UNCHANGED <<ptyVars, inputVars, wire, tab, bounds>>

\* Faulty write_input: relies on the check made before.
WriteInputUnchecked(s) ==
    /\ sock[s].phase = "write"
    /\ sock' = [sock EXCEPT ![s].phase = "live"]
    /\ UNCHANGED <<ptyVars, inputVars, wire, tab, bounds>>

\* write_input: the lease is checked again under the writer's lock; an error
\* ends the socket without a word.
WriteInput(s) ==
    /\ sock[s].phase = "write"
    /\ sock' = [sock EXCEPT ![s] = IF IsCurrent(s) THEN [@ EXCEPT !.phase = "live"]
                                   ELSE Leaves(s)]
    /\ UNCHANGED <<ptyVars, inputVars, wire, tab, bounds>>

\* The tab's side of the connection is gone.
Broken(s) ==
    /\ sock[s].phase \in {"upgraded", "greet", "replay", "live"}
    /\ sock[s].link = "gone"
    /\ sock' = [sock EXCEPT ![s] = IF sock[s].lease = 0 THEN Closing(s) ELSE Leaves(s)]
    /\ UNCHANGED <<ptyVars, inputVars, wire, tab, bounds>>

\* A send timed out: the tab does not read.
SendTimeout(s) ==
    /\ sock[s].phase \in {"replay", "live"}
    /\ Len(wire[s]) = MaxWire
    /\ faults < MaxFaults
    /\ faults' = faults + 1
    /\ sock' = [sock EXCEPT ![s] = Leaves(s)]
    /\ UNCHANGED <<ptyVars, inputVars, wire, tab, attempts>>

\* release_input, of the running generation only; then the output is closed.
ReleaseInput(s) ==
    /\ sock[s].phase = "release"
    /\ sock' = [sock EXCEPT ![s] = Closing(s)]
    /\ input' = IF running /\ sock[s].gen = generation
                THEN Released(input, sock[s].lease) ELSE input
    /\ UNCHANGED <<ptyVars, owner, wire, tab, bounds>>

-----------------------------------------------------------------------------
(* The tab.                                                                *)

\* An event is shown when it is the next one; older ones were shown before,
\* and a gap that no marker explains makes the tab attach again.
Shows(c, m) ==
    IF m.seq <= c.seq THEN c
    ELSE IF m.kind = "truncated" \/ m.seq = c.seq + 1
    THEN [c EXCEPT !.seq = m.seq]
    ELSE [c EXCEPT !.retry = TRUE]

Receive(t) ==
    LET s == tab[t].sock
        m == Head(wire[s])
    IN  /\ tab[t].phase = "open"
        /\ wire[s] # <<>>
        /\ tab' = [tab EXCEPT ![t] =
               CASE m.kind = "attached" -> [@ EXCEPT !.lease = m.lease, !.granted = tab[t].gen]
                 [] m.kind = "complete" -> [@ EXCEPT !.control = TRUE]
                 [] m.kind = "resync" -> [@ EXCEPT !.retry = TRUE]
                 [] m.kind \in {"moved", "error"} -> Detached(@)
                 [] OTHER -> Shows(@, m)]
        /\ IF m.kind \in {"moved", "error"} THEN Hangup(t)
           ELSE /\ wire' = [wire EXCEPT ![s] = Tail(@)]
                /\ UNCHANGED sock
        /\ UNCHANGED <<ptyVars, inputVars, bounds>>

\* The tab was told, or decided, to attach again.
Reattach(t) ==
    /\ tab[t].phase = "open"
    /\ tab[t].retry
    /\ tab' = [tab EXCEPT ![t] = Reattaching(@)]
    /\ Hangup(t)
    /\ UNCHANGED <<ptyVars, inputVars, bounds>>

\* The server closed the socket in an orderly way.
Closed(t) ==
    /\ tab[t].phase = "open"
    /\ ~tab[t].retry
    /\ sock[tab[t].sock].phase = "closing"
    /\ wire[tab[t].sock] = <<>>
    /\ tab' = [tab EXCEPT ![t] = Detached(@)]
    /\ Hangup(t)
    /\ UNCHANGED <<ptyVars, inputVars, bounds>>

\* The connection breaks: what was under way is lost, and the tab recovers.
Cut(t) ==
    /\ tab[t].phase = "open"
    /\ faults < MaxFaults
    /\ tab' = [tab EXCEPT ![t] = Reattaching(@)]
    /\ Hangup(t)
    /\ faults' = faults + 1
    /\ UNCHANGED <<ptyVars, inputVars, attempts>>

SocketStep(s) ==
    \/ TakeLease(s)
    \/ LeaseRefused(s)
    \/ AttachStream(s)
    \/ Greet(s)
    \/ SendMarker(s)
    \/ SendReplay(s)
    \/ ReplayComplete(s)
    \/ SendLive(s)
    \/ Lagged(s)
    \/ StreamClosed(s)
    \/ NotCurrent(s)
    \/ InputFrame(s)
    \/ WriteInput(s)
    \/ Broken(s)
    \/ SendTimeout(s)
    \/ ReleaseInput(s)

TabStep(t) ==
    \/ Attach(t)
    \/ Leave(t)
    \/ Retry(t)
    \/ OpenTerminalInput(t)
    \/ AskFails(t)
    \/ TerminalUpgrade(t)
    \/ Receive(t)
    \/ Reattach(t)
    \/ Closed(t)
    \/ Cut(t)

PtyStep ==
    \/ \E size \in Sizes : Output(size)
    \/ Exit
    \/ Reconnect

Next ==
    \/ PtyStep
    \/ \E s \in Sockets : SocketStep(s)
    \/ \E t \in Tabs : TabStep(t)

Spec == Init /\ [][Next]_vars

-----------------------------------------------------------------------------
(* Properties.                                                             *)

\* A tab never meets a gap that no marker explains, whatever was replayed,
\* published meanwhile, truncated or shown before a reconnection: each event
\* it is about to read is one it has, or the one after the last it has.
NoUnexplainedGap ==
    \A t \in Tabs :
        (tab[t].phase = "open" /\ wire[tab[t].sock] # <<>>)
            => LET m == Head(wire[tab[t].sock])
               IN  m.kind = "event" => m.seq <= tab[t].seq + 1

\* An automatic recovery is no takeover: it does not take control from another tab,
\* whatever became of the connection since, of its answers and of other sockets of
\* the tab. A lease of the running terminal is renewed by its own tab only.
RecoveryOnlyRenews ==
    [][\A s \in Sockets :
          (/\ sock[s].phase = "upgraded" /\ sock'[s].phase = "leased"
           /\ sock[s].resume # 0 /\ sock[s].granted = generation)
              => owner = sock[s].of]_vars

\* The same, of every recovery: a lease number of an earlier generation of the
\* terminal does not take control either.
RecoveryNeverSteals ==
    [][\A s \in Sockets :
          (sock[s].phase = "upgraded" /\ sock'[s].phase = "leased" /\ sock[s].resume # 0)
              => owner = sock[s].of]_vars

\* Input reaches the PTY only from the tab that took control last, even if
\* control moves between the check of the frame and the write, and only with a
\* ticket of the running generation, although the ticket is checked before the
\* upgrade and used after it.
InputIsOwned ==
    [][\A s \in Sockets :
          (sock[s].phase = "write" /\ sock'[s].phase = "live")
              => running /\ sock[s].ticket = generation /\ owner = sock[s].of]_vars

=============================================================================
