------------------------ MODULE TerminalSessions_proofs ------------------------
(***************************************************************************)
(* Proofs about TerminalSessions, for any sessions, closers, limits and    *)
(* faults, and any number of starts.                                       *)
(*                                                                         *)
(* A slot, the call that reserved it and the child it leads to are related *)
(* by the generation: SlotInv(s) says where the call of a slot's           *)
(* generation may be, GenInv(g) what its child and its threads have done,  *)
(* and CallInv(c) that a close terminates only a child that was            *)
(* registered, and removes a slot only after the exit was seen.            *)
(* ClosedInv(g), kept by the steps that keep those, says that a close left *)
(* behind no slot, or one with the flag that its start will find.          *)
(* RetireInv is what retire_host relies on: since wait_idle returned, no   *)
(* start is under way, so the active sessions are among those it closes.   *)
(***************************************************************************)
EXTENDS TerminalSessions, TLAPS

Early == {"none", "drawn", "reserved", "spawned"}
StartPcs == Early \cup {"registered", "committed", "started", "abort", "reap", "done"}
CallPcs == {"idle", "kill", "reap", "remove", "ok", "error"}
Slots == [kind : {"none", "starting", "running"}, gen : 0 .. MaxGeneration,
          close : BOOLEAN, cleanup : BOOLEAN]
Records == [gen : 0 .. MaxGeneration, rev : Nat, st : {"none", "running", "failed", "ended"}]
CallRecords == [pc : CallPcs, s : Sessions \cup {"none"}, gen : 0 .. MaxGeneration]
Starts == [pc : StartPcs, s : Sessions \cup {"none"}, rev : Nat, new : BOOLEAN]

Types ==
    /\ slot \in [Sessions -> Slots]
    /\ record \in [Sessions -> Records]
    /\ issued \in 0 .. MaxGeneration
    /\ start \in [Generations -> Starts]
    /\ child \in [Generations -> {"none", "alive", "exited"}]
    /\ handle \in [Generations -> {"cleanup", "waiter", "taken"}]
    /\ known \subseteq Generations
    /\ reader \in [Generations -> {"idle", "reading", "publishing", "done", "failed"}]
    /\ waiter \in [Generations -> {"idle", "waiting", "draining", "done"}]
    /\ output \in [Generations -> Nat]
    /\ exited \subseteq Generations /\ overdue \subseteq Generations
    /\ call \in [Calls -> CallRecords]
    /\ barred \in BOOLEAN /\ stopped \in BOOLEAN
    /\ retiring \in {"idle", "waiting", "closing", "failing", "failed", "retired"}
    /\ toClose \subseteq Sessions

\* The slot of its session is that of g.
Holds(g) == start[g].s \in Sessions /\ slot[start[g].s].gen = g

SlotInv(s) ==
    /\ slot[s].gen = 0 <=> slot[s].kind = "none"
    /\ slot[s].kind = "none" => slot[s] = NoSlot
    /\ slot[s].close => slot[s].kind = "starting"
    /\ slot[s].gen # 0 =>
          LET g == slot[s].gen IN
          /\ start[g].s = s /\ start[g].pc \notin {"none", "drawn"}
          /\ slot[s].cleanup <=> start[g].pc \notin Early
          /\ slot[s].kind = "running" => start[g].pc \in {"committed", "started", "done"}

GenInv(g) ==
    /\ g > issued => start[g].pc = "none"
    /\ start[g].pc # "none" => start[g].s \in Sessions
    /\ start[g].pc \in {"none", "drawn", "reserved"} => child[g] = "none"
    /\ start[g].pc \in {"reserved", "spawned"} => Holds(g) /\ slot[start[g].s].kind = "starting"
    /\ g \in known => child[g] = "exited"
    /\ waiter[g] = "draining" => g \in known
    /\ reader[g] # "idle" => start[g].pc \in {"started", "done"}
    /\ reader[g] = "publishing" => output[g] > 0
    /\ reader[g] = "done" /\ Holds(g) /\ slot[start[g].s].kind = "running" =>
          output[g] = 0 /\ child[g] = "exited"
    /\ g \in exited => g \in overdue \/ reader[g] = "failed" \/ (reader[g] = "done" /\ output[g] = 0)
    /\ g \in exited => child[g] = "exited"
    /\ child[g] = "alive" =>
          \/ Holds(g) /\ slot[start[g].s].cleanup
          \/ start[g].pc = "spawned"
          \/ stopped

CallInv(c) ==
    /\ call[c].pc # "idle" => call[c].s \in Sessions
    /\ call[c].pc \in {"kill", "reap", "remove"} =>
          /\ call[c].gen \in Generations
          /\ start[call[c].gen].pc \notin Early /\ start[call[c].gen].s = call[c].s
    /\ call[c].pc = "remove" => call[c].gen \in known

RetireInv ==
    /\ retiring # "idle" => barred
    /\ retiring \in {"closing", "failing", "retired"} => Leased = {}
    /\ retiring \in {"waiting", "closing", "failing"} => ~stopped
    /\ call["retire"].pc # "idle" => retiring \in {"closing", "failing"}
    /\ retiring = "closing" =>
          /\ Active \subseteq toClose
          /\ call["retire"].pc \in {"kill", "reap", "remove"} =>
                slot[call["retire"].s].gen \in {0, call["retire"].gen}
          /\ call["retire"].pc = "ok" => slot[call["retire"].s].kind = "none"
    /\ retiring = "retired" => Active = {} /\ \A g \in Generations : child[g] # "alive"

\* The inductive invariant.
Inv ==
    /\ Types
    /\ \A s \in Sessions : SlotInv(s)
    /\ \A g \in Generations : GenInv(g)
    /\ \A c \in Calls : CallInv(c)
    /\ RetireInv

\* A slot leads to one generation, and a generation to one slot.
LEMMA CurrentHolds ==
    ASSUME Inv, NEW g \in Generations
    PROVE  /\ Current(g) <=> Holds(g)
           /\ Holds(g) => g > 0 /\ slot[start[g].s].kind # "none"
                          /\ \A s \in Sessions : slot[s].gen = g <=> s = start[g].s
BY TerminalAssumption DEF Inv, SlotInv, Current, Holds, Generations

\* A step of a start happens while the start holds its lease: no retirement has
\* gone on.
LEMMA RetireWaits ==
    ASSUME RetireInv, Leased # {}, UNCHANGED <<call, retireVars>>
    PROVE  RetireInv'
BY DEF RetireInv, retireVars

\* Slots that are given up, and starts that end, do not hinder a retirement.
LEMMA RetireFrame ==
    ASSUME Inv, UNCHANGED <<call["retire"], retireVars, start>>,
           \A s \in Sessions : slot'[s].gen \in {0, slot[s].gen} /\ (slot[s].kind = "none" => slot'[s].kind = "none"),
           \A g \in Generations : child'[g] = "alive" => child[g] = "alive"
    PROVE  RetireInv'
<1>1. Leased' = Leased
    BY DEF Leased
<1>2. Active' \subseteq Active
    BY DEF Active
<1>3. call["retire"].pc # "idle" => call["retire"].s \in Sessions
    BY DEF Inv, CallInv, Calls
<1> QED
    BY <1>1, <1>2, <1>3 DEF Inv, RetireInv, retireVars

\* A generation does not notice what happens to the slots and the starts of others.
LEMMA GenFrame ==
    ASSUME NEW k \in Generations, GenInv(k),
           UNCHANGED <<start[k], child[k], reader[k], waiter[k], output[k]>>,
           k \in known' <=> k \in known, k \in exited' <=> k \in exited,
           k \in overdue' <=> k \in overdue, stopped => stopped', k > issued' => k > issued,
           start[k].s \in Sessions /\ (slot[start[k].s].gen = k \/ slot'[start[k].s].gen = k)
              => slot'[start[k].s] = slot[start[k].s]
    PROVE  GenInv(k)'
BY DEF GenInv, Holds

-----------------------------------------------------------------------------
(* Start and reconnect.                                                    *)

\* A drawn generation is new: nothing refers to it.
LEMMA DrawStep ==
    ASSUME Inv, NEW s \in Sessions, NEW new \in BOOLEAN, Draw(s, new)
    PROVE  Inv'
<1> DEFINE n == issued + 1
<1>0. /\ Types /\ RetireInv
      /\ n \in Generations /\ n # 0 /\ GenInv(n) /\ start[n].pc = "none"
      /\ issued' = n /\ start' = [start EXCEPT ![n] = [pc |-> "drawn", s |-> s, rev |-> 1, new |-> new]]
      /\ ~barred /\ UNCHANGED <<stateVars, childVars, threadVars, call, retireVars>>
    BY TerminalAssumption DEF Inv, Draw, Types, GenInv, Generations, closeVars
<1> HIDE DEF n
<1>1. Types'
    <2>1. [pc |-> "drawn", s |-> s, rev |-> 1, new |-> new] \in Starts
        BY DEF Starts, StartPcs, Early
    <2> QED
        BY <1>0, <2>1 DEF Types, Generations, stateVars, childVars, threadVars, closeVars, retireVars
<1>2. ASSUME NEW t \in Sessions PROVE SlotInv(t)'
    <2>1. slot[t].gen # n
        BY <1>0 DEF Inv, SlotInv
    <2> QED
        BY <1>0, <2>1 DEF Inv, Types, SlotInv, stateVars
<1>3. ASSUME NEW g \in Generations PROVE GenInv(g)'
    <2>1. CASE g = n
        <3>1. /\ start'[n].pc = "drawn" /\ start'[n].s = s /\ ~(n > issued')
              /\ child[n] = "none" /\ reader[n] = "idle" /\ waiter[n] # "draining" /\ n \notin exited
            BY <1>0, TerminalAssumption DEF Types, GenInv, Generations
        <3> QED
            BY <1>0, <2>1, <3>1 DEF GenInv, childVars, threadVars, closeVars
    <2>2. CASE g # n
        <3>1. GenInv(g) /\ start'[g] = start[g] /\ (g > n => g > issued)
            BY <1>0, <2>2, TerminalAssumption DEF Inv, Types, Generations, n
        <3> QED
            BY <1>0, <3>1, GenFrame DEF stateVars, childVars, threadVars, closeVars, retireVars
    <2> QED
        BY <2>1, <2>2
<1>4. ASSUME NEW c \in Calls PROVE CallInv(c)'
    BY <1>0 DEF Inv, Types, CallInv, Early, childVars
<1>5. RetireInv'
    BY <1>0 DEF RetireInv, retireVars
<1> QED
    BY <1>1, <1>2, <1>3, <1>4, <1>5 DEF Inv

\* The facts every step of the call of g starts from.
LEMMA StartFacts ==
    ASSUME Inv, NEW g \in Generations, start[g].pc \notin {"none", "done"}
    PROVE  /\ Types /\ SlotInv(start[g].s) /\ GenInv(g) /\ RetireInv /\ Leased # {}
           /\ start[g].s \in Sessions /\ start[g] \in Starts /\ g \in 1 .. MaxGeneration
           /\ MaxGeneration \in Nat
BY TerminalAssumption DEF Inv, Types, GenInv, Leased, Generations

\* What a step about g and the slot of its session leaves as it was.
Apart(g) ==
    LET s == start[g].s IN
    /\ \A t \in Sessions \ {s} : slot'[t] = slot[t]
    /\ slot'[s] = slot[s] \/ (slot[s].gen \in {0, g} /\ slot'[s].gen \in {0, g})
    /\ \A k \in Generations \ {g} :
          /\ start'[k] = start[k] /\ child'[k] = child[k]
          /\ reader'[k] = reader[k] /\ waiter'[k] = waiter[k] /\ output'[k] = output[k]
          /\ k \in known' <=> k \in known
          /\ (k \in exited' <=> k \in exited) /\ (k \in overdue' <=> k \in overdue)
    /\ issued' = issued /\ (stopped => stopped')

\* A slot whose generation takes no step, or that is given up.
LEMMA SlotKept ==
    ASSUME Inv, NEW g \in Generations, NEW t \in Sessions,
           \A k \in Generations \ {g} : start'[k] = start[k],
           (slot'[t] = slot[t] /\ slot[t].gen # g) \/ slot'[t] = NoSlot
    PROVE  SlotInv(t)'
<1>1. CASE slot'[t] = slot[t] /\ slot[t].gen # g
    <2>1. slot[t].gen \in 0 .. MaxGeneration
        BY DEF Inv, Types, Slots
    <2>2. slot[t].gen # 0 => start'[slot[t].gen] = start[slot[t].gen]
        BY <1>1, <2>1, TerminalAssumption DEF Generations
    <2> QED
        BY <1>1, <2>2 DEF Inv, SlotInv
<1>2. CASE slot'[t] = NoSlot
    BY <1>2 DEF SlotInv, NoSlot
<1> QED
    BY <1>1, <1>2

\* Such a step keeps what is said of the other sessions and generations.
LEMMA OthersKept ==
    ASSUME Inv, NEW g \in Generations, start[g].s \in Sessions, Apart(g)
    PROVE  /\ \A t \in Sessions \ {start[g].s} : SlotInv(t)'
           /\ \A k \in Generations \ {g} : GenInv(k)'
<1>1. ASSUME NEW t \in Sessions \ {start[g].s} PROVE SlotInv(t)'
    <2>1. slot'[t] = slot[t] /\ slot[t].gen # g
        BY TerminalAssumption DEF Inv, SlotInv, Apart, Generations
    <2> QED
        BY <2>1, SlotKept DEF Apart
<1>2. ASSUME NEW k \in Generations \ {g} PROVE GenInv(k)'
    <2>1. k # 0
        BY TerminalAssumption DEF Generations
    <2>2. start[k].s \in Sessions /\ (slot[start[k].s].gen = k \/ slot'[start[k].s].gen = k)
             => slot'[start[k].s] = slot[start[k].s]
        BY <2>1 DEF Apart
    <2> QED
        BY <2>2, GenFrame DEF Inv, Apart
<1> QED
    BY <1>1, <1>2

\* A call of close is not affected by a step that only goes on with a start.
LEMMA CallKept ==
    ASSUME Inv, NEW c \in Calls, call'[c] = call[c], known \subseteq known',
           \A g \in Generations : start[g].pc \notin Early =>
              start'[g].pc \notin Early /\ start'[g].s = start[g].s
    PROVE  CallInv(c)'
BY DEF Inv, CallInv

\* What is left to show of a step of a start: its types, its slot and its generation.
LEMMA StartKept ==
    ASSUME Inv, NEW g \in Generations, start[g].pc \notin {"none", "done"},
           UNCHANGED <<issued, output, overdue, exited, call, retireVars>>,
           slot' \in [Sessions -> Slots], record' \in [Sessions -> Records],
           start' \in [Generations -> Starts],
           child' \in [Generations -> {"none", "alive", "exited"}],
           handle' \in [Generations -> {"cleanup", "waiter", "taken"}],
           known \subseteq known', known' \subseteq Generations,
           reader' \in [Generations -> {"idle", "reading", "publishing", "done", "failed"}],
           waiter' \in [Generations -> {"idle", "waiting", "draining", "done"}],
           start[g].pc \notin Early => start'[g].pc \notin Early, start'[g].s = start[g].s,
           Apart(g), NEW s \in Sessions, s = start[g].s, SlotInv(s)', GenInv(g)'
    PROVE  Inv'
<1>1. Types /\ RetireInv /\ Leased # {}
    BY DEF Inv, Leased
<1>2. Types'
    BY <1>1 DEF Types, retireVars
<1>3. ASSUME NEW c \in Calls PROVE CallInv(c)'
    BY CallKept DEF Apart
<1>4. RetireInv'
    BY <1>1, RetireWaits
<1> QED
    BY <1>2, <1>3, <1>4, OthersKept DEF Inv

\* The start of g goes on to p.
LEMMA GoesFacts ==
    ASSUME Types, NEW g \in Generations, NEW p \in StartPcs, Goes(g, p)
    PROVE  /\ start' \in [Generations -> Starts]
           /\ start'[g].pc = p /\ start'[g].s = start[g].s
           /\ \A k \in Generations \ {g} : start'[k] = start[k]
BY DEF Types, Goes, Starts

\* A new generation is the latest of its session, and has no child yet.
LEMMA ReserveStep ==
    ASSUME Inv, NEW g \in Generations, Reserve(g)
    PROVE  Inv'
<1>s. PICK s \in Sessions : s = start[g].s
    BY StartFacts DEF Reserve, At
<1> DEFINE v == [kind |-> "starting", gen |-> g, close |-> FALSE, cleanup |-> FALSE]
<1>0. /\ Types /\ SlotInv(s) /\ GenInv(g) /\ s = start[g].s
      /\ start[g] \in Starts /\ g \in 1 .. MaxGeneration /\ MaxGeneration \in Nat
      /\ start[g].pc = "drawn"
    BY <1>s, StartFacts DEF Reserve, At
<1>u. UNCHANGED <<record, issued, child, handle, known, reader, waiter, output, overdue, exited, call,
                  stopped, retireVars>>
    BY DEF Reserve, childVars, threadVars, closeVars, retireVars
<1>1. CASE /\ slot[s].kind = "none" /\ slot' = [slot EXCEPT ![s] = v]
           /\ start' = [start EXCEPT ![g].pc = "reserved", ![g].rev = NextRevision(g)]
    <2>1. slot[s].gen = 0 /\ slot'[s] = v /\ slot' \in [Sessions -> Slots]
        BY <1>0, <1>1 DEF SlotInv, NoSlot, Types, Slots
    <2>2. start' \in [Generations -> Starts]
        <3>1. NextRevision(g) \in Nat
            BY <1>0 DEF NextRevision, Types, Records
        <3> QED
            BY <1>0, <1>1, <3>1 DEF Types, Starts, StartPcs, Early
    <2>3. start'[g].pc = "reserved" /\ start'[g].s = s /\ \A k \in Generations \ {g} : start'[k] = start[k]
        BY <1>0, <1>1 DEF Types
    <2>4. Apart(g)
        BY <1>0, <1>1, <1>u, <2>1, <2>3 DEF Apart, Types
    <2>5. SlotInv(s)'
        BY <1>0, <2>1, <2>3 DEF SlotInv, Early
    <2>6. GenInv(g)'
        BY <1>0, <1>u, <2>1, <2>3 DEF GenInv, Holds
    <2> QED
        BY <1>0, <1>u, <2>1, <2>2, <2>3, <2>4, <2>5, <2>6, StartKept DEF Types, Early
<1>2. CASE Goes(g, "done") /\ UNCHANGED slot
    <2>1. /\ start' \in [Generations -> Starts]
          /\ start'[g].pc = "done" /\ start'[g].s = s /\ \A k \in Generations \ {g} : start'[k] = start[k]
        BY <1>0, <1>2, GoesFacts DEF StartPcs
    <2>2. Apart(g)
        BY <1>0, <1>2, <1>u, <2>1 DEF Apart
    <2>3. slot[s].gen # g
        BY <1>0 DEF SlotInv
    <2>4. SlotInv(s)'
        BY <1>2, <2>1, <2>3, SlotKept
    <2>5. GenInv(g)'
        BY <1>0, <1>2, <1>u, <2>1, <2>3 DEF GenInv, Holds
    <2> QED
        BY <1>0, <1>2, <1>u, <2>1, <2>2, <2>4, <2>5, StartKept DEF Types, Early
<1> QED
    BY <1>s, <1>1, <1>2 DEF Reserve, SlotIs, NoSlot

\* Releases gives up the slot of g, if it is still that of g, and no other.
LEMMA ReleaseFacts ==
    ASSUME Inv, NEW g \in Generations, NEW s \in Sessions, s = start[g].s, Releases(g)
    PROVE  /\ slot' \in [Sessions -> Slots] /\ record' \in [Sessions -> Records]
           /\ \A t \in Sessions \ {s} : slot'[t] = slot[t]
           /\ \/ slot[s].gen = g /\ slot'[s] = NoSlot
              \/ slot[s].gen # g /\ slot'[s] = slot[s]
<1>1. Types /\ (Current(g) <=> slot[s].gen = g)
    BY CurrentHolds DEF Inv, Holds
<1>2. NoSlot \in Slots /\ NoRecord \in Records
    BY TerminalAssumption DEF Slots, Records, NoSlot, NoRecord
<1>3. CASE Current(g)
    BY <1>1, <1>2, <1>3 DEF Types, Releases, SlotIs, RecordIs
<1>4. CASE ~Current(g)
    BY <1>1, <1>4 DEF Types, Releases, stateVars
<1> QED
    BY <1>3, <1>4

\* The child belongs to the start that spawned it.
LEMMA SpawnStep ==
    ASSUME Inv, NEW g \in Generations, Spawn(g)
    PROVE  Inv'
<1>s. PICK s \in Sessions : s = start[g].s
    BY StartFacts DEF Spawn, At
<1>0. /\ Types /\ SlotInv(s) /\ GenInv(g) /\ s = start[g].s
      /\ g \in 1 .. MaxGeneration /\ start[g].pc = "reserved"
      /\ slot[s].gen = g /\ slot[s].kind = "starting"
    BY <1>s, StartFacts DEF Spawn, At, GenInv, Holds
<1>u. UNCHANGED <<issued, handle, known, reader, waiter, output, overdue, exited, call, stopped, retireVars>>
    BY DEF Spawn, threadVars, closeVars, retireVars
<1>1. CASE child' = [child EXCEPT ![g] = "alive"] /\ Goes(g, "spawned") /\ UNCHANGED stateVars
    <2>1. /\ start' \in [Generations -> Starts]
          /\ start'[g].pc = "spawned" /\ start'[g].s = s /\ \A k \in Generations \ {g} : start'[k] = start[k]
        BY <1>0, <1>1, GoesFacts DEF StartPcs, Early
    <2>2. slot' = slot /\ record' = record
          /\ child' \in [Generations -> {"none", "alive", "exited"}]
          /\ child'[g] = "alive" /\ \A k \in Generations \ {g} : child'[k] = child[k]
        BY <1>0, <1>1 DEF Types, stateVars
    <2>3. Apart(g)
        BY <1>0, <1>u, <2>1, <2>2 DEF Apart
    <2>4. SlotInv(s)'
        BY <1>0, <2>1, <2>2 DEF SlotInv, Early
    <2>5. GenInv(g)'
        BY <1>0, <1>u, <2>1, <2>2 DEF GenInv, Holds
    <2> QED
        BY <1>0, <1>u, <2>1, <2>2, <2>3, <2>4, <2>5, StartKept DEF Types, Early
<1>2. CASE Releases(g) /\ Goes(g, "done") /\ UNCHANGED child
    <2>1. /\ start' \in [Generations -> Starts]
          /\ start'[g].pc = "done" /\ start'[g].s = s /\ \A k \in Generations \ {g} : start'[k] = start[k]
        BY <1>0, <1>2, GoesFacts DEF StartPcs
    <2>2. /\ slot' \in [Sessions -> Slots] /\ record' \in [Sessions -> Records]
          /\ \A t \in Sessions \ {s} : slot'[t] = slot[t]
          /\ slot'[s] = NoSlot
        BY <1>0, <1>2, ReleaseFacts
    <2>3. Apart(g)
        BY <1>0, <1>2, <1>u, <2>1, <2>2 DEF Apart, NoSlot
    <2>4. SlotInv(s)'
        BY <2>1, <2>2, SlotKept
    <2>5. GenInv(g)'
        BY <1>0, <1>2, <1>u, <2>1, <2>2 DEF GenInv, Holds, NoSlot
    <2> QED
        BY <1>0, <1>2, <1>u, <2>1, <2>2, <2>3, <2>4, <2>5, StartKept DEF Types, Early
<1> QED
    BY <1>1, <1>2 DEF Spawn

\* The two flags of a slot can be set.
LEMMA SlotFlags ==
    ASSUME NEW v \in Slots, NEW b \in BOOLEAN
    PROVE  /\ [v EXCEPT !.cleanup = b] \in Slots /\ [v EXCEPT !.close = b] \in Slots
           /\ [v EXCEPT !.cleanup = b].cleanup = b /\ [v EXCEPT !.close = b].close = b
BY DEF Slots

\* The child is made known to a close, or the start goes on to abort.
LEMMA RegisterStep ==
    ASSUME Inv, NEW g \in Generations, Register(g)
    PROVE  Inv'
<1>s. PICK s \in Sessions : s = start[g].s
    BY StartFacts DEF Register, At
<1>0. /\ Types /\ SlotInv(s) /\ GenInv(g) /\ s = start[g].s
      /\ g \in 1 .. MaxGeneration /\ start[g].pc = "spawned"
      /\ slot[s].gen = g /\ slot[s].kind = "starting"
    BY <1>s, StartFacts DEF Register, At, GenInv, Holds
<1>u. UNCHANGED <<record, issued, child, handle, known, reader, waiter, output, overdue, exited, call,
                  stopped, retireVars>>
    BY DEF Register, childVars, threadVars, closeVars, retireVars
<1>1. PICK p \in {"abort", "registered"} :
         slot' = [slot EXCEPT ![s].cleanup = TRUE] /\ Goes(g, p)
    <2>1. StartingAt(g)
        BY <1>0 DEF StartingAt, Current
    <2> QED
        BY <1>s, <2>1 DEF Register
<1>2. /\ start' \in [Generations -> Starts]
      /\ start'[g].pc = p /\ start'[g].s = s /\ \A k \in Generations \ {g} : start'[k] = start[k]
    BY <1>0, <1>1, GoesFacts DEF StartPcs
<1>3. /\ slot' \in [Sessions -> Slots]
      /\ slot'[s] = [slot[s] EXCEPT !.cleanup = TRUE]
      /\ \A t \in Sessions \ {s} : slot'[t] = slot[t]
    <2>1. [slot[s] EXCEPT !.cleanup = TRUE] \in Slots
        <3>1. slot[s] \in Slots
            BY <1>0 DEF Types
        <3> QED
            BY <3>1, SlotFlags
    <2>2. slot' = [slot EXCEPT ![s] = [slot[s] EXCEPT !.cleanup = TRUE]]
        BY <1>1
    <2> QED
        BY <1>0, <2>1, <2>2 DEF Types
<1>4. slot'[s].gen = g /\ slot'[s].kind = "starting" /\ slot'[s].cleanup
    BY <1>0, <1>3 DEF Types, Slots
<1>5. Apart(g)
    BY <1>0, <1>u, <1>2, <1>3, <1>4 DEF Apart
<1>6. SlotInv(s)'
    BY <1>0, <1>2, <1>4 DEF SlotInv, Early
<1>7. GenInv(g)'
    BY <1>0, <1>u, <1>2, <1>4 DEF GenInv, Holds
<1> QED
    BY <1>0, <1>u, <1>2, <1>3, <1>5, <1>6, <1>7, StartKept DEF Types, Early

\* A session runs only when nobody asked to close it in the meantime.
LEMMA CommitStep ==
    ASSUME Inv, NEW g \in Generations, Commit(g)
    PROVE  Inv'
<1>s. PICK s \in Sessions : s = start[g].s
    BY StartFacts DEF Commit, At
<1>0. /\ Types /\ SlotInv(s) /\ GenInv(g) /\ s = start[g].s /\ start[g] \in Starts
      /\ g \in 1 .. MaxGeneration /\ MaxGeneration \in Nat /\ start[g].pc = "registered"
    BY <1>s, StartFacts DEF Commit, At
<1>u. UNCHANGED <<issued, child, handle, known, reader, waiter, output, overdue, exited, call,
                  stopped, retireVars>>
    BY DEF Commit, childVars, threadVars, closeVars, retireVars
<1>1. CASE /\ Commits(g)
           /\ SlotIs(s, [slot[s] EXCEPT !.kind = "running"])
           /\ record' = [t \in Sessions |->
                 CASE t = s -> [gen |-> g, rev |-> start[g].rev, st |-> "running"]
                   [] t \in Pruned(s) -> NoRecord
                   [] OTHER -> record[t]]
           /\ Goes(g, "committed")
    <2>1. /\ start' \in [Generations -> Starts]
          /\ start'[g].pc = "committed" /\ start'[g].s = s /\ \A k \in Generations \ {g} : start'[k] = start[k]
        BY <1>0, <1>1, GoesFacts DEF StartPcs
    <2>2. slot[s].gen = g /\ slot[s].kind = "starting" /\ ~slot[s].close
        BY <1>0, <1>1, CurrentHolds DEF Commits, StartingAt, Holds
    <2>3. /\ slot' \in [Sessions -> Slots]
          /\ slot'[s] = [slot[s] EXCEPT !.kind = "running"]
          /\ \A t \in Sessions \ {s} : slot'[t] = slot[t]
        <3>1. [slot[s] EXCEPT !.kind = "running"] \in Slots
            BY <1>0 DEF Types, Slots
        <3> QED
            BY <1>0, <1>1, <3>1 DEF Types, SlotIs
    <2>4. /\ slot'[s].gen = g /\ slot'[s].kind = "running" /\ ~slot'[s].close
          /\ slot'[s].cleanup = slot[s].cleanup
        BY <1>0, <2>2, <2>3 DEF Types, Slots
    <2>5. record' \in [Sessions -> Records]
        <3>1. [gen |-> g, rev |-> start[g].rev, st |-> "running"] \in Records /\ NoRecord \in Records
            BY <1>0 DEF Records, NoRecord, Starts
        <3> QED
            BY <1>0, <1>1, <3>1 DEF Types
    <2>6. Apart(g)
        BY <1>0, <1>u, <2>1, <2>2, <2>3, <2>4 DEF Apart
    <2>7. SlotInv(s)'
        BY <1>0, <2>1, <2>2, <2>4 DEF SlotInv, Early
    <2>8. GenInv(g)'
        BY <1>0, <1>u, <2>1, <2>2, <2>4 DEF GenInv, Holds
    <2> QED
        BY <1>0, <1>u, <2>1, <2>3, <2>5, <2>6, <2>7, <2>8, StartKept DEF Types, Early
<1>2. CASE Goes(g, "abort") /\ UNCHANGED stateVars
    <2>1. /\ start' \in [Generations -> Starts]
          /\ start'[g].pc = "abort" /\ start'[g].s = s /\ \A k \in Generations \ {g} : start'[k] = start[k]
        BY <1>0, <1>2, GoesFacts DEF StartPcs
    <2>2. slot' = slot /\ record' = record
        BY <1>2 DEF stateVars
    <2>3. Apart(g)
        BY <1>0, <1>u, <2>1, <2>2 DEF Apart
    <2>4. SlotInv(s)'
        <3>1. CASE slot[s].gen = g
            BY <1>0, <2>1, <2>2, <3>1 DEF SlotInv, Early
        <3>2. CASE slot[s].gen # g
            BY <2>1, <2>2, <3>2, SlotKept
        <3> QED
            BY <3>1, <3>2
    <2>5. GenInv(g)'
        BY <1>0, <1>u, <2>1, <2>2 DEF GenInv, Holds
    <2> QED
        BY <1>0, <1>u, <2>1, <2>2, <2>3, <2>4, <2>5, StartKept DEF Types, Early
<1> QED
    BY <1>s, <1>1, <1>2 DEF Commit

\* The reader of a committed session begins before its waiter.
LEMMA StartReaderStep ==
    ASSUME Inv, NEW g \in Generations, StartReader(g)
    PROVE  Inv'
<1>s. PICK s \in Sessions : s = start[g].s
    BY StartFacts DEF StartReader, At
<1>0. /\ Types /\ SlotInv(s) /\ GenInv(g) /\ s = start[g].s
      /\ g \in 1 .. MaxGeneration /\ start[g].pc = "committed"
    BY <1>s, StartFacts DEF StartReader, At
<1>u. UNCHANGED <<slot, record, issued, child, handle, known, waiter, output, overdue, exited, call,
                  stopped, retireVars>>
    BY DEF StartReader, stateVars, childVars, closeVars, retireVars
<1>1. /\ start' \in [Generations -> Starts]
      /\ start'[g].pc = "started" /\ start'[g].s = s /\ \A k \in Generations \ {g} : start'[k] = start[k]
    BY <1>0, GoesFacts DEF StartReader, StartPcs
<1>2. /\ reader' \in [Generations -> {"idle", "reading", "publishing", "done", "failed"}]
      /\ reader'[g] = "reading" /\ \A k \in Generations \ {g} : reader'[k] = reader[k]
    BY <1>0 DEF StartReader, Types
<1>3. Apart(g)
    BY <1>0, <1>u, <1>1, <1>2 DEF Apart
<1>4. SlotInv(s)'
    <2>1. CASE slot[s].gen = g
        BY <1>0, <1>u, <1>1, <2>1 DEF SlotInv, Early
    <2>2. CASE slot[s].gen # g
        BY <1>u, <1>1, <2>2, SlotKept
    <2> QED
        BY <2>1, <2>2
<1>5. GenInv(g)'
    BY <1>0, <1>u, <1>1, <1>2 DEF GenInv, Holds
<1> QED
    BY <1>0, <1>u, <1>1, <1>2, <1>3, <1>4, <1>5, StartKept DEF Types, Early

\* The waiter takes the child over, unless a close has reaped it.
LEMMA StartWaiterStep ==
    ASSUME Inv, NEW g \in Generations, StartWaiter(g)
    PROVE  Inv'
<1>s. PICK s \in Sessions : s = start[g].s
    BY StartFacts DEF StartWaiter, At
<1>0. /\ Types /\ SlotInv(s) /\ GenInv(g) /\ s = start[g].s
      /\ g \in 1 .. MaxGeneration /\ start[g].pc = "started"
    BY <1>s, StartFacts DEF StartWaiter, At
<1>u. UNCHANGED <<slot, record, issued, child, known, reader, output, overdue, exited, call,
                  stopped, retireVars>>
    BY DEF StartWaiter, stateVars, closeVars, retireVars
<1>1. /\ start' \in [Generations -> Starts]
      /\ start'[g].pc = "done" /\ start'[g].s = s /\ \A k \in Generations \ {g} : start'[k] = start[k]
    BY <1>0, GoesFacts DEF StartWaiter, StartPcs
<1>2. /\ waiter' \in [Generations -> {"idle", "waiting", "draining", "done"}]
      /\ handle' \in [Generations -> {"cleanup", "waiter", "taken"}]
      /\ waiter'[g] = "draining" => waiter[g] = "draining"
      /\ \A k \in Generations \ {g} : waiter'[k] = waiter[k]
    BY <1>0 DEF StartWaiter, Types
<1>3. Apart(g)
    BY <1>0, <1>u, <1>1, <1>2 DEF Apart
<1>4. SlotInv(s)'
    <2>1. CASE slot[s].gen = g
        BY <1>0, <1>u, <1>1, <2>1 DEF SlotInv, Early
    <2>2. CASE slot[s].gen # g
        BY <1>u, <1>1, <2>2, SlotKept
    <2> QED
        BY <2>1, <2>2
<1>5. GenInv(g)'
    BY <1>0, <1>u, <1>1, <1>2 DEF GenInv, Holds
<1> QED
    BY <1>0, <1>u, <1>1, <1>2, <1>3, <1>4, <1>5, StartKept DEF Types, Early

-----------------------------------------------------------------------------
(* terminate_cleanup, in an abort and in a close.                          *)

\* A kill ends the child of g or leaves it alone.
LEMMA KillFacts ==
    ASSUME Types, NEW g \in Generations, Kills(g)
    PROVE  /\ child' \in [Generations -> {"none", "alive", "exited"}]
           /\ child'[g] = child[g] \/ (child[g] = "alive" /\ child'[g] = "exited")
           /\ \A k \in Generations \ {g} : child'[k] = child[k]
BY DEF Types, Kills

\* An exit is seen only of a child that has exited.
LEMMA ExitFacts ==
    ASSUME Types, NEW g \in Generations, GenInv(g), ExitSeen(g)
    PROVE  /\ handle' \in [Generations -> {"cleanup", "waiter", "taken"}]
           /\ known \subseteq known' /\ known' \subseteq Generations
           /\ g \in known' /\ child[g] = "exited"
           /\ \A k \in Generations \ {g} : k \in known' <=> k \in known
BY DEF Types, ExitSeen, GenInv

\* An aborted start kills the child that it still owns.
LEMMA AbortStep ==
    ASSUME Inv, NEW g \in Generations, Abort(g)
    PROVE  Inv'
<1>s. PICK s \in Sessions : s = start[g].s
    BY StartFacts DEF Abort, At
<1>0. /\ Types /\ SlotInv(s) /\ GenInv(g) /\ s = start[g].s
      /\ g \in 1 .. MaxGeneration /\ start[g].pc = "abort"
    BY <1>s, StartFacts DEF Abort, At
<1>u. UNCHANGED <<slot, record, issued, handle, known, reader, waiter, output, overdue, exited, call,
                  stopped, retireVars>>
    BY DEF Abort, stateVars, threadVars, closeVars, retireVars
<1>1. PICK p \in {"reap", "done"} :
         /\ Goes(g, p)
         /\ Kills(g) \/ (p = "done" /\ slot[s].gen # g /\ UNCHANGED child)
    BY <1>0, CurrentHolds DEF Abort, Holds
<1>2. /\ start' \in [Generations -> Starts]
      /\ start'[g].pc = p /\ start'[g].s = s /\ \A k \in Generations \ {g} : start'[k] = start[k]
    BY <1>0, <1>1, GoesFacts DEF StartPcs
<1>3. /\ child' \in [Generations -> {"none", "alive", "exited"}]
      /\ child'[g] = child[g] \/ (child[g] = "alive" /\ child'[g] = "exited")
      /\ \A k \in Generations \ {g} : child'[k] = child[k]
    BY <1>0, <1>1, KillFacts DEF Types
<1>4. Apart(g)
    BY <1>0, <1>u, <1>2, <1>3 DEF Apart
<1>5. SlotInv(s)'
    <2>1. CASE slot[s].gen = g
        BY <1>0, <1>u, <1>2, <2>1 DEF SlotInv, Early
    <2>2. CASE slot[s].gen # g
        BY <1>u, <1>2, <2>2, SlotKept
    <2> QED
        BY <2>1, <2>2
<1>6. GenInv(g)'
    BY <1>0, <1>u, <1>2, <1>3 DEF GenInv, Holds
<1> QED
    BY <1>0, <1>u, <1>2, <1>3, <1>4, <1>5, <1>6, StartKept DEF Types, Early

\* The aborted start gives its slot up only when it has seen the child exit.
LEMMA AbortEndsStep ==
    ASSUME Inv, NEW g \in Generations, AbortEnds(g)
    PROVE  Inv'
<1>s. PICK s \in Sessions : s = start[g].s
    BY StartFacts DEF AbortEnds, At
<1>0. /\ Types /\ SlotInv(s) /\ GenInv(g) /\ s = start[g].s
      /\ g \in 1 .. MaxGeneration /\ start[g].pc = "reap"
    BY <1>s, StartFacts DEF AbortEnds, At
<1>u. UNCHANGED <<issued, child, reader, waiter, output, overdue, exited, call, stopped, retireVars>>
    BY DEF AbortEnds, threadVars, closeVars, retireVars
<1>1. /\ start' \in [Generations -> Starts]
      /\ start'[g].pc = "done" /\ start'[g].s = s /\ \A k \in Generations \ {g} : start'[k] = start[k]
    BY <1>0, GoesFacts DEF AbortEnds, StartPcs
<1>2. CASE ExitSeen(g) /\ Releases(g)
    <2>1. /\ handle' \in [Generations -> {"cleanup", "waiter", "taken"}]
          /\ known \subseteq known' /\ known' \subseteq Generations
          /\ g \in known' /\ child[g] = "exited"
          /\ \A k \in Generations \ {g} : k \in known' <=> k \in known
        BY <1>0, <1>2, ExitFacts
    <2>2. /\ slot' \in [Sessions -> Slots] /\ record' \in [Sessions -> Records]
          /\ \A t \in Sessions \ {s} : slot'[t] = slot[t]
          /\ \/ slot[s].gen = g /\ slot'[s] = NoSlot
             \/ slot[s].gen # g /\ slot'[s] = slot[s]
        BY <1>0, <1>2, ReleaseFacts
    <2>3. Apart(g)
        BY <1>0, <1>u, <1>1, <2>1, <2>2 DEF Apart, NoSlot
    <2>4. SlotInv(s)'
        BY <1>1, <2>2, SlotKept
    <2>5. GenInv(g)'
        BY <1>0, <1>u, <1>1, <2>1, <2>2 DEF GenInv, Holds, NoSlot
    <2> QED
        BY <1>0, <1>u, <1>1, <2>1, <2>2, <2>3, <2>4, <2>5, StartKept DEF Types, Early
<1>3. CASE UNCHANGED <<stateVars, handle, known>>
    <2>1. UNCHANGED <<slot, record, handle, known>>
        BY <1>3 DEF stateVars
    <2>2. Apart(g)
        BY <1>0, <1>u, <1>1, <2>1 DEF Apart
    <2>3. SlotInv(s)'
        <3>1. CASE slot[s].gen = g
            BY <1>0, <1>1, <2>1, <3>1 DEF SlotInv, Early
        <3>2. CASE slot[s].gen # g
            BY <1>1, <2>1, <3>2, SlotKept
        <3> QED
            BY <3>1, <3>2
    <2>4. GenInv(g)'
        BY <1>0, <1>u, <1>1, <2>1 DEF GenInv, Holds
    <2> QED
        BY <1>0, <1>u, <1>1, <2>1, <2>2, <2>3, <2>4, StartKept DEF Types, Early
<1> QED
    BY <1>2, <1>3 DEF AbortEnds

-----------------------------------------------------------------------------
(* The child and its threads.                                              *)

\* What is left to show of a step of a thread or of the child of g: its types and
\* its generation.
LEMMA ThreadKept ==
    ASSUME Inv, NEW g \in Generations,
           UNCHANGED <<start, issued, call, stopped, retireVars>>,
           slot' = slot \/ (Holds(g) /\ slot' = [slot EXCEPT ![start[g].s] = NoSlot]),
           record' \in [Sessions -> Records],
           child' \in [Generations -> {"none", "alive", "exited"}],
           handle' \in [Generations -> {"cleanup", "waiter", "taken"}],
           known \subseteq known', known' \subseteq Generations,
           reader' \in [Generations -> {"idle", "reading", "publishing", "done", "failed"}],
           waiter' \in [Generations -> {"idle", "waiting", "draining", "done"}],
           output' \in [Generations -> Nat], exited' \subseteq Generations,
           overdue' \subseteq Generations,
           \A k \in Generations \ {g} :
              /\ child'[k] = child[k]
              /\ reader'[k] = reader[k] /\ waiter'[k] = waiter[k] /\ output'[k] = output[k]
              /\ k \in known' <=> k \in known
              /\ (k \in exited' <=> k \in exited) /\ (k \in overdue' <=> k \in overdue),
           child'[g] = "alive" => child[g] = "alive",
           GenInv(g)'
    PROVE  Inv'
<1>1. Types
    BY DEF Inv
<1>2. slot' \in [Sessions -> Slots]
    <2>1. NoSlot \in Slots
        BY TerminalAssumption DEF Slots, NoSlot
    <2> QED
        BY <1>1, <2>1 DEF Types, Holds
<1>3. Types'
    BY <1>1, <1>2 DEF Types, retireVars
<1>4. ASSUME NEW t \in Sessions PROVE SlotInv(t)'
    <2>1. slot'[t] = slot[t] \/ slot'[t] = NoSlot
        BY <1>1 DEF Types, Holds
    <2> QED
        BY <2>1 DEF Inv, SlotInv, NoSlot
<1>5. ASSUME NEW k \in Generations PROVE GenInv(k)'
    <2>1. CASE k = g
        BY <2>1
    <2>2. CASE k # g
        <3>1. k # 0
            BY TerminalAssumption DEF Generations
        <3>2. start[k].s \in Sessions /\ (slot[start[k].s].gen = k \/ slot'[start[k].s].gen = k)
                 => slot'[start[k].s] = slot[start[k].s]
            BY <1>1, <2>2, <3>1 DEF Types, Holds, NoSlot
        <3> QED
            BY <2>2, <3>2, GenFrame DEF Inv
    <2> QED
        BY <2>1, <2>2
<1>6. ASSUME NEW c \in Calls PROVE CallInv(c)'
    BY CallKept
<1>7. RetireInv'
    <2>1. \A t \in Sessions : slot'[t].gen \in {0, slot[t].gen} /\ (slot[t].kind = "none" => slot'[t].kind = "none")
        BY <1>1 DEF Types, Holds, NoSlot
    <2> QED
        BY <2>1, RetireFrame
<1> QED
    BY <1>3, <1>4, <1>5, <1>6, <1>7 DEF Inv

\* A piece of output that was read is published next.
LEMMA ReaderReadsStep ==
    ASSUME Inv, NEW g \in Generations, ReaderReads(g)
    PROVE  Inv'
<1>0. Types /\ GenInv(g) /\ reader[g] = "reading"
    BY DEF Inv, ReaderReads
<1>u. UNCHANGED <<slot, record, start, issued, child, handle, known, waiter, output, overdue, exited, call,
                  stopped, retireVars>>
    BY DEF ReaderReads, stateVars, startVars, childVars, closeVars, retireVars
<1>1. PICK p \in {"done", "publishing"} :
         /\ reader' = [reader EXCEPT ![g] = p]
         /\ p = "publishing" => output[g] > 0
         /\ p = "done" => ~(Holds(g) /\ slot[start[g].s].kind = "running")
                          \/ (output[g] = 0 /\ child[g] = "exited")
    BY CurrentHolds DEF ReaderReads, RunningAt
<1>2. /\ reader' \in [Generations -> {"idle", "reading", "publishing", "done", "failed"}]
      /\ reader'[g] = p /\ \A k \in Generations \ {g} : reader'[k] = reader[k]
    BY <1>0, <1>1 DEF Types
<1>3. GenInv(g)'
    BY <1>0, <1>u, <1>1, <1>2 DEF GenInv, Holds
<1> QED
    BY <1>0, <1>u, <1>2, <1>3, ThreadKept DEF Types

\* It is published before the reader ends.
LEMMA ReaderPublishesStep ==
    ASSUME Inv, NEW g \in Generations, ReaderPublishes(g)
    PROVE  Inv'
<1>0. Types /\ GenInv(g) /\ reader[g] = "publishing" /\ output[g] \in Nat /\ output[g] > 0
    BY DEF Inv, Types, GenInv, ReaderPublishes
<1>u. UNCHANGED <<slot, record, start, issued, child, handle, known, waiter, overdue, exited, call,
                  stopped, retireVars>>
    BY DEF ReaderPublishes, stateVars, startVars, childVars, closeVars, retireVars
<1>1. /\ reader' \in [Generations -> {"idle", "reading", "publishing", "done", "failed"}]
      /\ reader'[g] = "reading" /\ \A k \in Generations \ {g} : reader'[k] = reader[k]
    BY <1>0 DEF Types, ReaderPublishes
<1>2. /\ output' \in [Generations -> Nat]
      /\ \A k \in Generations \ {g} : output'[k] = output[k]
    BY <1>0 DEF Types, ReaderPublishes
<1>3. GenInv(g)'
    BY <1>0, <1>u, <1>1 DEF GenInv, Holds
<1> QED
    BY <1>0, <1>u, <1>1, <1>2, <1>3, ThreadKept DEF Types

\* A snapshot whose state is set again.
LEMMA RecordSet ==
    ASSUME NEW r \in Records, NEW st \in {"running", "failed", "ended"}
    PROVE  [r EXCEPT !.st = st, !.rev = @ + 1] \in Records
<1>1. [r EXCEPT !.st = st] \in Records
    BY DEF Records
<1>2. [r EXCEPT !.st = st, !.rev = @ + 1] = [[r EXCEPT !.st = st] EXCEPT !.rev = r.rev + 1]
    BY DEF Records
<1>3. r.rev + 1 \in Nat
    BY DEF Records
<1>4. \A q \in Records, m \in Nat : [q EXCEPT !.rev = m] \in Records
    BY DEF Records
<1> QED
    BY <1>1, <1>2, <1>3, <1>4

\* RecordsError changes at most the state of one snapshot.
LEMMA ErrorFacts ==
    ASSUME Inv, NEW g \in Generations, RecordsError(g)
    PROVE  record' \in [Sessions -> Records]
<1>1. Types
    BY DEF Inv
<1>2. CASE UNCHANGED record
    BY <1>1, <1>2 DEF Types
<1>3. CASE RunningAt(g) /\ RecordIs(start[g].s, [record[start[g].s] EXCEPT !.st = "failed", !.rev = @ + 1])
    <2>1. start[g].s \in Sessions
        BY <1>3, CurrentHolds DEF RunningAt, Holds
    <2>2. [record[start[g].s] EXCEPT !.st = "failed", !.rev = @ + 1] \in Records
        BY <1>1, <2>1, RecordSet DEF Types
    <2> QED
        BY <1>1, <1>3, <2>2 DEF Types, RecordIs
<1> QED
    BY <1>2, <1>3 DEF RecordsError

\* A reader that fails publishes nothing any more.
LEMMA ReaderFailsStep ==
    ASSUME Inv, NEW g \in Generations, ReaderFails(g)
    PROVE  Inv'
<1>0. Types /\ GenInv(g) /\ reader[g] = "reading" /\ record' \in [Sessions -> Records]
    BY ErrorFacts DEF Inv, ReaderFails
<1>u. UNCHANGED <<slot, start, issued, child, handle, known, waiter, output, overdue, exited, call,
                  stopped, retireVars>>
    BY DEF ReaderFails, startVars, childVars, closeVars, retireVars
<1>1. /\ reader' \in [Generations -> {"idle", "reading", "publishing", "done", "failed"}]
      /\ reader'[g] = "failed" /\ \A k \in Generations \ {g} : reader'[k] = reader[k]
    BY <1>0 DEF Types, ReaderFails
<1>2. GenInv(g)'
    BY <1>0, <1>u, <1>1 DEF GenInv, Holds
<1> QED
    BY <1>0, <1>u, <1>1, <1>2, ThreadKept DEF Types

\* The waiter returns with the exit of the child, or gives the child back.
LEMMA WaiterWakesStep ==
    ASSUME Inv, NEW g \in Generations, WaiterWakes(g)
    PROVE  Inv'
<1>0. Types /\ GenInv(g)
    BY DEF Inv
<1>u. UNCHANGED <<slot, start, issued, child, reader, output, overdue, exited, call, stopped, retireVars>>
    BY DEF WaiterWakes, startVars, closeVars, retireVars
<1>1. CASE /\ child[g] = "exited"
           /\ known' = known \cup {g} /\ waiter' = [waiter EXCEPT ![g] = "draining"]
           /\ UNCHANGED <<handle, record>>
    <2>1. /\ waiter' \in [Generations -> {"idle", "waiting", "draining", "done"}]
          /\ \A k \in Generations \ {g} : waiter'[k] = waiter[k]
        BY <1>0, <1>1 DEF Types
    <2>2. GenInv(g)'
        BY <1>0, <1>u, <1>1 DEF GenInv, Holds
    <2> QED
        BY <1>0, <1>u, <1>1, <2>1, <2>2, ThreadKept DEF Types
<1>2. CASE /\ handle' = [handle EXCEPT ![g] = "cleanup"] /\ waiter' = [waiter EXCEPT ![g] = "done"]
           /\ RecordsError(g)
           /\ UNCHANGED known
    <2>1. /\ waiter' \in [Generations -> {"idle", "waiting", "draining", "done"}]
          /\ handle' \in [Generations -> {"cleanup", "waiter", "taken"}]
          /\ waiter'[g] = "done" /\ \A k \in Generations \ {g} : waiter'[k] = waiter[k]
        BY <1>0, <1>2 DEF Types
    <2>2. GenInv(g)'
        BY <1>0, <1>u, <1>2, <2>1 DEF GenInv, Holds
    <2>3. record' \in [Sessions -> Records]
        BY <1>2, ErrorFacts
    <2> QED
        BY <1>0, <1>u, <1>2, <2>1, <2>2, <2>3, ThreadKept DEF Types
<1> QED
    BY <1>1, <1>2 DEF WaiterWakes

\* A waiter that stops waiting for the reader.
LEMMA DrainTimesOutStep ==
    ASSUME Inv, NEW g \in Generations, DrainTimesOut(g)
    PROVE  Inv'
<1>0. Types /\ GenInv(g)
    BY DEF Inv
<1>u. UNCHANGED <<slot, record, start, issued, child, handle, known, reader, waiter, output, exited,
                  call, stopped, retireVars>>
    BY DEF DrainTimesOut, stateVars, startVars, childVars, closeVars, retireVars
<1>1. overdue' = overdue \cup {g}
    BY DEF DrainTimesOut
<1>2. GenInv(g)'
    BY <1>0, <1>u, <1>1 DEF GenInv, Holds
<1> QED
    BY <1>0, <1>u, <1>1, <1>2, ThreadKept DEF Types

\* The exit is published when the reader is done or overdue, and the slot is left to later generations.
LEMMA FinalizeExitStep ==
    ASSUME Inv, NEW g \in Generations, FinalizeExit(g)
    PROVE  Inv'
<1>0. /\ Types /\ GenInv(g) /\ waiter[g] = "draining"
      /\ reader[g] \in {"done", "failed"} \/ g \in overdue
    BY DEF Inv, FinalizeExit, Drained
<1>u. UNCHANGED <<start, issued, child, handle, known, reader, output, overdue, call, stopped, retireVars>>
    BY DEF FinalizeExit, startVars, childVars, closeVars, retireVars
<1>1. /\ waiter' \in [Generations -> {"idle", "waiting", "draining", "done"}]
      /\ waiter'[g] = "done" /\ \A k \in Generations \ {g} : waiter'[k] = waiter[k]
    BY <1>0 DEF Types, FinalizeExit
<1>2. CASE /\ RunningAt(g)
           /\ SlotIs(start[g].s, NoSlot)
           /\ RecordIs(start[g].s, [record[start[g].s] EXCEPT !.st = "ended", !.rev = @ + 1])
           /\ exited' = exited \cup {g}
    <2>1. start[g].s \in Sessions /\ Holds(g) /\ slot[start[g].s].kind = "running"
        BY <1>2, CurrentHolds DEF RunningAt, Holds
    <2>2. record' \in [Sessions -> Records]
        <3>1. [record[start[g].s] EXCEPT !.st = "ended", !.rev = @ + 1] \in Records
            BY <1>0, <2>1, RecordSet DEF Types
        <3> QED
            BY <1>0, <1>2, <3>1 DEF Types, RecordIs
    <2>3. g \in overdue \/ reader[g] = "failed" \/ (reader[g] = "done" /\ output[g] = 0)
        BY <1>0, <2>1 DEF GenInv
    <2>4. slot' = [slot EXCEPT ![start[g].s] = NoSlot] /\ slot'[start[g].s] = NoSlot
        BY <1>0, <1>2, <2>1 DEF SlotIs, Types
    <2>5. GenInv(g)'
        <3>1. ~Holds(g)' /\ child[g] = "exited" /\ start' = start /\ waiter'[g] = "done"
            BY <1>0, <1>u, <1>1, <2>4, TerminalAssumption DEF GenInv, Holds, NoSlot, Generations
        <3>2. g \in exited' => g \in overdue' \/ reader'[g] = "failed" \/ (reader'[g] = "done" /\ output'[g] = 0)
            BY <1>u, <2>3
        <3>3. start[g].pc \notin {"reserved", "spawned"}
            BY <1>0, <2>1 DEF GenInv
        <3> QED
            BY <1>0, <1>u, <3>1, <3>2, <3>3 DEF GenInv
    <2> QED
        BY <1>0, <1>u, <1>1, <1>2, <2>1, <2>2, <2>4, <2>5, ThreadKept DEF Types
<1>3. CASE UNCHANGED <<stateVars, exited>>
    <2>1. UNCHANGED <<slot, record, exited>>
        BY <1>3 DEF stateVars
    <2>2. GenInv(g)'
        BY <1>0, <1>u, <1>1, <2>1 DEF GenInv, Holds
    <2> QED
        BY <1>0, <1>u, <1>1, <2>1, <2>2, ThreadKept DEF Types
<1> QED
    BY <1>2, <1>3 DEF FinalizeExit

\* Only a living child writes.
LEMMA ChildWritesStep ==
    ASSUME Inv, NEW g \in Generations, ChildWrites(g)
    PROVE  Inv'
<1>0. Types /\ GenInv(g) /\ child[g] = "alive" /\ output[g] \in Nat
    BY DEF Inv, Types, ChildWrites
<1>u. UNCHANGED <<slot, record, start, issued, child, handle, known, reader, waiter, overdue, exited, call,
                  stopped, retireVars>>
    BY DEF ChildWrites, stateVars, startVars, childVars, closeVars, retireVars
<1>1. /\ output' \in [Generations -> Nat] /\ output'[g] = output[g] + 1
      /\ \A k \in Generations \ {g} : output'[k] = output[k]
    BY <1>0 DEF Types, ChildWrites
<1>2. GenInv(g)'
    BY <1>0, <1>u, <1>1 DEF GenInv, Holds
<1> QED
    BY <1>0, <1>u, <1>1, <1>2, ThreadKept DEF Types

\* An exited child stays known until somebody reaps it.
LEMMA ChildExitsStep ==
    ASSUME Inv, NEW g \in Generations, ChildExits(g)
    PROVE  Inv'
<1>0. Types /\ GenInv(g) /\ child[g] = "alive"
    BY DEF Inv, ChildExits
<1>u. UNCHANGED <<slot, record, start, issued, handle, known, reader, waiter, output, overdue, exited, call,
                  stopped, retireVars>>
    BY DEF ChildExits, stateVars, startVars, threadVars, closeVars, retireVars
<1>1. /\ child' \in [Generations -> {"none", "alive", "exited"}]
      /\ child'[g] = "exited" /\ \A k \in Generations \ {g} : child'[k] = child[k]
    BY <1>0 DEF Types, ChildExits
<1>2. GenInv(g)'
    BY <1>0, <1>u, <1>1 DEF GenInv, Holds
<1> QED
    BY <1>0, <1>u, <1>1, <1>2, ThreadKept DEF Types

-----------------------------------------------------------------------------
(* close.                                                                  *)

\* A call of close goes on to p.
LEMMA CallMoves ==
    ASSUME Types, NEW c \in Calls, NEW p \in CallPcs, call' = [call EXCEPT ![c].pc = p]
    PROVE  /\ call' \in [Calls -> CallRecords]
           /\ call'[c].pc = p /\ call'[c].s = call[c].s /\ call'[c].gen = call[c].gen
           /\ \A d \in Calls \ {c} : call'[d] = call[d]
BY DEF Types, CallRecords

\* What is left to show of a step of a close: its types, the slots, the children,
\* its own call, and the retirement it may be part of.
LEMMA CloseKept ==
    ASSUME Inv, NEW c \in Calls,
           UNCHANGED <<start, issued, reader, waiter, output, overdue, exited, barred, stopped>>,
           retiring' \in {"idle", "waiting", "closing", "failing", "failed", "retired"},
           slot' \in [Sessions -> Slots], record' \in [Sessions -> Records],
           child' \in [Generations -> {"none", "alive", "exited"}],
           handle' \in [Generations -> {"cleanup", "waiter", "taken"}],
           known \subseteq known', known' \subseteq Generations, toClose' \subseteq Sessions,
           call' \in [Calls -> CallRecords], \A d \in Calls \ {c} : call'[d] = call[d],
           \A s \in Sessions : SlotInv(s)', \A g \in Generations : GenInv(g)',
           CallInv(c)', RetireInv'
    PROVE  Inv'
<1>1. Types'
    BY DEF Inv, Types
<1>2. ASSUME NEW d \in Calls PROVE CallInv(d)'
    BY CallKept
<1> QED
    BY <1>1, <1>2 DEF Inv

\* A request to close a session leaves to its slot the generation and the state it has.
LEMMA CloseRequestStep ==
    ASSUME Inv, NEW c \in Calls, NEW s \in Sessions, Close(c, s)
    PROVE  Inv'
<1>0. Types /\ SlotInv(s) /\ RetireInv /\ MaxGeneration \in Nat
      /\ slot[s] \in Slots /\ call[c].pc = "idle"
    BY TerminalAssumption DEF Inv, Types, Close
<1>u. /\ UNCHANGED <<start, issued, child, handle, known, reader, waiter, output, overdue, exited, barred,
                     retiring, toClose, stopped>>
      /\ c = "retire" => retiring \in {"closing", "failing"} /\ s \in toClose
    BY DEF Close, startVars, childVars, threadVars, closeVars, retireVars
<1>1. PICK v \in CallRecords :
         /\ call' = [call EXCEPT ![c] = v] /\ v.s = s
         /\ \/ v.pc = "kill" /\ v.gen = slot[s].gen /\ (slot[s].cleanup \/ slot[s].kind = "running")
            \/ v.pc \in {"ok", "error"} /\ (slot[s].kind = "none" \/ (slot[s].kind = "starting" /\ ~slot[s].cleanup))
    <2>1. \A p \in {"kill", "ok", "error"}, n \in 0 .. MaxGeneration : [pc |-> p, s |-> s, gen |-> n] \in CallRecords
        BY DEF CallRecords, CallPcs
    <2>2. slot[s].gen \in 0 .. MaxGeneration /\ 0 \in 0 .. MaxGeneration
          /\ slot[s].kind \in {"none", "starting", "running"} /\ slot[s].cleanup \in BOOLEAN
        BY <1>0 DEF Slots
    <2>3. CASE slot[s].kind = "starting"
        BY <2>1, <2>2, <2>3 DEF Close
    <2>4. CASE slot[s].kind = "running"
        BY <2>1, <2>2, <2>4 DEF Close
    <2>5. CASE slot[s].kind = "none"
        BY <2>1, <2>2, <2>5 DEF Close
    <2> QED
        BY <2>2, <2>3, <2>4, <2>5
<1>2. call' \in [Calls -> CallRecords] /\ call'[c] = v /\ \A d \in Calls \ {c} : call'[d] = call[d]
    BY <1>0, <1>1 DEF Types
<1>3. record' \in [Sessions -> Records]
    <2>1. NoRecord \in Records
        BY <1>0 DEF Records, NoRecord
    <2> QED
        BY <1>0, <2>1 DEF Close, Types, RecordIs, stateVars
<1>4. /\ slot' \in [Sessions -> Slots]
      /\ \A t \in Sessions : /\ slot'[t].gen = slot[t].gen /\ slot'[t].kind = slot[t].kind
                             /\ slot'[t].cleanup = slot[t].cleanup
                             /\ slot'[t] = slot[t] \/ slot[t].kind = "starting"
    <2>1. CASE slot[s].kind = "starting" /\ slot' = [slot EXCEPT ![s].close = TRUE]
        <3>1. [slot[s] EXCEPT !.close = TRUE] \in Slots
            BY <1>0, SlotFlags
        <3>2. slot' = [slot EXCEPT ![s] = [slot[s] EXCEPT !.close = TRUE]]
            BY <2>1
        <3>3. [slot[s] EXCEPT !.close = TRUE].gen = slot[s].gen
              /\ [slot[s] EXCEPT !.close = TRUE].kind = slot[s].kind
              /\ [slot[s] EXCEPT !.close = TRUE].cleanup = slot[s].cleanup
            BY <1>0 DEF Slots
        <3> QED
            BY <1>0, <2>1, <3>1, <3>2, <3>3 DEF Types
    <2>2. CASE UNCHANGED slot
        BY <1>0, <2>2 DEF Types
    <2> QED
        BY <2>1, <2>2 DEF Close, stateVars
<1>5. ASSUME NEW t \in Sessions PROVE SlotInv(t)'
    BY <1>0, <1>u, <1>4 DEF Inv, SlotInv, NoSlot
<1>6. ASSUME NEW g \in Generations PROVE GenInv(g)'
    BY <1>u, <1>4 DEF Inv, GenInv, Holds
<1>7. CallInv(c)'
    <2>1. v.pc = "kill" => v.gen \in Generations /\ start[v.gen].pc \notin Early /\ start[v.gen].s = s
        <3>1. v.pc = "kill" => slot[s].gen # 0 /\ slot[s].gen \in 0 .. MaxGeneration
            BY <1>0, <1>1 DEF SlotInv, NoSlot, Slots
        <3> QED
            BY <1>0, <1>1, <3>1 DEF SlotInv, Generations, Early
    <2> QED
        BY <1>u, <1>1, <1>2, <2>1 DEF CallInv
<1>8. RetireInv'
    <2>1. Leased' = Leased /\ Active' = Active
        BY <1>u, <1>4 DEF Leased, Active
    <2>2. CASE c # "retire"
        <3>1. call["retire"].pc # "idle" => call["retire"].s \in Sessions
            BY DEF Inv, CallInv, Calls
        <3>2. call'["retire"] = call["retire"]
            BY <1>2, <2>2 DEF Calls
        <3> QED
            BY <1>0, <1>u, <1>4, <2>1, <3>1, <3>2 DEF RetireInv
    <2>3. CASE c = "retire"
        <3>1. Leased = {} /\ retiring \in {"closing", "failing"}
            BY <1>0, <1>u, <2>3 DEF RetireInv
        <3>2. slot[s].kind = "starting" => slot[s].cleanup
            <4>1. slot[s].gen # 0 => slot[s].gen \in Generations
                BY <1>0 DEF Slots, Generations
            <4> QED
                BY <1>0, <3>1, <4>1 DEF SlotInv, Leased, Early
        <3>3. v.pc \in {"kill", "ok", "error"} /\ (v.pc = "kill" => v.gen = slot[s].gen)
              /\ (v.pc = "ok" => slot[s].kind = "none") /\ v.s = s
            BY <1>1, <3>2
        <3> QED
            BY <1>0, <1>u, <1>2, <1>4, <2>1, <2>3, <3>1, <3>3 DEF RetireInv
    <2> QED
        BY <2>2, <2>3
<1> QED
    BY <1>0, <1>u, <1>2, <1>3, <1>4, <1>5, <1>6, <1>7, <1>8, CloseKept DEF Types

\* A close kills the child of the generation that it is about.
LEMMA CloseKillsStep ==
    ASSUME Inv, NEW c \in Calls, CloseKills(c)
    PROVE  Inv'
<1>g. PICK g \in Generations : g = call[c].gen /\ start[g].pc \notin Early
    BY DEF Inv, CallInv, CloseKills
<1>0. Types /\ CallInv(c) /\ GenInv(g) /\ RetireInv /\ call[c].pc = "kill"
    BY DEF Inv, CloseKills
<1>u. UNCHANGED <<slot, record, start, issued, handle, known, reader, waiter, output, overdue, exited, barred,
                  retiring, toClose, stopped>>
    BY DEF CloseKills, stateVars, startVars, threadVars, closeVars, retireVars
<1>1. /\ child' \in [Generations -> {"none", "alive", "exited"}]
      /\ child'[g] = child[g] \/ (child[g] = "alive" /\ child'[g] = "exited")
      /\ \A k \in Generations \ {g} : child'[k] = child[k]
    BY <1>g, <1>0, KillFacts DEF CloseKills
<1>2. /\ call' \in [Calls -> CallRecords]
      /\ call'[c].pc = "reap" /\ call'[c].s = call[c].s /\ call'[c].gen = call[c].gen
      /\ \A d \in Calls \ {c} : call'[d] = call[d]
    BY <1>0, CallMoves DEF CloseKills, CallPcs
<1>3. ASSUME NEW t \in Sessions PROVE SlotInv(t)'
    BY <1>u DEF Inv, SlotInv
<1>4. ASSUME NEW k \in Generations PROVE GenInv(k)'
    BY <1>g, <1>u, <1>1 DEF Inv, GenInv, Holds, Early
<1>5. CallInv(c)'
    BY <1>g, <1>0, <1>u, <1>2 DEF CallInv
<1>6. RetireInv'
    <2>1. Leased' = Leased /\ Active' = Active
        BY <1>u DEF Leased, Active
    <2>2. "retire" \in Calls
        BY DEF Calls
    <2> QED
        BY <1>0, <1>u, <1>1, <1>2, <2>1, <2>2 DEF RetireInv
<1> QED
    BY <1>0, <1>u, <1>1, <1>2, <1>3, <1>4, <1>5, <1>6, CloseKept DEF Types

\* It reaps that child, or reports that the exit was not seen.
LEMMA CloseReapsStep ==
    ASSUME Inv, NEW c \in Calls, CloseReaps(c)
    PROVE  Inv'
<1>g. PICK g \in Generations : g = call[c].gen /\ start[g].pc \notin Early
    BY DEF Inv, CallInv, CloseReaps
<1>0. Types /\ CallInv(c) /\ GenInv(g) /\ RetireInv /\ call[c].pc = "reap"
    BY DEF Inv, CloseReaps
<1>u. UNCHANGED <<slot, record, start, issued, child, reader, waiter, output, overdue, exited, barred,
                  retiring, toClose, stopped>>
    BY DEF CloseReaps, stateVars, startVars, threadVars, closeVars, retireVars
<1>1. PICK p \in {"remove", "error"} :
         /\ call' = [call EXCEPT ![c].pc = p]
         /\ ExitSeen(g) \/ (p = "error" /\ UNCHANGED <<handle, known>>)
    BY <1>g DEF CloseReaps
<1>2. /\ handle' \in [Generations -> {"cleanup", "waiter", "taken"}]
      /\ known \subseteq known' /\ known' \subseteq Generations
      /\ g \in known' => g \in known \/ child[g] = "exited"
      /\ p = "remove" => g \in known'
      /\ \A k \in Generations \ {g} : k \in known' <=> k \in known
    <2>1. CASE ExitSeen(g)
        BY <1>0, <2>1, ExitFacts
    <2>2. CASE p = "error" /\ UNCHANGED <<handle, known>>
        BY <1>0, <2>2 DEF Types
    <2> QED
        BY <1>1, <2>1, <2>2
<1>3. /\ call' \in [Calls -> CallRecords]
      /\ call'[c].pc = p /\ call'[c].s = call[c].s /\ call'[c].gen = call[c].gen
      /\ \A d \in Calls \ {c} : call'[d] = call[d]
    BY <1>0, <1>1, CallMoves DEF CallPcs
<1>4. ASSUME NEW t \in Sessions PROVE SlotInv(t)'
    BY <1>u DEF Inv, SlotInv
<1>5. ASSUME NEW k \in Generations PROVE GenInv(k)'
    BY <1>g, <1>u, <1>2 DEF Inv, GenInv, Holds
<1>6. CallInv(c)'
    BY <1>g, <1>0, <1>u, <1>2, <1>3 DEF CallInv
<1>7. RetireInv'
    <2>1. Leased' = Leased /\ Active' = Active
        BY <1>u DEF Leased, Active
    <2>2. "retire" \in Calls
        BY DEF Calls
    <2> QED
        BY <1>0, <1>u, <1>3, <2>1, <2>2 DEF RetireInv
<1> QED
    BY <1>0, <1>u, <1>2, <1>3, <1>4, <1>5, <1>6, <1>7, CloseKept DEF Types

\* The exit was seen, so no child is forgotten with the slot.
LEMMA CloseRemovesStep ==
    ASSUME Inv, NEW c \in Calls, CloseRemoves(c)
    PROVE  Inv'
<1>g. PICK g \in Generations, s \in Sessions :
         /\ g = call[c].gen /\ s = call[c].s
         /\ start[g].pc \notin Early /\ g \in known
    BY DEF Inv, CallInv, CloseRemoves
<1>0. Types /\ CallInv(c) /\ GenInv(g) /\ RetireInv /\ call[c].pc = "remove" /\ child[g] = "exited" /\ g # 0
    BY <1>g, TerminalAssumption DEF Inv, CloseRemoves, GenInv, Generations
<1>u. UNCHANGED <<start, issued, child, handle, known, reader, waiter, output, overdue, exited, barred,
                  retiring, toClose, stopped>>
    BY DEF CloseRemoves, startVars, childVars, threadVars, closeVars, retireVars
<1>1. /\ call' \in [Calls -> CallRecords]
      /\ call'[c].pc = "ok" /\ call'[c].s = s /\ call'[c].gen = g
      /\ \A d \in Calls \ {c} : call'[d] = call[d]
    BY <1>g, <1>0, CallMoves DEF CloseRemoves, CallPcs
<1>2. /\ slot' \in [Sessions -> Slots] /\ record' \in [Sessions -> Records]
      /\ \A t \in Sessions \ {s} : slot'[t] = slot[t]
      /\ \/ slot[s].gen = g /\ slot'[s] = NoSlot
         \/ slot[s].gen # g /\ slot'[s] = slot[s]
    <2>1. NoSlot \in Slots /\ NoRecord \in Records
        BY TerminalAssumption DEF Slots, Records, NoSlot, NoRecord
    <2>2. CASE slot[s].gen = g
        BY <1>g, <1>0, <2>1, <2>2 DEF CloseRemoves, Types, SlotIs, RecordIs
    <2>3. CASE slot[s].gen # g
        BY <1>g, <1>0, <2>3 DEF CloseRemoves, Types, stateVars
    <2> QED
        BY <2>2, <2>3
<1>3. ASSUME NEW t \in Sessions PROVE SlotInv(t)'
    BY <1>u, <1>2 DEF Inv, SlotInv, NoSlot
<1>4. ASSUME NEW k \in Generations PROVE GenInv(k)'
    <2>1. CASE k = g
        BY <1>g, <1>0, <1>u, <1>2, <2>1 DEF GenInv, Holds, NoSlot, Early
    <2>2. CASE k # g
        <3>1. k # 0
            BY TerminalAssumption DEF Generations
        <3>2. start[k].s \in Sessions /\ (slot[start[k].s].gen = k \/ slot'[start[k].s].gen = k)
                 => slot'[start[k].s] = slot[start[k].s]
            BY <1>2, <2>2, <3>1 DEF NoSlot
        <3> QED
            BY <1>u, <3>2, GenFrame DEF Inv
    <2> QED
        BY <2>1, <2>2
<1>5. CallInv(c)'
    BY <1>g, <1>0, <1>u, <1>1 DEF CallInv
<1>6. RetireInv'
    <2>1. Leased' = Leased /\ Active' \subseteq Active
        BY <1>u, <1>2 DEF Leased, Active, NoSlot
    <2>2. \A t \in Sessions : slot'[t].gen \in {0, slot[t].gen} /\ (slot[t].kind = "none" => slot'[t].kind = "none")
        BY <1>2 DEF NoSlot
    <2>3. CASE c = "retire"
        <3>1. retiring = "closing" => slot'[s].kind = "none"
            BY <1>g, <1>0, <1>2, <2>3 DEF RetireInv, Inv, SlotInv, NoSlot
        <3> QED
            BY <1>0, <1>u, <1>1, <2>1, <2>3, <3>1 DEF RetireInv
    <2>4. CASE c # "retire"
        <3>1. call'["retire"] = call["retire"]
            BY <1>1, <2>4 DEF Calls
        <3> QED
            BY <1>u, <2>2, <3>1, RetireFrame DEF retireVars
    <2> QED
        BY <2>3, <2>4
<1> QED
    BY <1>0, <1>u, <1>1, <1>2, <1>3, <1>4, <1>5, <1>6, CloseKept DEF Types

\* It returns, and a retirement goes on with its next session.
LEMMA CloseReturnsStep ==
    ASSUME Inv, NEW c \in Calls, CloseReturns(c)
    PROVE  Inv'
<1>0. Types /\ RetireInv /\ call[c].pc \in {"ok", "error"} /\ "retire" \in Calls
    BY DEF Inv, CloseReturns, Calls
<1>u. UNCHANGED <<slot, record, start, issued, child, handle, known, reader, waiter, output, overdue, exited,
                  barred, stopped>>
    BY DEF CloseReturns, stateVars, startVars, childVars, threadVars, closeVars
<1>1. call' \in [Calls -> CallRecords] /\ call'[c] = NoCall /\ \A d \in Calls \ {c} : call'[d] = call[d]
    <2>1. NoCall \in CallRecords
        BY TerminalAssumption DEF CallRecords, NoCall, CallPcs
    <2> QED
        BY <1>0, <2>1 DEF Types, CloseReturns
<1>2. toClose' \subseteq Sessions /\ retiring' \in {"idle", "waiting", "closing", "failing", "failed", "retired"}
    BY <1>0 DEF CloseReturns, Types
<1>3. ASSUME NEW t \in Sessions PROVE SlotInv(t)'
    BY <1>u DEF Inv, SlotInv
<1>4. ASSUME NEW k \in Generations PROVE GenInv(k)'
    BY <1>u DEF Inv, GenInv, Holds
<1>5. CallInv(c)'
    BY <1>1 DEF CallInv, NoCall
<1>6. RetireInv'
    <2>1. Leased' = Leased /\ Active' = Active
        BY <1>u DEF Leased, Active
    <2>2. CASE c = "retire"
        <3>1. call["retire"].pc = "ok" /\ retiring = "closing" => Active \subseteq toClose'
            BY <1>0, <2>2 DEF RetireInv, CloseReturns, Active
        <3>2. retiring' = (IF call[c].pc = "error" THEN "failing" ELSE retiring) /\ retiring \in {"closing", "failing"}
            BY <1>0, <2>2 DEF RetireInv, CloseReturns
        <3> QED
            BY <1>0, <1>u, <1>1, <2>1, <2>2, <3>1, <3>2 DEF RetireInv, NoCall
    <2>3. CASE c # "retire"
        BY <1>0, <1>u, <1>1, <2>1, <2>3 DEF RetireInv, CloseReturns
    <2> QED
        BY <2>2, <2>3
<1> QED
    BY <1>0, <1>u, <1>1, <1>2, <1>3, <1>4, <1>5, <1>6, CloseKept DEF Types

-----------------------------------------------------------------------------
(* retire_host and stop_all.                                               *)

\* A retirement waits for the starts, collects the sessions, and ends when all are
\* closed.
LEMMA RetireStepKeeps ==
    ASSUME Inv, RetireStep
    PROVE  Inv'
<1>0. Types /\ RetireInv
    BY DEF Inv
<1>u. UNCHANGED <<slot, record, start, issued, child, handle, known, reader, waiter, output, overdue, exited,
                  call, stopped>>
    BY DEF RetireStep, RetireHost, RetireCollects, RetireTimesOut, RetireEnds, RestoreHost,
           stateVars, startVars, childVars, threadVars, closeVars
<1>1. Types'
    <2>1. /\ toClose' \subseteq Sessions /\ barred' \in BOOLEAN
          /\ retiring' \in {"idle", "waiting", "closing", "failing", "failed", "retired"}
        BY <1>0 DEF Types, RetireStep, RetireHost, RetireCollects, RetireTimesOut, RetireEnds,
                    RestoreHost, Active, Listed
    <2> QED
        BY <1>0, <1>u, <2>1 DEF Types
<1>2. ASSUME NEW t \in Sessions PROVE SlotInv(t)'
    BY <1>u DEF Inv, SlotInv
<1>3. ASSUME NEW k \in Generations PROVE GenInv(k)'
    BY <1>u DEF Inv, GenInv, Holds
<1>4. ASSUME NEW c \in Calls PROVE CallInv(c)'
    BY <1>u DEF Inv, CallInv
<1>5. RetireInv'
    <2>0. Leased' = Leased /\ Active' = Active
        BY <1>u DEF Leased, Active
    <2>1. CASE RetireHost
        BY <1>0, <1>u, <2>1 DEF RetireHost, RetireInv
    <2>2. CASE RetireCollects
        BY <1>0, <1>u, <2>0, <2>2 DEF RetireCollects, Settled, RetireInv
    <2>3. CASE RetireTimesOut
        BY <1>0, <1>u, <2>3 DEF RetireTimesOut, RetireInv
    <2>4. CASE RetireEnds
        <3>1. retiring = "closing" => Active = {} /\ Leased = {} /\ ~stopped
            BY <1>0, <2>4 DEF RetireEnds, RetireInv
        <3>2. ASSUME retiring = "closing", NEW g \in Generations PROVE child[g] # "alive"
            <4>1. start[g].pc # "spawned"
                BY <3>1, <3>2 DEF Leased
            <4>2. Holds(g) => start[g].s \in Active
                BY CurrentHolds DEF Active, Holds
            <4> QED
                BY <3>1, <3>2, <4>1, <4>2 DEF Inv, GenInv
        <3> QED
            BY <1>0, <1>u, <2>0, <2>4, <3>1, <3>2 DEF RetireEnds, RetireInv
    <2>5. CASE RestoreHost
        BY <1>0, <1>u, <2>5 DEF RestoreHost, RetireInv
    <2> QED
        BY <2>1, <2>2, <2>3, <2>4, <2>5 DEF RetireStep
<1> QED
    BY <1>1, <1>2, <1>3, <1>4, <1>5 DEF Inv

\* stop_all clears the registry; a child that survives its kill belongs to nobody
\* only because the server has stopped.
LEMMA StopAllStep ==
    ASSUME Inv, StopAll
    PROVE  Inv'
<1>0. /\ Types /\ RetireInv /\ Leased = {} /\ stopped' = TRUE
      /\ \A c \in Calls : call[c].pc = "idle"
      /\ retiring \in {"idle", "failed", "retired"} /\ "retire" \in Calls
    BY DEF Inv, StopAll, NoCall, Calls
<1>u. UNCHANGED <<start, issued, handle, known, reader, waiter, output, overdue, exited, call, barred,
                  retiring, toClose>>
    BY DEF StopAll, startVars, threadVars, closeVars
<1>1. /\ slot' = [s \in Sessions |-> NoSlot] /\ slot' \in [Sessions -> Slots]
      /\ record' \in [Sessions -> Records]
    <2>1. NoSlot \in Slots /\ NoRecord \in Records
        BY TerminalAssumption DEF Slots, Records, NoSlot, NoRecord
    <2> QED
        BY <2>1 DEF StopAll
<1>2. /\ child' \in [Generations -> {"none", "alive", "exited"}]
      /\ \A g \in Generations : child'[g] = child[g] \/ (child[g] = "alive" /\ child'[g] = "exited")
    BY <1>0 DEF StopAll, Types
<1>3. Types'
    BY <1>0, <1>u, <1>1, <1>2 DEF Types
<1>4. ASSUME NEW t \in Sessions PROVE SlotInv(t)'
    BY <1>1 DEF SlotInv, NoSlot
<1>5. ASSUME NEW k \in Generations PROVE GenInv(k)'
    <2>1. k # 0 /\ start[k].pc \in {"none", "done"} /\ GenInv(k)
        BY <1>0, TerminalAssumption DEF Leased, Generations, Inv
    <2>2. ~Holds(k)'
        BY <1>1, <2>1 DEF Holds, NoSlot
    <2> QED
        BY <1>0, <1>u, <1>2, <2>1, <2>2 DEF GenInv
<1>6. ASSUME NEW c \in Calls PROVE CallInv(c)'
    BY <1>u DEF Inv, CallInv
<1>7. RetireInv'
    <2>1. Leased' = Leased /\ Active' = {}
        BY <1>u, <1>1 DEF Leased, Active, NoSlot
    <2> QED
        BY <1>0, <1>u, <1>2, <2>1 DEF RetireInv
<1> QED
    BY <1>3, <1>4, <1>5, <1>6, <1>7 DEF Inv

-----------------------------------------------------------------------------
(* The invariant, and what follows from it.                                *)

\* In the beginning there is no session, no generation and no close.
LEMMA InitInv == Init => Inv
<1> SUFFICES ASSUME Init PROVE Inv
    OBVIOUS
<1>0. MaxGeneration \in Nat
    BY TerminalAssumption
<1>1. Types
    <2>1. NoSlot \in Slots /\ NoRecord \in Records
        BY <1>0 DEF NoSlot, NoRecord, Slots, Records
    <2>2. NoStart \in Starts /\ NoCall \in CallRecords
        BY <1>0 DEF NoStart, NoCall, Starts, CallRecords, StartPcs, Early, CallPcs
    <2>3. /\ slot \in [Sessions -> Slots] /\ record \in [Sessions -> Records]
          /\ start \in [Generations -> Starts] /\ call \in [Calls -> CallRecords]
        BY <2>1, <2>2 DEF Init
    <2>4. /\ child \in [Generations -> {"none", "alive", "exited"}]
          /\ handle \in [Generations -> {"cleanup", "waiter", "taken"}]
          /\ reader \in [Generations -> {"idle", "reading", "publishing", "done", "failed"}]
          /\ waiter \in [Generations -> {"idle", "waiting", "draining", "done"}]
          /\ output \in [Generations -> Nat]
        BY DEF Init
    <2>5. /\ issued \in 0 .. MaxGeneration
          /\ known \subseteq Generations /\ exited \subseteq Generations /\ toClose \subseteq Sessions
          /\ overdue \subseteq Generations
          /\ barred = FALSE /\ stopped = FALSE /\ retiring = "idle"
        BY <1>0 DEF Init
    <2> QED
        BY <2>3, <2>4, <2>5 DEF Types
<1>2. ASSUME NEW s \in Sessions PROVE SlotInv(s)
    BY DEF Init, SlotInv, NoSlot
<1>3. ASSUME NEW g \in Generations PROVE GenInv(g)
    BY <1>0 DEF Init, GenInv, Holds, NoStart, NoSlot, Generations
<1>4. ASSUME NEW c \in Calls PROVE CallInv(c)
    BY DEF Init, CallInv, NoCall
<1>5. RetireInv
    BY DEF Init, RetireInv, Calls, NoCall
<1> QED
    BY <1>1, <1>2, <1>3, <1>4, <1>5 DEF Inv

\* A step that changes nothing.
LEMMA StutterInv == Inv /\ UNCHANGED vars => Inv'
<1> SUFFICES ASSUME Inv, UNCHANGED vars PROVE Inv'
    OBVIOUS
<1>u. UNCHANGED <<slot, record, issued, start, child, handle, known, reader, waiter, output, overdue, exited,
                  call, barred, retiring, toClose, stopped>>
    BY DEF vars, stateVars, startVars, childVars, threadVars, closeVars, retireVars
<1>1. Types'
    BY <1>u DEF Inv, Types
<1>2. ASSUME NEW s \in Sessions PROVE SlotInv(s)'
    BY <1>u DEF Inv, SlotInv
<1>3. ASSUME NEW g \in Generations PROVE GenInv(g)'
    BY <1>u DEF Inv, GenInv, Holds
<1>4. ASSUME NEW c \in Calls PROVE CallInv(c)'
    BY <1>u DEF Inv, CallInv
<1>5. RetireInv'
    BY <1>u DEF Inv, RetireInv, Leased, Active
<1> QED
    BY <1>1, <1>2, <1>3, <1>4, <1>5 DEF Inv

\* Every step keeps the invariant.
LEMMA NextInv == Inv /\ [Next]_vars => Inv'
<1> SUFFICES ASSUME Inv, [Next]_vars PROVE Inv'
    OBVIOUS
<1>1. ASSUME NEW s \in Sessions, NEW new \in BOOLEAN, Draw(s, new) PROVE Inv'
    BY <1>1, DrawStep
<1>2. ASSUME NEW g \in Generations, StartStep(g) PROVE Inv'
    BY <1>2, ReserveStep, SpawnStep, RegisterStep, CommitStep, StartReaderStep, StartWaiterStep,
       AbortStep, AbortEndsStep DEF StartStep
<1>3. ASSUME NEW g \in Generations, ThreadStep(g) PROVE Inv'
    BY <1>3, ReaderReadsStep, ReaderPublishesStep, ReaderFailsStep, WaiterWakesStep,
       DrainTimesOutStep, FinalizeExitStep DEF ThreadStep
<1>4. ASSUME NEW g \in Generations, ChildStep(g) PROVE Inv'
    BY <1>4, ChildWritesStep, ChildExitsStep DEF ChildStep
<1>5. ASSUME NEW c \in Calls, CloseStep(c) PROVE Inv'
    BY <1>5, CloseRequestStep, CloseKillsStep, CloseReapsStep, CloseRemovesStep,
       CloseReturnsStep DEF CloseStep
<1>6. CASE RetireStep \/ StopAll
    BY <1>6, RetireStepKeeps, StopAllStep
<1>7. CASE UNCHANGED vars
    BY <1>7, StutterInv
<1> QED
    BY <1>1, <1>2, <1>3, <1>4, <1>5, <1>6, <1>7 DEF Next

\* The invariant holds in every reachable state.
LEMMA Invariance == Spec => []Inv
BY InitInv, NextInv, PTL DEF Spec

\* A living child is never lost: a close or an abort forgets a generation only when
\* the exit of its child was observed.
THEOREM ChildrenAreOwned == Spec => []EveryChildOwned
<1>1. Inv => EveryChildOwned
    BY CurrentHolds DEF Inv, GenInv, EveryChildOwned
<1> QED
    BY <1>1, Invariance, PTL

\* The exit event of a session comes after all of its output, unless reading failed or
\* the waiter gave up waiting for the reader.
THEOREM ExitComesLast == Spec => []OutputBeforeExit
<1>1. Inv => OutputBeforeExit
    BY DEF Inv, Types, GenInv, OutputBeforeExit, Delivered
<1> QED
    BY <1>1, Invariance, PTL

\* When the retirement of a host succeeds, no session, start or child of it is left.
THEOREM RetirementLeavesNoChild == Spec => []RetiredHostHasNoChild
<1>1. Inv => RetiredHostHasNoChild
    BY DEF Inv, RetireInv, RetiredHostHasNoChild
<1> QED
    BY <1>1, Invariance, PTL

-----------------------------------------------------------------------------
(* Sessions that were closed.                                              *)

\* What a close has answered for has no slot, or one that is to be closed: it was
\* terminated and removed, or its start will find the flag.
ClosedInv(g) ==
    g \in closed =>
        /\ start[g].pc \notin {"none", "drawn"}
        /\ Holds(g) => slot[start[g].s].kind = "starting" /\ slot[start[g].s].close

Closing == closed \subseteq Generations /\ \A g \in Generations : ClosedInv(g)

\* A step keeps this when no slot of such a generation loses the flag or begins to run.
LEMMA ClosingFrame ==
    ASSUME Inv, Closing, closed' = closed,
           \A g \in Generations : start[g].pc \notin {"none", "drawn"} =>
              start'[g].pc \notin {"none", "drawn"} /\ start'[g].s = start[g].s,
           \A s \in Sessions :
              \/ slot'[s].gen \notin closed
              \/ /\ slot'[s].gen = slot[s].gen /\ slot'[s].kind = slot[s].kind
                 /\ slot[s].close => slot'[s].close
    PROVE  Closing'
<1>1. ASSUME NEW g \in Generations, g \in closed PROVE ClosedInv(g)'
    BY <1>1 DEF Closing, ClosedInv, Holds
<1>2. ASSUME NEW g \in Generations, g \notin closed PROVE ClosedInv(g)'
    BY <1>2 DEF ClosedInv
<1> QED
    BY <1>1, <1>2 DEF Closing

\* Generation 0 is none that a close answers for.
LEMMA ZeroNotClosed == Closing => 0 \notin closed
BY TerminalAssumption DEF Closing, Generations

\* A start takes a new generation to its slot, and runs only without the flag.
LEMMA StartCloses ==
    ASSUME Inv, Closing, NEW g \in Generations, StartStep(g)
    PROVE  Closing'
<1>0. /\ Types /\ GenInv(g) /\ ClosedInv(g) /\ 0 \notin closed
      /\ slot \in [Sessions -> Slots] /\ start \in [Generations -> Starts]
    BY ZeroNotClosed DEF Inv, Types, Closing
<1>u. closed' = closed
    BY DEF StartStep, Reserve, Spawn, Register, Commit, StartReader, StartWaiter, Abort, AbortEnds,
           closeVars
<1>1. \A k \in Generations : start[k].pc \notin {"none", "drawn"} =>
         start'[k].pc \notin {"none", "drawn"} /\ start'[k].s = start[k].s
    <2>1. CASE Reserve(g)
        BY <1>0, <2>1 DEF Reserve, At, Goes
    <2>2. CASE ~Reserve(g)
        <3>1. PICK p \in StartPcs \ {"none", "drawn"} : Goes(g, p)
            BY <2>2 DEF StartStep, Spawn, Register, Commit, StartReader, StartWaiter, Abort,
                        AbortEnds, StartPcs, Early
        <3> QED
            BY <1>0, <3>1, GoesFacts DEF Types
    <2> QED
        BY <2>1, <2>2
<1>2. \A s \in Sessions : \/ slot'[s].gen \notin closed
                          \/ /\ slot'[s].gen = slot[s].gen /\ slot'[s].kind = slot[s].kind
                             /\ slot[s].close => slot'[s].close
    <2>1. CASE Reserve(g)
        <3>1. g \notin closed
            BY <1>0, <2>1 DEF Reserve, At, ClosedInv
        <3>2. CASE UNCHANGED slot
            BY <3>2
        <3>3. CASE SlotIs(start[g].s, [NoSlot EXCEPT !.kind = "starting", !.gen = g])
            <4>1. [NoSlot EXCEPT !.kind = "starting", !.gen = g].gen = g
                BY DEF NoSlot
            <4> QED
                BY <1>0, <3>1, <3>3, <4>1 DEF SlotIs
        <3> QED
            BY <2>1, <3>2, <3>3 DEF Reserve
    <2>2. CASE Commit(g)
        <3>1. Commits(g) => g \notin closed /\ slot[start[g].s].gen = g
            BY <1>0, CurrentHolds DEF Commits, StartingAt, ClosedInv, Holds
        <3>2. CASE UNCHANGED stateVars
            BY <3>2 DEF stateVars
        <3>3. CASE Commits(g) /\ SlotIs(start[g].s, [slot[start[g].s] EXCEPT !.kind = "running"])
            <4>1. start[g].s \in Sessions
                BY <3>3, CurrentHolds DEF Commits, StartingAt, Holds
            <4>2. [slot[start[g].s] EXCEPT !.kind = "running"].gen = g
                BY <1>0, <3>1, <3>3, <4>1 DEF Slots
            <4> QED
                BY <1>0, <3>1, <3>3, <4>1, <4>2 DEF SlotIs
        <3> QED
            BY <2>2, <3>2, <3>3 DEF Commit
    <2>3. CASE Register(g)
        BY <1>0, <2>3 DEF Register, Slots
    <2>4. CASE Spawn(g) \/ AbortEnds(g)
        <3>1. UNCHANGED stateVars \/ Releases(g)
            BY <2>4 DEF Spawn, AbortEnds
        <3>2. UNCHANGED slot \/ slot' = [slot EXCEPT ![start[g].s] = NoSlot]
            BY <3>1 DEF Releases, SlotIs, stateVars
        <3> QED
            BY <1>0, <3>2 DEF NoSlot
    <2>5. CASE StartReader(g) \/ StartWaiter(g) \/ Abort(g)
        BY <2>5 DEF StartReader, StartWaiter, Abort, stateVars
    <2> QED
        BY <2>1, <2>2, <2>3, <2>4, <2>5 DEF StartStep
<1> QED
    BY <1>u, <1>1, <1>2, ClosingFrame

\* A close answers for a start that it has left the flag for, and for a child that it
\* has terminated.
LEMMA CloseCloses ==
    ASSUME Inv, Closing, NEW c \in Calls, CloseStep(c)
    PROVE  Closing'
<1>0. /\ Types /\ CallInv(c) /\ 0 \notin closed /\ closed \subseteq Generations
      /\ slot \in [Sessions -> Slots] /\ start' = start
    BY ZeroNotClosed DEF Inv, Types, Closing, CloseStep, Close, CloseKills, CloseReaps, CloseRemoves,
                         CloseReturns, startVars
<1>1. ASSUME NEW s \in Sessions, Close(c, s) PROVE Closing'
    <2>1. \A t \in Sessions : /\ slot'[t].gen = slot[t].gen /\ slot'[t].kind = slot[t].kind
                              /\ slot[t].close => slot'[t].close
        <3>1. UNCHANGED slot \/ slot' = [slot EXCEPT ![s].close = TRUE]
            BY <1>1 DEF Close, stateVars
        <3> QED
            BY <1>0, <3>1 DEF Slots
    <2>2. CASE closed' = closed
        BY <1>0, <2>1, <2>2, ClosingFrame
    <2>3. CASE /\ slot[s].kind = "starting" /\ slot' = [slot EXCEPT ![s].close = TRUE]
               /\ closed' = closed \cup {slot[s].gen}
        <3> DEFINE g == slot[s].gen
        <3>1. /\ g \in Generations /\ start[g].s = s /\ start[g].pc \notin {"none", "drawn"}
              /\ slot'[s].close /\ slot'[s].kind = "starting"
            <4>1. SlotInv(s) /\ slot[s] \in Slots
                BY <1>0 DEF Inv
            <4>2. g # 0 /\ g \in 0 .. MaxGeneration /\ MaxGeneration \in Nat
                BY <2>3, <4>1, TerminalAssumption DEF SlotInv, Slots
            <4>3. slot'[s].close
                BY <1>0, <2>3, <4>1 DEF Slots
            <4> QED
                BY <2>1, <2>3, <4>1, <4>2, <4>3 DEF SlotInv, Generations
        <3> HIDE DEF g
        <3>2. closed' = closed \cup {g}
            BY <2>3 DEF g
        <3>3. ASSUME NEW k \in Generations PROVE ClosedInv(k)'
            <4>1. CASE k = g
                BY <1>0, <3>1, <4>1 DEF ClosedInv
            <4>2. CASE k # g
                BY <1>0, <2>1, <3>2, <4>2 DEF Closing, ClosedInv, Holds
            <4> QED
                BY <4>1, <4>2
        <3> QED
            BY <1>0, <3>1, <3>2, <3>3 DEF Closing
    <2> QED
        BY <1>1, <2>2, <2>3 DEF Close
<1>2. CASE CloseKills(c) \/ CloseReaps(c) \/ CloseReturns(c)
    BY <1>0, <1>2, ClosingFrame DEF CloseKills, CloseReaps, CloseReturns, stateVars
<1>3. CASE CloseRemoves(c)
    <2>1. PICK g \in Generations, s \in Sessions :
             /\ g = call[c].gen /\ s = call[c].s /\ start[g].pc \notin Early /\ start[g].s = s
        BY <1>0, <1>3 DEF CallInv, CloseRemoves
    <2>2. closed' = closed \cup {g}
        BY <1>3, <2>1 DEF CloseRemoves
    <2>3. \/ slot[s].gen = g /\ slot' = [slot EXCEPT ![s] = NoSlot]
          \/ slot[s].gen # g /\ slot' = slot
        BY <1>3, <2>1 DEF CloseRemoves, SlotIs, stateVars
    <2>4. \A t \in Sessions : slot'[t] = slot[t] \/ slot'[t].gen = 0
        BY <1>0, <2>3 DEF NoSlot
    <2>5. g # 0
        BY TerminalAssumption DEF Generations
    <2>6. ~Holds(g)'
        <3>1. SUFFICES ASSUME start[g].s \in Sessions, slot'[start[g].s].gen = g PROVE FALSE
            BY <1>0 DEF Holds
        <3>2. slot'[start[g].s] = slot[start[g].s] /\ slot[start[g].s].gen = g
            BY <2>4, <2>5, <3>1
        <3> QED
            BY <1>0, <2>1, <2>3, <2>5, <3>1, <3>2 DEF NoSlot
    <2>7. ASSUME NEW k \in Generations PROVE ClosedInv(k)'
        <3>1. CASE k = g
            BY <1>0, <2>1, <2>6, <3>1 DEF ClosedInv, Early
        <3>2. CASE k # g
            <4>1. Holds(k)' => Holds(k) /\ slot'[start[k].s] = slot[start[k].s]
                BY <1>0, <2>4, TerminalAssumption DEF Holds, Generations
            <4> QED
                BY <1>0, <2>2, <3>2, <4>1 DEF Closing, ClosedInv
        <3> QED
            BY <3>1, <3>2
    <2> QED
        BY <1>0, <2>2, <2>7 DEF Closing
<1> QED
    BY <1>1, <1>2, <1>3 DEF CloseStep

\* Every step keeps it.
LEMMA ClosingNext == Inv /\ Closing /\ [Next]_vars => Closing'
<1> SUFFICES ASSUME Inv, Closing, [Next]_vars PROVE Closing'
    OBVIOUS
<1>0. Types /\ 0 \notin closed
    BY ZeroNotClosed DEF Inv
<1>1. ASSUME NEW s \in Sessions, NEW new \in BOOLEAN, Draw(s, new) PROVE Closing'
    <2>1. /\ issued + 1 \in Generations /\ start[issued + 1].pc = "none"
          /\ closed' = closed /\ slot' = slot
          /\ \A k \in Generations \ {issued + 1} : start'[k] = start[k]
        BY <1>0, <1>1, TerminalAssumption
           DEF Inv, Draw, Types, GenInv, Generations, closeVars, stateVars
    <2> QED
        BY <2>1, ClosingFrame
<1>2. ASSUME NEW g \in Generations, StartStep(g) PROVE Closing'
    BY <1>2, StartCloses
<1>3. ASSUME NEW g \in Generations, ThreadStep(g) \/ ChildStep(g) PROVE Closing'
    <2>1. /\ closed' = closed /\ start' = start
          /\ slot' = slot \/ slot' = [slot EXCEPT ![start[g].s] = NoSlot]
        BY <1>3 DEF ThreadStep, ChildStep, ReaderReads, ReaderPublishes, ReaderFails, WaiterWakes,
                    DrainTimesOut, FinalizeExit, ChildWrites, ChildExits, SlotIs, stateVars,
                    startVars, closeVars
    <2>2. \A t \in Sessions : slot'[t] = slot[t] \/ slot'[t].gen = 0
        BY <1>0, <2>1 DEF Types, NoSlot
    <2> QED
        BY <1>0, <2>1, <2>2, ClosingFrame
<1>4. ASSUME NEW c \in Calls, CloseStep(c) PROVE Closing'
    BY <1>4, CloseCloses
<1>5. CASE RetireStep \/ StopAll
    <2>1. /\ closed' = closed /\ start' = start
          /\ slot' = slot \/ slot' = [s \in Sessions |-> NoSlot]
        BY <1>5 DEF RetireStep, RetireHost, RetireCollects, RetireTimesOut, RetireEnds, RestoreHost,
                    StopAll, stateVars, startVars, closeVars
    <2>2. \A t \in Sessions : slot'[t] = slot[t] \/ slot'[t].gen = 0
        BY <2>1 DEF NoSlot
    <2> QED
        BY <1>0, <2>1, <2>2, ClosingFrame
<1>6. CASE UNCHANGED vars
    BY <1>6, ClosingFrame DEF vars, stateVars, startVars, closeVars
<1> QED
    BY <1>1, <1>2, <1>3, <1>4, <1>5, <1>6 DEF Next

\* What a close has answered for never runs, and a child of it that lives is still
\* registered under a slot that is to be closed.
THEOREM ClosedSessionsAreGone == Spec => []ClosedIsGone
<1>1. Init => Closing
    BY DEF Init, Closing, ClosedInv
<1>2. Inv /\ Closing => ClosedIsGone
    <2> SUFFICES ASSUME Inv, Closing, NEW g \in closed
                 PROVE  /\ ~RunningAt(g)
                        /\ child[g] = "alive" => stopped \/ (StartingAt(g) /\ slot[start[g].s].close)
        BY DEF ClosedIsGone
    <2>1. g \in Generations /\ ClosedInv(g) /\ GenInv(g)
        BY DEF Closing, Inv
    <2>2. Current(g) <=> Holds(g)
        BY <2>1, CurrentHolds
    <2> QED
        BY <2>1, <2>2 DEF ClosedInv, GenInv, RunningAt, StartingAt
<1> QED
    BY <1>1, <1>2, InitInv, NextInv, ClosingNext, PTL DEF Spec

=============================================================================
