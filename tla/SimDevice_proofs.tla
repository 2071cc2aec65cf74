--------------------------- MODULE SimDevice_proofs ---------------------------
(***************************************************************************)
(* What the simulated device guarantees for any sessions, failures and     *)
(* uses of the demo page, however ticks, presses, controls and restarts    *)
(* overlap.                                                                *)
(***************************************************************************)
EXTENDS SimDevice, SequenceTheorems, TLAPS

LEMMA Constants ==
  /\ None \notin Sessions /\ MaxRetries \in Nat
BY SimAssumption DEF SimAssumption

-----------------------------------------------------------------------------
(* Whose wash the relay and the record are of.                             *)

RecordFields == { "session", "left", "gap" }

(* The sessions the device may run: the server accepted their start, or    *)
(* persistNvs put them into the record of another.                         *)
Owners == granted \cup adopted

(* The record, and a wash in progress, are of an owner, and neither is of  *)
(* a wash that is over.  The server never authorizes a session again that  *)
(* it let start.                                                           *)
WashInv ==
  /\ DOMAIN nvs = RecordFields /\ DOMAIN session = Sessions
  /\ granted \subseteq Sessions /\ completed \subseteq granted
  /\ \A s \in granted : session[s] \notin { "NONE", "ARMED" }
  /\ nvs.session # None => nvs.session \in Owners
  /\ relay \/ state = "RUNNING" => running \in Owners
  /\ running \notin completed \ adopted
  /\ nvs.session \notin completed \ adopted

LEMMA WashInit == Init => WashInv
BY DEF Init, WashInv, NoRecord, RecordFields

(* A session that was accepted does not become ARMED again.                *)
SessionsAdvance ==
  /\ DOMAIN session' = Sessions
  /\ \A s \in Sessions :
       \/ session'[s] = session[s] \/ session'[s] \notin { "NONE", "ARMED" }
       \/ session[s] = "NONE"

(* A step that closes no relay and writes no record.                       *)
Opens ==
  /\ UNCHANGED << granted, completed, adopted >>
  /\ DOMAIN nvs' = RecordFields
  /\ nvs'.session \in { nvs.session, None } /\ running' \in { running, None }
  /\ relay' \/ state' = "RUNNING" => (relay \/ state = "RUNNING") /\ running' = running

LEMMA OpensKeeps ==
  ASSUME WashInv, Opens, SessionsAdvance
  PROVE  WashInv'
BY Constants DEF WashInv, Opens, SessionsAdvance, Owners

LEMMA NoRecordShape == DOMAIN NoRecord = RecordFields /\ NoRecord.session = None
BY DEF NoRecord, RecordFields

(* The record is written of the authorization; if that is of another       *)
(* session, Adopting notes it.                                             *)
LEMMA PersistKeeps ==
  ASSUME WashInv, NEW left, nvs' \in { nvs, Persisted(auth, left) }, Adopting,
         UNCHANGED << session, granted, completed, relay, state, running >>,
         state = "RUNNING"
  PROVE  WashInv'
<1>1. /\ DOMAIN nvs' = RecordFields /\ adopted \subseteq adopted'
      /\ nvs'.session \in { nvs.session, running } \cup adopted'
  BY DEF Persisted, WashInv, RecordFields, Adopting
<1> QED
  BY <1>1 DEF WashInv, Owners

(* boot resumes the record's wash, or leaves an open relay.                *)
LEMMA BootKeeps ==
  ASSUME WashInv, NEW gap, NEW memory, Boot(gap, memory),
         memory[1] \in { running, None },
         UNCHANGED << session, granted, completed, adopted >>
  PROVE  WashInv'
<1>1. CASE Resumable(gap)
  <2>1. /\ running' = nvs.session /\ nvs' = nvs /\ nvs.session # None
    BY <1>1 DEF Boot, Resumable
  <2> QED
    BY <2>1 DEF WashInv, Owners
<1>2. CASE ~ Resumable(gap)
  <2>1. Opens /\ SessionsAdvance
    BY <1>2, NoRecordShape DEF Boot, Opens, SessionsAdvance, WashInv
  <2> QED
    BY <2>1, OpensKeeps
<1> QED
  BY <1>1, <1>2

LEMMA TimerKeeps ==
  ASSUME WashInv, TickTimer, UNCHANGED << session, granted >>
  PROVE  WashInv'
<1>1. CASE CompleteWash
  <2>1. /\ completed' = completed \cup ({ running } \cap granted)
        /\ relay' = FALSE /\ state' = "IDLE" /\ running' = None
        /\ nvs' = NoRecord /\ adopted' = adopted
    BY <1>1 DEF CompleteWash
  <2> QED
    BY <2>1, NoRecordShape, Constants DEF WashInv, Owners
<1>2. CASE /\ state = "RUNNING" /\ nvs' \in { Persisted(auth, deadline), nvs } /\ Adopting
           /\ UNCHANGED << completed, relay, state, running >>
  BY <1>2, PersistKeeps
<1>3. CASE /\ state' # "RUNNING" /\ UNCHANGED << relay, running, nvs, completed, adopted >>
  <2>1. Opens /\ SessionsAdvance
    BY <1>3 DEF Opens, SessionsAdvance, WashInv
  <2> QED
    BY <2>1, OpensKeeps
<1> QED
  BY <1>1, <1>2, <1>3 DEF TickTimer

(* The services move a session as it has to go.                            *)
LEMMA EffectAdvances ==
  ASSUME WashInv, NEW item, Effect(item)
  PROVE  SessionsAdvance
BY DEF Effect, SessionsAdvance, WashInv

LEMMA WashTick ==
  ASSUME WashInv, NEW t \in Ticks, TickStep(t) \/ TickFails(t)
  PROVE  WashInv'
<1> USE DEF server, history, device
<1>1. CASE TickBegin(t)
  BY <1>1, TimerKeeps DEF TickBegin
<1>2. CASE HeartbeatServed(t) \/ AckServed(t)
  <2>1. /\ UNCHANGED << nvs, session, granted, completed, adopted >>
        /\ running' \in { running, None }
        /\ relay' \/ state' = "RUNNING" => (relay \/ state = "RUNNING") /\ running' = running
    BY <1>2 DEF HeartbeatServed, AckServed, ObeyStop
  <2>2. Opens /\ SessionsAdvance
    BY <2>1 DEF Opens, SessionsAdvance, WashInv
  <2> QED
    BY <2>2, OpensKeeps
<1>3. CASE PollRead(t) \/ PollReturns(t) \/ FlushTake(t) \/ TickFails(t)
  <2>1. /\ UNCHANGED << nvs, session, granted, completed, adopted, relay, running >>
        /\ state' = "RUNNING" => state = "RUNNING"
    BY <1>3
    DEF PollRead, PollReturns, FlushTake, TickFails, HeartbeatFails, PollFails, FlushFails
  <2>2. Opens /\ SessionsAdvance
    BY <2>1 DEF Opens, SessionsAdvance, WashInv
  <2> QED
    BY <2>2, OpensKeeps
<1>4. CASE FlushServed(t)
  <2>1. SessionsAdvance
    BY <1>4, EffectAdvances DEF FlushServed
  <2>2. Opens
    BY <1>4 DEF FlushServed, Opens, WashInv
  <2> QED
    BY <2>1, <2>2, OpensKeeps
<1> QED
  BY <1>1, <1>2, <1>3, <1>4 DEF TickStep

LEMMA WashPress ==
  ASSUME WashInv, NEW p \in Presses, PressStep(p) \/ PressFails(p)
  PROVE  WashInv'
<1> USE DEF server, history, device
<1>1. CASE PressStarts(p)
  <2>1. PICK s \in Sessions :
          /\ session[s] = "ARMED" /\ running' = s /\ granted' = granted \cup { s }
          /\ session' = [ session EXCEPT ![s] = "RUNNING" ]
          /\ nvs' = Persisted(auth, Duration) /\ Adopting /\ completed' = completed
    BY <1>1 DEF PressStarts, Startable, Deliverable
  <2>2. /\ DOMAIN nvs' = RecordFields /\ adopted \subseteq adopted'
        /\ nvs'.session \in { nvs.session, s } \cup adopted'
    BY <2>1 DEF Persisted, WashInv, RecordFields, Adopting
  <2>3. s \notin completed
    BY <2>1 DEF WashInv
  <2>4. DOMAIN session' = Sessions /\ \A r \in granted' : session'[r] \notin { "NONE", "ARMED" }
    BY <2>1 DEF WashInv
  <2> QED
    BY <2>1, <2>2, <2>3, <2>4 DEF WashInv, Owners
<1>2. CASE \/ PressBegin(p) \/ PressLookup(p) \/ PressRefused(p) \/ PressReturns(p)
           \/ PressFails(p)
  <2>1. /\ UNCHANGED << nvs, session, granted, completed, adopted, relay, running >>
        /\ state' = "RUNNING" => state = "RUNNING"
    BY <1>2 DEF PressBegin, PressLookup, PressRefused, PressReturns, PressFails
  <2>2. Opens /\ SessionsAdvance
    BY <2>1 DEF Opens, SessionsAdvance, WashInv
  <2> QED
    BY <2>2, OpensKeeps
<1> QED
  BY <1>1, <1>2 DEF PressStep

LEMMA WashControls ==
  ASSUME WashInv, DemoPage \/ ProcessRestarts
  PROVE  WashInv'
<1>1. CASE ProcessRestarts
  <2>1. /\ UNCHANGED << session, granted, completed, adopted >>
        /\ Boot(nvs.gap, << None, None, None >>)
    BY <1>1 DEF ProcessRestarts, server
  <2> QED
    BY <2>1, BootKeeps
<1>2. CASE DemoPage
  <2>1. UNCHANGED << session, granted, completed, adopted >>
    BY <1>2 DEF DemoPage, Control, server
  <2>2. CASE \E gap : Boot(gap, Memory)
    BY <2>1, <2>2, BootKeeps DEF Memory
  <2>3. CASE \/ CutWash /\ nvs' \in { nvs, NoRecord } /\ state' # "RUNNING"
             \/ UNCHANGED << nvs, relay, running >> /\ state' \in { state, "IDLE" }
    <3>1. Opens /\ SessionsAdvance
      BY <2>1, <2>3, NoRecordShape DEF Opens, SessionsAdvance, WashInv, CutWash
    <3> QED
      BY <3>1, OpensKeeps
  <2> QED
    BY <1>2, <2>2, <2>3
    DEF DemoPage, Control, Disconnect, Reconnect, Reboot, PowerCut, InternetCut,
        InternetRestore, DeviceError, ClearError
<1> QED
  BY <1>1, <1>2

LEMMA WashElapse == WashInv /\ Elapse => WashInv'
<1> SUFFICES ASSUME WashInv, Elapse PROVE WashInv'
  OBVIOUS
<1>1. UNCHANGED << relay, state, running, session, granted, completed, adopted >>
  BY DEF Elapse, history
<1>2. DOMAIN nvs' = RecordFields /\ nvs'.session = nvs.session
  <2>1. PICK left, gap : left = Less(nvs.left)
                         /\ gap = (IF nvs.gap < MaxGap THEN nvs.gap + 1 ELSE nvs.gap)
    OBVIOUS
  <2>2. nvs' = nvs \/ nvs' = [ nvs EXCEPT !.left = left, !.gap = gap ]
    BY <2>1 DEF Elapse
  <2> QED
    BY <2>2 DEF WashInv, RecordFields
<1>3. Opens /\ SessionsAdvance
  BY <1>1, <1>2 DEF Opens, SessionsAdvance, WashInv
<1> QED
  BY <1>3, OpensKeeps

LEMMA WashServer ==
  ASSUME WashInv,
         \/ Server \/ \E c \in Stops : AdminStop(c)
         \/ \E s \in Sessions : FinishServed(s) \/ FinishFails(s)
  PROVE  WashInv'
<1>1. Opens
  BY DEF Server, Arm, Expire, AdminStop, FinishServed, FinishFails, device, history, Opens, WashInv
<1>2. SessionsAdvance
  <2>1. CASE Server
    BY <2>1 DEF Server, Arm, Expire, SessionsAdvance, WashInv
  <2>2. CASE \E c \in Stops : AdminStop(c)
    BY <2>2 DEF AdminStop, SessionsAdvance, WashInv
  <2>3. CASE \E s \in Sessions : FinishServed(s)
    BY <2>3, EffectAdvances DEF FinishServed
  <2>4. CASE \E s \in Sessions : FinishFails(s)
    BY <2>4 DEF FinishFails, server, SessionsAdvance, WashInv
  <2> QED
    BY <2>1, <2>2, <2>3, <2>4
<1> QED
  BY <1>1, <1>2, OpensKeeps

LEMMA WashStep == WashInv /\ [Next]_vars => WashInv'
<1> SUFFICES ASSUME WashInv, [Next]_vars PROVE WashInv'
  OBVIOUS
<1>1. CASE UNCHANGED vars
  BY <1>1 DEF vars, device, server, history, WashInv, Owners
<1> QED
  BY <1>1, WashTick, WashPress, WashControls, WashElapse, WashServer DEF Next

(* simDevice.ts:342: whatever overlaps, restarts or fails, a closed relay  *)
(* is of a session whose start the server accepted, or of one that         *)
(* persistNvs put into the record of another.                              *)
THEOREM RelayAlwaysGranted == Spec => []RelayIsGranted
<1>1. WashInv => RelayIsGranted
  BY DEF WashInv, Owners, RelayIsGranted
<1> QED
  BY <1>1, WashInit, WashStep, PTL DEF Spec

(* simDevice.ts:295: no restart, late answer or press gives water again    *)
(* for a wash that ran to its end, with the same exception.                *)
THEOREM FinishedAlwaysDry == Spec => []FinishedStaysDry
<1>1. WashInv => FinishedStaysDry
  BY DEF WashInv, FinishedStaysDry
<1> QED
  BY <1>1, WashInit, WashStep, PTL DEF Spec

-----------------------------------------------------------------------------
(* What was queued is sent.                                                *)

Kinds == { "event", "stopEvent", "finish", "interrupted" }
AnyItem == [ kind : Kinds, session : Sessions \cup { None }, retries : Nat ]
TickFields == { "at", "orders", "answer", "item", "behind" }

(* The sessions the device and the answers name are sessions, and only an  *)
(* item that is being sent can be overtaken.                               *)
Shapes ==
  /\ DOMAIN tick = Ticks /\ \A t \in Ticks : DOMAIN tick[t] = TickFields
  /\ DOMAIN nvs = RecordFields
  /\ { auth, running, nvs.session } \subseteq Sessions \cup { None }
  /\ \A t \in Ticks : tick[t].answer \in Sessions \cup { None }
  /\ \A t \in Ticks : tick[t].at # "sending" => tick[t].behind = 0

(* The item a tick is sending is the head, and no other tick is sending.   *)
SendsAlone(t) ==
  /\ tick[t].item \in AnyItem /\ tick[t].behind = 0 /\ queue # << >>
  /\ \A u \in Ticks : tick[u].at = "sending" => u = t

QueueInv ==
  /\ Shapes
  /\ queue \in Seq(AnyItem)
  /\ ~overlapped => /\ losses \subseteq { "restart" }
                    /\ \A t \in Ticks : tick[t].at = "sending" => SendsAlone(t)

LEMMA ItemTypes ==
  \A kind \in Kinds, s \in Sessions \cup { None } : << Item(kind, s) >> \in Seq(AnyItem)
BY DEF Item, AnyItem

LEMMA NothingQueued == << >> \in Seq(AnyItem)
BY EmptySeq

LEMMA NoTickShape ==
  /\ DOMAIN NoTick = TickFields /\ NoTick.answer = None /\ NoTick.behind = 0
  /\ NoTick.at = "idle"
BY DEF NoTick, TickFields

LEMMA QueueInit == Init => QueueInv
<1> SUFFICES ASSUME Init PROVE QueueInv
  OBVIOUS
<1>1. Shapes
  BY NoRecordShape, NoTickShape DEF Init, Shapes
<1>2. queue \in Seq(AnyItem)
  BY ItemTypes DEF Init, Kinds
<1> QED
  BY <1>1, <1>2, NoTickShape DEF Init, QueueInv

(* Appending leaves the head where it was.                                 *)
LEMMA AppendTypes ==
  ASSUME NEW items \in Seq(AnyItem), queue \in Seq(AnyItem), Queued(items)
  PROVE  queue' \in Seq(AnyItem) /\ (queue # << >> => queue' # << >>)
<1>1. Len(queue) \in Nat /\ Len(items) \in Nat
  BY LenProperties
<1>2. queue' \in Seq(AnyItem) /\ Len(queue') = Len(queue) + Len(items)
  BY ConcatProperties DEF Queued
<1>3. queue # << >> => Len(queue) # 0
  BY EmptySeq
<1>4. Len(queue') # 0 => queue' # << >>
  BY EmptySeq
<1> QED
  BY <1>1, <1>2, <1>3, <1>4

(* A step that appends at most, and in which no tick begins to send.       *)
LEMMA AppendKeeps ==
  ASSUME QueueInv, Shapes', UNCHANGED << losses, overlapped >>,
         queue' = queue \/ \E items \in Seq(AnyItem) : Queued(items),
         \A t \in Ticks : tick'[t].at = "sending" => tick'[t] = tick[t]
  PROVE  QueueInv'
<1>1. queue' \in Seq(AnyItem) /\ (queue # << >> => queue' # << >>)
  BY AppendTypes DEF QueueInv
<1> QED
  BY <1>1 DEF QueueInv, SendsAlone

LEMMA GotoShape ==
  ASSUME Shapes, NEW t \in Ticks, NEW stage, Goto(t, stage)
  PROVE  /\ DOMAIN tick' = Ticks /\ \A u \in Ticks : DOMAIN tick'[u] = TickFields
         /\ \A u \in Ticks : tick'[u].answer \in Sessions \cup { None }
         /\ \A u \in Ticks \ { t } : tick'[u] = tick[u]
         /\ tick'[t].at = stage /\ tick'[t].behind = 0
<1>1. PICK new : new = [ NoTick EXCEPT !.at = stage ]
  OBVIOUS
<1>2. DOMAIN new = TickFields /\ new.answer = None /\ new.at = stage /\ new.behind = 0
  BY <1>1 DEF NoTick, TickFields
<1>3. tick' = [ tick EXCEPT ![t] = new ]
  BY <1>1 DEF Goto
<1> QED
  BY <1>2, <1>3 DEF Shapes

(* The same of a step whose tick goes to a stage where it does not send.   *)
LEMMA GotoKeeps ==
  ASSUME QueueInv, NEW t \in Ticks, NEW stage, stage # "sending", Goto(t, stage),
         UNCHANGED << losses, overlapped >>, DOMAIN nvs' = RecordFields,
         { auth', running', nvs'.session } \subseteq Sessions \cup { None },
         queue' = queue \/ \E items \in Seq(AnyItem) : Queued(items)
  PROVE  QueueInv'
<1>1. Shapes'
  BY GotoShape DEF QueueInv, Shapes
<1>2. \A u \in Ticks : tick'[u].at = "sending" => tick'[u] = tick[u]
  BY GotoShape DEF QueueInv
<1> QED
  BY <1>1, <1>2, AppendKeeps

(* A step that leaves the ticks where they are.                            *)
LEMMA TicksStay ==
  ASSUME QueueInv, UNCHANGED << tick, losses, overlapped >>, DOMAIN nvs' = RecordFields,
         { auth', running', nvs'.session } \subseteq Sessions \cup { None },
         queue' = queue \/ \E items \in Seq(AnyItem) : Queued(items)
  PROVE  QueueInv'
<1>1. Shapes'
  BY DEF QueueInv, Shapes
<1> QED
  BY <1>1, AppendKeeps

LEMMA BootTypes ==
  ASSUME Shapes, NEW gap PROVE BootItems(gap) \in Seq(AnyItem)
<1>1. nvs.session \in Sessions \cup { None }
  BY DEF Shapes
<1>2. \A rest \in Seq(AnyItem) : << Item("event", None) >> \o rest \in Seq(AnyItem)
  BY ItemTypes, ConcatProperties DEF Kinds
<1> QED
  BY <1>1, <1>2, ItemTypes, NothingQueued DEF BootItems, Kinds

LEMMA BootRecalls ==
  ASSUME Shapes, NEW gap, NEW memory, Boot(gap, memory),
         memory \in { Memory, << None, None, None >> }
  PROVE  /\ DOMAIN nvs' = RecordFields
         /\ { auth', running', nvs'.session } \subseteq Sessions \cup { None }
<1>1. memory[1] \in { running, None } /\ memory[2] \in { auth, None }
  BY DEF Memory
<1> QED
  BY <1>1, NoRecordShape DEF Boot, Shapes

LEMMA PersistedRecalls ==
  ASSUME Shapes, NEW left
  PROVE  /\ DOMAIN Persisted(auth, left) = RecordFields
         /\ Persisted(auth, left).session \in Sessions \cup { None }
BY DEF Shapes, Persisted, RecordFields

LEMMA StopTypes ==
  ASSUME Shapes
  PROVE  (IF state = "RUNNING" /\ running # None
            THEN << Item("interrupted", running) >> ELSE << >>)
         \o << Item("stopEvent", None) >> \in Seq(AnyItem)
<1>1. \A first \in Seq(AnyItem) : first \o << Item("stopEvent", None) >> \in Seq(AnyItem)
  BY ItemTypes, ConcatProperties DEF Kinds
<1> QED
  BY <1>1, ItemTypes, NothingQueued DEF Kinds, Shapes

(* The tick takes the head; a tick that was sending has overlapped it.     *)
LEMMA TakeKeeps ==
  ASSUME QueueInv, NEW t \in Ticks, FlushTake(t)
  PROVE  QueueInv'
<1>1. /\ UNCHANGED << queue, losses, nvs, auth, running >> /\ tick[t].at = "flush"
  BY DEF FlushTake, device
<1>2. CASE Goto(t, "idle") /\ overlapped' = overlapped
  BY <1>1, <1>2, GotoKeeps DEF QueueInv, Shapes
<1>3. CASE /\ queue # << >>
           /\ tick' = [ tick EXCEPT ![t].at = "sending", ![t].item = Head(queue) ]
           /\ overlapped' = (overlapped \/ \E u \in Ticks : tick[u].at = "sending")
  <2>1. /\ DOMAIN tick' = Ticks /\ \A u \in Ticks \ { t } : tick'[u] = tick[u]
        /\ DOMAIN tick'[t] = TickFields /\ tick'[t].item = Head(queue)
        /\ tick'[t].answer = tick[t].answer /\ tick'[t].behind = tick[t].behind
    BY <1>3 DEF QueueInv, Shapes, TickFields
  <2>2. Head(queue) \in AnyItem
    BY <1>3, HeadTailProperties DEF QueueInv
  <2>3. Shapes'
    BY <1>1, <2>1 DEF QueueInv, Shapes
  <2>4. ~overlapped' => \A u \in Ticks : tick'[u].at = "sending" => u = t
    BY <1>3, <2>1
  <2>5. tick'[t].behind = 0
    BY <1>1, <2>1 DEF QueueInv, Shapes
  <2>6. SendsAlone(t)' \/ overlapped'
    BY <1>1, <1>3, <2>1, <2>2, <2>4, <2>5 DEF SendsAlone
  <2>7. overlapped => overlapped'
    BY <1>3
  <2> QED
    BY <1>1, <2>3, <2>4, <2>6, <2>7 DEF QueueInv
<1> QED
  BY <1>2, <1>3 DEF FlushTake

(* The tick removes the head, which is the item it sent.                   *)
LEMMA ShiftKeeps ==
  ASSUME QueueInv, NEW t \in Ticks, tick[t].at = "sending", NEW ways,
         Shift(t, ways), ~overlapped => ways \subseteq { "restart" },
         UNCHANGED << nvs, auth, running, overlapped >>
  PROVE  QueueInv'
<1>1. queue' \in Seq(AnyItem)
  BY HeadTailProperties DEF Shift, QueueInv
<1>2. PICK new : new = [ NoTick EXCEPT !.at = "flush" ]
  OBVIOUS
<1>3. DOMAIN new = TickFields /\ new.answer = None /\ new.at = "flush" /\ new.behind = 0
  BY <1>2 DEF NoTick, TickFields
<1>4. /\ DOMAIN tick' = Ticks /\ tick'[t] = new
      /\ \A u \in Ticks \ { t } : tick'[u] = tick[u]
                                  \/ /\ tick[u].at = "sending"
                                     /\ tick'[u] = [ tick[u] EXCEPT !.behind = @ + 1 ]
  BY <1>2 DEF Shift
<1>5. \A u \in Ticks \ { t } :
        /\ DOMAIN tick'[u] = TickFields /\ tick'[u].answer = tick[u].answer
        /\ tick'[u].at = tick[u].at /\ (tick'[u].at # "sending" => tick'[u] = tick[u])
  BY <1>4 DEF QueueInv, Shapes, TickFields
<1>6. Shapes'
  BY <1>3, <1>4, <1>5 DEF QueueInv, Shapes
<1>7. ASSUME ~overlapped
      PROVE  losses' \subseteq { "restart" } /\ \A u \in Ticks : tick'[u].at # "sending"
  <2>1. SendsAlone(t) /\ losses \subseteq { "restart" }
    BY <1>7 DEF QueueInv
  <2>2. losses' \subseteq { "restart" }
    BY <1>7, <2>1 DEF Shift, SendsAlone
  <2>3. \A u \in Ticks : tick'[u].at # "sending"
    BY <1>3, <1>4, <1>5, <2>1 DEF SendsAlone
  <2> QED
    BY <2>2, <2>3
<1> QED
  BY <1>1, <1>6, <1>7 DEF QueueInv

LEMMA RetryTypes ==
  ASSUME NEW q \in Seq(AnyItem)
  PROVE  [ q EXCEPT ![1] = Failed(@) ] \in Seq(AnyItem)
<1>1. CASE q = << >>
  <2>1. [ q EXCEPT ![1] = Failed(@) ] = << >>
    BY <1>1
  <2> QED
    BY <2>1, NothingQueued
<1>2. CASE q # << >>
  <2>1. 1 \in 1..Len(q) /\ q[1] \in AnyItem
    BY <1>2, EmptySeq, ElementOfSeq
  <2>2. PICK item : item = Failed(q[1])
    OBVIOUS
  <2>3. item \in AnyItem
    <3>1. PICK n : n = q[1].retries + 1
      OBVIOUS
    <3>2. n \in Nat /\ item = [ q[1] EXCEPT !.retries = n ]
      BY <2>1, <2>2, <3>1 DEF AnyItem, Failed
    <3> QED
      BY <2>1, <3>2 DEF AnyItem
  <2>4. [ q EXCEPT ![1] = Failed(@) ] = [ q EXCEPT ![1] = item ]
    BY <2>2
  <2> QED
    BY <2>1, <2>3, <2>4, ExceptSeq
<1> QED
  BY <1>1, <1>2

(* A failed item stays, with one retry more.                               *)
LEMMA RetryKeeps ==
  ASSUME QueueInv, NEW t \in Ticks, tick[t].at = "sending", CountRetry(t),
         UNCHANGED << nvs, auth, running, losses, overlapped >>
  PROVE  QueueInv'
<1>1. queue' \in Seq(AnyItem)
  BY RetryTypes DEF CountRetry, QueueInv
<1>2. /\ DOMAIN tick' = Ticks /\ tick'[t] = NoTick
      /\ \A u \in Ticks \ { t } : tick'[u] = tick[u]
                                  \/ /\ tick[u].at = "sending"
                                     /\ tick'[u] = [ tick[u] EXCEPT !.item = Failed(@) ]
  BY DEF CountRetry
<1>3. \A u \in Ticks \ { t } :
        /\ DOMAIN tick'[u] = TickFields /\ tick'[u].answer = tick[u].answer
        /\ tick'[u].at = tick[u].at /\ tick'[u].behind = tick[u].behind
  BY <1>2 DEF QueueInv, Shapes, TickFields
<1>4. Shapes'
  BY <1>2, <1>3, NoTickShape DEF QueueInv, Shapes
<1>5. ~overlapped => \A u \in Ticks : tick'[u].at # "sending"
  BY <1>2, <1>3, NoTickShape DEF QueueInv, SendsAlone
<1> QED
  BY <1>1, <1>4, <1>5 DEF QueueInv

LEMMA QueueTick ==
  ASSUME QueueInv, NEW t \in Ticks, TickStep(t) \/ TickFails(t)
  PROVE  QueueInv'
<1> USE DEF server, history, device, bounds
<1>0. Shapes
  BY DEF QueueInv
<1>1. CASE TickBegin(t)
  <2>1. /\ UNCHANGED << losses, overlapped >> /\ running' \in { running, None }
        /\ auth' \in { auth, None }
        /\ nvs' \in { nvs, Persisted(auth, deadline), NoRecord }
    BY <1>1 DEF TickBegin, TickTimer, CompleteWash
  <2>2. /\ DOMAIN nvs' = RecordFields
        /\ { auth', running', nvs'.session } \subseteq Sessions \cup { None }
    BY <1>0, <2>1, PersistedRecalls, NoRecordShape DEF Shapes
  <2>3. queue' = queue \/ \E items \in Seq(AnyItem) : Queued(items)
    BY <1>0, <1>1, ItemTypes, NothingQueued DEF TickBegin, TickTimer, CompleteWash, Kinds, Shapes
  <2>4. CASE \E stage : stage # "sending" /\ Goto(t, stage)
    BY <2>1, <2>2, <2>3, <2>4, GotoKeeps
  <2>5. CASE tick' = tick
    BY <2>1, <2>2, <2>3, <2>5, TicksStay
  <2> QED
    BY <1>1, <2>4, <2>5 DEF TickBegin
<1>2. CASE HeartbeatServed(t) \/ AckServed(t)
  <2>1. /\ UNCHANGED << losses, overlapped, nvs >> /\ running' \in { running, None }
        /\ auth' \in { auth, None }
    BY <1>2 DEF HeartbeatServed, AckServed, ObeyStop
  <2>2. queue' = queue \/ \E items \in Seq(AnyItem) : Queued(items)
    BY <1>0, <1>2, StopTypes DEF HeartbeatServed, AckServed, ObeyStop
  <2>3. CASE AfterHeartbeat(t)
    BY <1>0, <2>1, <2>2, <2>3, GotoKeeps DEF AfterHeartbeat, Shapes
  <2>4. CASE /\ tick[t].at # "sending"
             /\ \E c : \/ tick' = [ tick EXCEPT ![t].at = "ack", ![t].orders = stops ]
                       \/ tick' = [ tick EXCEPT ![t].orders = @ \ { c } ]
    <3>1. /\ DOMAIN tick' = Ticks /\ \A u \in Ticks \ { t } : tick'[u] = tick[u]
          /\ DOMAIN tick'[t] = TickFields /\ tick'[t].answer = tick[t].answer
          /\ tick'[t].behind = tick[t].behind /\ tick'[t].at # "sending"
      BY <1>0, <2>4 DEF Shapes, TickFields
    <3>2. Shapes'
      BY <1>0, <2>1, <2>4, <3>1 DEF Shapes
    <3> QED
      BY <2>1, <2>2, <3>1, <3>2, AppendKeeps
  <2> QED
    BY <1>2, <2>3, <2>4 DEF HeartbeatServed, AckServed
<1>3. CASE PollRead(t)
  <2>1. UNCHANGED << queue, nvs, auth, running, losses, overlapped >> /\ tick[t].at = "poll"
    BY <1>3 DEF PollRead
  <2>2. PICK a \in Sessions \cup { None } :
          \/ tick' = [ tick EXCEPT ![t].at = "polled", ![t].answer = a ]
          \/ a = tick[t].answer /\ tick' = [ tick EXCEPT ![t].at = "polled" ]
    BY <1>0, <1>3 DEF PollRead, Deliverable, Shapes
  <2>3. /\ DOMAIN tick' = Ticks /\ \A u \in Ticks \ { t } : tick'[u] = tick[u]
        /\ DOMAIN tick'[t] = TickFields /\ tick'[t].answer = a
        /\ tick'[t].behind = tick[t].behind /\ tick'[t].at = "polled"
    BY <1>0, <2>2 DEF Shapes, TickFields
  <2>4. Shapes'
    BY <1>0, <2>1, <2>3 DEF Shapes
  <2> QED
    BY <2>1, <2>3, <2>4, AppendKeeps
<1>4. CASE PollReturns(t) \/ HeartbeatFails(t) \/ PollFails(t)
  <2>1. /\ UNCHANGED << queue, losses, nvs, running, overlapped >>
        /\ auth' \in { auth, tick[t].answer }
        /\ \E stage : stage # "sending" /\ Goto(t, stage)
    BY <1>4 DEF PollReturns, HeartbeatFails, PollFails, AfterHeartbeat
  <2> QED
    BY <1>0, <2>1, GotoKeeps DEF Shapes
<1>5. CASE FlushServed(t)
  <2>1. /\ tick[t].at = "sending" /\ Shift(t, {})
        /\ UNCHANGED << nvs, auth, running, overlapped >>
    BY <1>5 DEF FlushServed
  <2> QED
    BY <2>1, ShiftKeeps
<1>6. CASE FlushFails(t)
  <2>1. tick[t].at = "sending" /\ UNCHANGED << nvs, auth, running, overlapped >>
    BY <1>6 DEF FlushFails
  <2>2. CASE tick[t].item.retries >= MaxRetries /\ Drop(t)
    <3>1. PICK ways : /\ ways = (IF tick[t].item.retries < MaxRetries THEN { "early" } ELSE {})
                      /\ Shift(t, ways)
      BY <2>2 DEF Drop
    <3>2. ASSUME ~overlapped PROVE ways = {}
      <4>1. tick[t].item.retries \in Nat
        BY <2>1, <3>2 DEF QueueInv, SendsAlone, AnyItem
      <4> QED
        BY <2>2, <3>1, <4>1, Constants
    <3> QED
      BY <2>1, <3>1, <3>2, ShiftKeeps
  <2>3. CASE CountRetry(t) /\ losses' = losses
    BY <2>1, <2>3, RetryKeeps
  <2> QED
    BY <1>6, <2>2, <2>3 DEF FlushFails
<1> QED
  BY <1>1, <1>2, <1>3, <1>4, <1>5, <1>6, TakeKeeps DEF TickStep, TickFails

LEMMA QueueControls ==
  ASSUME QueueInv, DemoPage \/ ProcessRestarts
  PROVE  QueueInv'
<1>0. Shapes
  BY DEF QueueInv
<1>1. CASE ProcessRestarts
  <2>1. /\ queue' = BootItems(nvs.gap) /\ tick' = [ t \in Ticks |-> NoTick ]
        /\ Boot(nvs.gap, << None, None, None >>) /\ overlapped' = overlapped
        /\ losses' \subseteq losses \cup { "restart" }
    BY <1>1 DEF ProcessRestarts
  <2>2. Shapes'
    BY <1>0, <2>1, BootRecalls, NoTickShape DEF Shapes
  <2> QED
    BY <1>0, <2>1, <2>2, BootTypes, NoTickShape DEF QueueInv
<1>2. CASE DemoPage
  <2>1. UNCHANGED << tick, losses, overlapped >>
    BY <1>2 DEF DemoPage, Control, callers
  <2>2. /\ << Item("event", None) >> \in Seq(AnyItem) /\ Interruption \in Seq(AnyItem)
        /\ BootItems(nvs.gap) \in Seq(AnyItem)
    BY <1>0, BootTypes, ItemTypes, NothingQueued DEF Interruption, Kinds, Shapes
  <2>3. /\ Interruption \o << Item("event", None) >> \in Seq(AnyItem)
        /\ Append(BootItems(MaxGap + 1), Item("event", None)) \in Seq(AnyItem)
    <3>1. Item("event", None) \in AnyItem
      BY DEF Item, AnyItem, Kinds
    <3> QED
      BY <1>0, <2>2, <3>1, BootTypes, ConcatProperties, AppendProperties
  <2>4. queue' = queue \/ \E items \in Seq(AnyItem) : Queued(items)
    BY <1>2, <2>2, <2>3
    DEF DemoPage, Control, Disconnect, Reconnect, Reboot, PowerCut, InternetCut,
        InternetRestore, DeviceError, ClearError
  <2>5. /\ DOMAIN nvs' = RecordFields
        /\ { auth', running', nvs'.session } \subseteq Sessions \cup { None }
    <3>1. CASE \E gap : Boot(gap, Memory)
      BY <1>0, <3>1, BootRecalls
    <3>2. CASE CutWash /\ nvs' \in { nvs, NoRecord }
      BY <1>0, <3>2, NoRecordShape DEF CutWash, Shapes
    <3>3. CASE UNCHANGED << auth, running, nvs >>
      BY <1>0, <3>3 DEF Shapes
    <3> QED
      BY <1>2, <3>1, <3>2, <3>3
      DEF DemoPage, Control, Disconnect, Reconnect, Reboot, PowerCut, InternetCut,
          InternetRestore, DeviceError, ClearError
  <2> QED
    BY <2>1, <2>4, <2>5, TicksStay
<1> QED
  BY <1>1, <1>2

LEMMA QueuePress ==
  ASSUME QueueInv, NEW p \in Presses, PressStep(p) \/ PressFails(p)
  PROVE  QueueInv'
<1> USE DEF history, device
<1>0. Shapes
  BY DEF QueueInv
<1>1. CASE PressStarts(p)
  <2>1. /\ UNCHANGED << tick, losses, overlapped, queue, auth >> /\ running' \in Sessions
        /\ nvs' = Persisted(auth, Duration)
    BY <1>1 DEF PressStarts, Startable, Deliverable
  <2> QED
    BY <1>0, <2>1, PersistedRecalls, TicksStay DEF Shapes
<1>2. CASE \/ PressBegin(p) \/ PressLookup(p) \/ PressRefused(p) \/ PressReturns(p)
           \/ PressFails(p)
  <2>1. /\ UNCHANGED << tick, losses, overlapped, nvs, running >> /\ auth' \in { auth, None }
        /\ queue' = queue \/ Queued(<< Item("event", None) >>)
    BY <1>2 DEF PressBegin, PressLookup, PressRefused, PressReturns, PressFails
  <2>2. << Item("event", None) >> \in Seq(AnyItem)
    BY ItemTypes DEF Kinds
  <2> QED
    BY <1>0, <2>1, <2>2, TicksStay DEF Shapes
<1> QED
  BY <1>1, <1>2 DEF PressStep

LEMMA QueueStep == WashInv /\ QueueInv /\ [Next]_vars => QueueInv'
<1> SUFFICES ASSUME WashInv, QueueInv, [Next]_vars PROVE QueueInv'
  OBVIOUS
<1>1. CASE Elapse
  <2>1. /\ UNCHANGED << tick, losses, overlapped, queue, auth, running >>
        /\ WashInv' /\ nvs'.session \in { nvs.session, None }
    <3>1. PICK left, gap : left = Less(nvs.left)
                           /\ gap = (IF nvs.gap < MaxGap THEN nvs.gap + 1 ELSE nvs.gap)
      OBVIOUS
    <3>2. nvs' = nvs \/ nvs' = [ nvs EXCEPT !.left = left, !.gap = gap ]
      BY <1>1, <3>1 DEF Elapse
    <3> QED
      BY <1>1, <3>2, WashElapse DEF Elapse, callers, history, WashInv, RecordFields
  <2> QED
    BY <2>1, TicksStay DEF QueueInv, Shapes, WashInv
<1>2. CASE \/ Server \/ UNCHANGED vars \/ \E c \in Stops : AdminStop(c)
           \/ \E s \in Sessions : FinishServed(s) \/ FinishFails(s)
  <2>1. UNCHANGED << tick, losses, overlapped, queue, auth, running, nvs >>
    BY <1>2 DEF Server, Arm, Expire, AdminStop, FinishServed, FinishFails, vars,
                device, callers, history
  <2> QED
    BY <2>1, TicksStay DEF QueueInv, Shapes
<1> QED
  BY <1>1, <1>2, QueueTick, QueueControls, QueuePress DEF Next

(* simDevice.ts:246: whatever the network and the demo page do meanwhile,  *)
(* and whatever else overlaps, an item leaves the queue unsent only after  *)
(* two ticks were sending at once or because the process restarts.         *)
THEOREM QueueAlwaysSent == Spec => []QueueIsSent
<1>1. (WashInv /\ QueueInv) /\ [Next]_vars => (WashInv /\ QueueInv)'
  BY WashStep, QueueStep
<1>2. QueueInv => QueueIsSent
  BY DEF QueueInv, QueueIsSent
<1> QED
  BY <1>1, <1>2, WashInit, QueueInit, PTL DEF Spec
=============================================================================
