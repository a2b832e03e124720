----------------------------- MODULE EventsProofs -----------------------------
(***************************************************************************)
(* What module Events promises, for any number of workers, calls and       *)
(* expiries.                                                               *)
(***************************************************************************)
EXTENDS Events, TLAPS

(***************************************************************************)
(* The inductive invariant.  Known(o): an Event that somebody has read was *)
(* given its resourceVersion in the past, and if the API server still has  *)
(* that version, it is the same Event.  This is what makes the             *)
(* resourceVersion of an Update enough.  What it counts was written, and   *)
(* its history has expired or is that of the Event that is there.          *)
(***************************************************************************)
Running(w) == step[w] # "idle"

Known(o) ==
  o # Nil =>
    /\ o.rv <= rv
    /\ event # Nil /\ o.rv = event.rv => o = event
    /\ o.first \in 1 .. clock
    /\ 1 <= o.count /\ o.count <= written[o.first]
    /\ o.first \in expired \/ (event # Nil /\ event.first = o.first)

(***************************************************************************)
(* A call that runs has a time of its own, and nothing that first occurred *)
(* then, or later than now, has been written.                              *)
(***************************************************************************)
Unwritten ==
  /\ \A w \in Workers : Running(w) => built[w] \in 1 .. clock /\ written[built[w]] = 0
  /\ \A v, w \in Workers : Running(v) /\ Running(w) /\ built[v] = built[w] => v = w
  /\ \A t \in Times : t > clock => written[t] = 0

EventInv ==
  /\ TypeOK
  /\ Known(event) /\ Known(cache)
  /\ \A w \in Workers : Known(seen[w])
  /\ Unwritten
  /\ event # Nil /\ event.first \notin expired => event.count = written[event.first]

(***************************************************************************)
(* Nothing has been published, read or written.                            *)
(***************************************************************************)
LEMMA InitEventInv == Init => EventInv
<1> SUFFICES ASSUME Init PROVE EventInv
  OBVIOUS
<1>1. event = Nil /\ cache = Nil /\ \A w \in Workers : seen[w] = Nil /\ step[w] = "idle"
  BY DEF Init
<1>2. step \in [Workers -> {"idle", "get", "create", "update"}]
  BY DEF Init
<1>3. clock \in 0 .. MaxPublish /\ written \in [Times -> Nat] /\ expired \subseteq Times
  BY EventsAssumption DEF Init
<1>4. TypeOK
  BY <1>1, <1>2, <1>3 DEF Init, TypeOK
<1>5. Unwritten
  BY <1>1 DEF Init, Unwritten, Running
<1> QED BY <1>1, <1>4, <1>5 DEF EventInv, Known

(***************************************************************************)
(* A write gives the Event a version that nobody can have read, and either *)
(* goes on with the history of the Event that is there or finds none.      *)
(***************************************************************************)
LEMMA FreshVersion ==
  ASSUME EventInv, NEW o \in Event \cup {Nil}, Known(o), rv' = rv + 1, event' # Nil,
         event'.rv = rv + 1, event # Nil => event'.first = event.first,
         NEW t \in Times, written' = [written EXCEPT ![t] = @ + 1], UNCHANGED <<clock, expired>>
  PROVE  Known(o)'
<1> SUFFICES ASSUME o # Nil
             PROVE  /\ o.rv <= rv'
                    /\ event' # Nil /\ o.rv = event'.rv => o = event'
                    /\ o.first \in 1 .. clock'
                    /\ 1 <= o.count /\ o.count <= written'[o.first]
                    /\ o.first \in expired' \/ (event' # Nil /\ event'.first = o.first)
  BY DEF Known
<1>1. /\ o.rv \in Nat /\ o.count \in Nat /\ rv \in Nat /\ o.rv <= rv
      /\ o.first \in 1 .. clock /\ 1 <= o.count /\ o.count <= written[o.first]
      /\ o.first \in expired \/ (event # Nil /\ event.first = o.first)
  BY DEF EventInv, TypeOK, Known, Event
<1>2. o.first \in Times /\ written \in [Times -> Nat]
  BY <1>1, EventsAssumption DEF EventInv, TypeOK, Times
<1>3. written[o.first] <= written'[o.first] /\ written[o.first] \in Nat /\ written'[o.first] \in Nat
  BY <1>2
<1>4. o.count <= written'[o.first]
  BY <1>1, <1>3
<1>5. o.rv <= rv' /\ o.rv # event'.rv
  BY <1>1
<1>6. o.first \in expired \/ event'.first = o.first
  BY <1>1
<1> QED BY <1>1, <1>4, <1>5, <1>6

(***************************************************************************)
(* A step that leaves the Event alone, or lets it expire, leaves what has  *)
(* been read of it known.                                                  *)
(***************************************************************************)
EventRests ==
  /\ rv' = rv /\ written' = written /\ clock \in Nat /\ clock' \in {clock, clock + 1}
  /\ \/ event' = event /\ expired' = expired
     \/ event # Nil /\ event' = Nil /\ expired' = expired \cup {event.first}

LEMMA StaysKnown ==
  ASSUME NEW o, Known(o), EventRests
  PROVE  Known(o)'
<1> SUFFICES ASSUME o # Nil
             PROVE  /\ o.rv <= rv'
                    /\ event' # Nil /\ o.rv = event'.rv => o = event'
                    /\ o.first \in 1 .. clock'
                    /\ 1 <= o.count /\ o.count <= written'[o.first]
                    /\ o.first \in expired' \/ (event' # Nil /\ event'.first = o.first)
  BY DEF Known
<1>1. o.first \in 1 .. clock'
  BY DEF Known, EventRests
<1> QED BY <1>1 DEF Known, EventRests

(***************************************************************************)
(* What the two writes have in common.                                     *)
(***************************************************************************)
LEMMA WriteStep ==
  ASSUME EventInv, NEW w \in Workers, Running(w), NEW o \in Event, o.rv = rv + 1,
         Writes(o), Returns(w), UNCHANGED <<cache, built, seen, clock, expiries, expired>>,
         o.first \in 1 .. clock,
         event # Nil => o.first = event.first,
         o.first = built[w] \/ written[o.first] > 0,
         1 <= o.count, o.count <= written[o.first] + 1,
         o.first \notin expired => o.count = written[o.first] + 1
  PROVE  EventInv'
<1>1. /\ event' = o /\ event' # Nil /\ rv' = rv + 1
      /\ written' = [written EXCEPT ![o.first] = @ + 1]
  BY EventsAssumption DEF Event, Writes
<1>2. o.first \in Times /\ written \in [Times -> Nat] /\ clock \in 0 .. MaxPublish
  BY EventsAssumption DEF EventInv, TypeOK, Times
<1>3. TypeOK'
  <2>1. step' \in [Workers -> {"idle", "get", "create", "update"}]
    BY DEF EventInv, TypeOK, Returns
  <2>2. \A v \in Workers : step'[v] = "update" => seen'[v] # Nil
    BY DEF EventInv, TypeOK, Returns
  <2>3. overtaken' \in BOOLEAN
    BY DEF EventInv, TypeOK, Returns
  <2>4. written' \in [Times -> Nat]
    BY <1>1, <1>2
  <2> QED BY <1>1, <2>1, <2>2, <2>3, <2>4 DEF EventInv, TypeOK
<1>4. Known(cache)'
  <2>1. cache \in Event \cup {Nil} /\ Known(cache) /\ cache' = cache
    BY DEF EventInv, TypeOK
  <2> QED BY <1>1, <1>2, <2>1, FreshVersion
<1>5. ASSUME NEW v \in Workers PROVE Known(seen[v])'
  <2>1. seen[v] \in Event \cup {Nil} /\ Known(seen[v]) /\ seen' = seen
    BY DEF EventInv, TypeOK
  <2> QED BY <1>1, <1>2, <2>1, FreshVersion
<1>6. written'[o.first] = written[o.first] + 1
  BY <1>1, <1>2
<1>7. Known(event)'
  <2>1. rv + 1 <= rv'
    BY <1>1, <1>3 DEF TypeOK
  <2> QED BY <1>1, <1>6, <2>1 DEF Known
<1>8. Unwritten'
  <2>1. ASSUME NEW v \in Workers, step'[v] # "idle" PROVE Running(v) /\ v # w
    BY <2>1 DEF Returns, EventInv, TypeOK, Running
  <2>2. ASSUME NEW v \in Workers, step'[v] # "idle"
        PROVE  built[v] \in 1 .. clock /\ written'[built[v]] = 0
    <3>1. built[v] \in 1 .. clock /\ written[built[v]] = 0 /\ built[v] # built[w]
      BY <2>1, <2>2 DEF EventInv, Unwritten
    <3>2. built[v] # o.first
      BY <3>1
    <3>3. built[v] \in Times
      BY <1>2, <3>1, EventsAssumption DEF Times
    <3> QED BY <1>1, <1>2, <3>1, <3>2, <3>3
  <2>3. \A u, v \in Workers : step'[u] # "idle" /\ step'[v] # "idle" /\ built[u] = built[v] => u = v
    BY <2>1 DEF EventInv, Unwritten
  <2>4. \A t \in Times : t > clock => written'[t] = 0
    BY <1>1, <1>2 DEF EventInv, Unwritten, Times
  <2> QED BY <2>2, <2>3, <2>4 DEF Unwritten, Running
<1> QED BY <1>1, <1>3, <1>4, <1>5, <1>6, <1>7, <1>8 DEF EventInv

(***************************************************************************)
(* Create starts a new count.                                              *)
(***************************************************************************)
LEMMA CreateStep ==
  ASSUME EventInv, NEW w \in Workers, Create(w)
  PROVE  EventInv'
<1> DEFINE o == BuildEvent(w)
<1>1. Running(w) /\ built[w] \in 1 .. clock /\ built[w] \in Nat /\ written[built[w]] = 0
  BY DEF Create, Running, EventInv, Unwritten, TypeOK
<1>2. o \in Event /\ o.rv = rv + 1 /\ o.count = 1 /\ o.first = built[w]
  BY <1>1 DEF BuildEvent, Event, EventInv, TypeOK
<1>3. /\ event = Nil /\ Writes(o) /\ Returns(w)
      /\ UNCHANGED <<cache, built, seen, clock, expiries, expired>>
  BY DEF Create
<1> HIDE DEF o
<1> QED BY <1>1, <1>2, <1>3, WriteStep

(***************************************************************************)
(* Update goes on from the Event that was read.  If an Event is there, it  *)
(* is that one, since they have one resourceVersion; otherwise it expired. *)
(***************************************************************************)
LEMMA ReadLemma ==
  ASSUME EventInv, NEW w \in Workers, Update(w)
  PROVE  /\ Running(w) /\ seen[w] \in Event /\ seen[w] # Nil
         /\ seen[w].first \in 1 .. clock
         /\ 1 <= seen[w].count /\ seen[w].count <= written[seen[w].first]
         /\ event # Nil => seen[w] = event
         /\ event = Nil => seen[w].first \in expired
<1>1. seen[w] # Nil /\ Known(seen[w]) /\ seen[w] \in Event \cup {Nil} /\ Running(w)
  BY DEF Update, EventInv, TypeOK, Running
<1>2. event # Nil => seen[w].rv = event.rv
  BY DEF Update, UpdateAllowed
<1> QED BY <1>1, <1>2 DEF Known

(***************************************************************************)
(* Update counts one more.                                                 *)
(***************************************************************************)
LEMMA UpdateStep ==
  ASSUME EventInv, NEW w \in Workers, Update(w)
  PROVE  EventInv'
<1> DEFINE o == BuildUpdate(w)
           e == seen[w]
<1>1. /\ Running(w) /\ e \in Event /\ e # Nil /\ e.first \in 1 .. clock
      /\ 1 <= e.count /\ e.count <= written[e.first]
      /\ event # Nil => e = event
      /\ event = Nil => e.first \in expired
  BY ReadLemma
<1>2. e.count \in Nat /\ e.first \in Nat /\ written[e.first] \in Nat
  <2>1. e.first \in Times
    BY <1>1, EventsAssumption DEF EventInv, TypeOK, Times
  <2> QED BY <1>1, <2>1 DEF Event, EventInv, TypeOK
<1>3. o \in Event /\ o.rv = rv + 1 /\ o.count = e.count + 1 /\ o.first = e.first
  BY <1>2 DEF BuildUpdate, Event, EventInv, TypeOK
<1>4. /\ Writes(o) /\ Returns(w)
      /\ UNCHANGED <<cache, built, seen, clock, expiries, expired>>
  BY DEF Update
<1>5. e.first \notin expired => e.count = written[e.first]
  BY <1>1 DEF EventInv
<1> HIDE DEF o, e
<1>6. 1 <= o.count /\ o.count <= written[o.first] + 1 /\ written[o.first] > 0
  BY <1>1, <1>2, <1>3
<1>7. o.first \notin expired => o.count = written[o.first] + 1
  BY <1>3, <1>5
<1>8. event # Nil => o.first = event.first
  BY <1>1, <1>3
<1> QED BY <1>1, <1>3, <1>4, <1>6, <1>7, <1>8, WriteStep

(***************************************************************************)
(* The steps that write nothing: what is read is the cache, and what the   *)
(* cache gets is the Event.                                                *)
(***************************************************************************)
LEMMA QuietStep ==
  ASSUME EventInv, TypeOK', Unwritten', EventRests, cache' \in {cache, event'},
         \A w \in Workers : seen'[w] \in {seen[w], cache}
  PROVE  EventInv'
<1>1. Known(event)'
  <2>1. CASE event' = Nil
    BY <2>1 DEF Known
  <2>2. CASE event' = event
    <3>1. Known(event)
      BY DEF EventInv
    <3> HIDE DEF EventInv
    <3>2. event' = event /\ clock' \in {clock, clock + 1} /\ clock \in Nat /\ rv' = rv
          /\ written' = written
      BY <2>2 DEF EventRests
    <3> QED BY <3>1, <3>2 DEF Known
  <2> QED BY <2>1, <2>2 DEF EventRests
<1>2. Known(cache)'
  <2>1. CASE cache' = cache
    <3>1. Known(cache)
      BY DEF EventInv
    <3> QED BY <2>1, <3>1, StaysKnown DEF Known
  <2>2. CASE cache' = event'
    BY <1>1, <2>2 DEF Known
  <2> QED BY <2>1, <2>2
<1>3. ASSUME NEW w \in Workers PROVE Known(seen[w])'
  <2>1. CASE seen'[w] = seen[w]
    <3>1. Known(seen[w])
      BY DEF EventInv
    <3> QED BY <2>1, <3>1, StaysKnown DEF Known
  <2>2. CASE seen'[w] = cache
    <3>1. Known(cache)
      BY DEF EventInv
    <3> QED BY <2>2, <3>1, StaysKnown DEF Known
  <2> QED BY <2>1, <2>2
<1>4. event' # Nil /\ event'.first \notin expired' => event'.count = written'[event'.first]
  BY DEF EventInv, EventRests
<1> QED BY <1>1, <1>2, <1>3, <1>4 DEF EventInv

(***************************************************************************)
(* Calls that start nothing new leave the times of the others alone.       *)
(***************************************************************************)
LEMMA UnwrittenKept ==
  ASSUME EventInv, UNCHANGED <<built, clock, written>>,
         \A v \in Workers : step'[v] # "idle" => step[v] # "idle"
  PROVE  Unwritten'
BY DEF EventInv, Unwritten, Running

(***************************************************************************)
(* Every step of publishEvent, of the informer and of the API server keeps *)
(* the invariant.                                                          *)
(***************************************************************************)
LEMMA EventInvStep == EventInv /\ [Next]_vars => EventInv'
<1> SUFFICES ASSUME EventInv, [Next]_vars PROVE EventInv'
  OBVIOUS
<1>0. TypeOK /\ clock \in Nat
  BY EventsAssumption DEF EventInv, TypeOK
<1>1. ASSUME NEW w \in Workers, Publish(w) PROVE EventInv'
  <2>1. TypeOK'
    BY <1>0, <1>1, EventsAssumption DEF Publish, TypeOK
  <2>2. Unwritten'
    <3>1. /\ clock' = clock + 1 /\ clock' \in Times /\ written' = written
          /\ built' = [built EXCEPT ![w] = clock'] /\ DOMAIN built = Workers
          /\ step' = [step EXCEPT ![w] = "get"] /\ DOMAIN step = Workers
      BY <1>0, <1>1, EventsAssumption DEF Publish, TypeOK, Times
    <3>2. written[clock'] = 0
      BY <1>0, <3>1 DEF EventInv, Unwritten
    <3>3. ASSUME NEW v \in Workers, step'[v] # "idle"
          PROVE  /\ built'[v] \in 1 .. clock' /\ written'[built'[v]] = 0
                 /\ v # w => Running(v) /\ built'[v] = built[v] /\ built'[v] <= clock
      <4>1. CASE v = w
        BY <1>0, <3>1, <3>2, <4>1
      <4>2. CASE v # w
        BY <1>0, <3>1, <3>3, <4>2 DEF EventInv, Unwritten, Running
      <4> QED BY <4>1, <4>2
    <3>4. built'[w] = clock + 1
      BY <3>1
    <3>5. ASSUME NEW u \in Workers, NEW v \in Workers,
                 step'[u] # "idle", step'[v] # "idle", built'[u] = built'[v]
          PROVE  u = v
      <4>1. CASE u # w /\ v # w
        BY <3>3, <3>5, <4>1 DEF EventInv, Unwritten
      <4>2. CASE u = w \/ v = w
        BY <1>0, <3>3, <3>4, <3>5, <4>2
      <4> QED BY <4>1, <4>2
    <3>6. \A t \in Times : t > clock' => written'[t] = 0
      BY <1>0, <3>1 DEF EventInv, Unwritten, Times
    <3> QED BY <3>3, <3>5, <3>6 DEF Unwritten, Running
  <2>3. EventRests /\ cache' = cache /\ seen' = seen
    BY <1>0, <1>1 DEF Publish, EventRests
  <2> QED BY <2>1, <2>2, <2>3, QuietStep
<1>2. ASSUME NEW w \in Workers, GetNotFound(w) PROVE EventInv'
  <2>1. TypeOK' /\ EventRests /\ cache' = cache /\ seen' = seen
    BY <1>0, <1>2 DEF GetNotFound, TypeOK, EventRests
  <2>2. Unwritten'
    BY <1>0, <1>2, UnwrittenKept DEF GetNotFound, TypeOK
  <2> QED BY <2>1, <2>2, QuietStep
<1>3. ASSUME NEW w \in Workers, GetFound(w) PROVE EventInv'
  <2>1. TypeOK' /\ EventRests /\ cache' = cache
    BY <1>0, <1>3 DEF GetFound, TypeOK, EventRests
  <2>2. \A v \in Workers : seen'[v] \in {seen[v], cache}
    BY <1>0, <1>3 DEF GetFound, TypeOK
  <2>3. Unwritten'
    BY <1>0, <1>3, UnwrittenKept DEF GetFound, TypeOK
  <2> QED BY <2>1, <2>2, <2>3, QuietStep
<1>4. ASSUME NEW w \in Workers, LogError(w) PROVE EventInv'
  <2>1. TypeOK' /\ EventRests /\ cache' = cache /\ seen' = seen
    BY <1>0, <1>4 DEF LogError, Returns, TypeOK, EventRests
  <2>2. Unwritten'
    BY <1>0, <1>4, UnwrittenKept DEF LogError, Returns, TypeOK
  <2> QED BY <2>1, <2>2, QuietStep
<1>5. CASE InformerSync
  <2>1. TypeOK' /\ EventRests /\ cache' = event' /\ seen' = seen
    BY <1>0, <1>5 DEF InformerSync, TypeOK, EventRests
  <2>2. Unwritten'
    BY <1>5, UnwrittenKept DEF InformerSync
  <2> QED BY <2>1, <2>2, QuietStep
<1>6. CASE Expire
  <2>1. event # Nil /\ event.first \in Times
    BY <1>0, <1>6, EventsAssumption DEF Expire, EventInv, Known, TypeOK, Times
  <2>2. TypeOK' /\ EventRests /\ cache' = cache /\ seen' = seen
    BY <1>0, <1>6, <2>1 DEF Expire, TypeOK, EventRests
  <2>3. Unwritten'
    BY <1>6, UnwrittenKept DEF Expire
  <2> QED BY <2>2, <2>3, QuietStep
<1>7. CASE UNCHANGED vars
  <2>1. TypeOK' /\ EventRests /\ cache' = cache /\ seen' = seen
    BY <1>0, <1>7 DEF vars, TypeOK, EventRests
  <2>2. Unwritten'
    BY <1>7, UnwrittenKept DEF vars
  <2> QED BY <2>1, <2>2, QuietStep
<1> QED BY <1>1, <1>2, <1>3, <1>4, <1>5, <1>6, <1>7, CreateStep, UpdateStep DEF Next

(***************************************************************************)
(* Types, and that an Event is written back only after one was read.       *)
(***************************************************************************)
THEOREM TypeCorrect == Spec => []TypeOK
<1>1. EventInv => TypeOK
  BY DEF EventInv
<1> QED BY <1>1, InitEventInv, EventInvStep, PTL DEF Spec

(***************************************************************************)
(* The Event counts every write since its first occurrence, and never more *)
(* than were written, also after it expired and came back (publishEvent).  *)
(***************************************************************************)
THEOREM CountsCorrect == Spec => []CountsEveryWrite
<1>1. EventInv => CountsEveryWrite
  BY DEF EventInv, Known, CountsEveryWrite
<1> QED BY <1>1, InitEventInv, EventInvStep, PTL DEF Spec

FirstStep ==
  /\ event # Nil /\ event' # Nil => event'.first = event.first
  /\ event = Nil /\ event' # Nil => event'.count = 1 \/ event'.first \in expired

(***************************************************************************)
(* The first occurrence is kept, and an Event that appears is a new one or *)
(* has the history of one that expired (publishEvent).                     *)
(***************************************************************************)
THEOREM FirstCorrect == Spec => FirstOccurrenceKept
<1>1. EventInv /\ [Next]_vars => [FirstStep]_vars
  <2> SUFFICES ASSUME EventInv, Next PROVE FirstStep
    OBVIOUS
  <2>1. ASSUME NEW w \in Workers, Create(w) PROVE FirstStep
    BY <2>1 DEF Create, Writes, BuildEvent, FirstStep
  <2>2. ASSUME NEW w \in Workers, Update(w) PROVE FirstStep
    <3>1. /\ event # Nil => seen[w] = event
          /\ event = Nil => seen[w].first \in expired
      BY <2>2, ReadLemma
    <3> QED BY <2>2, <3>1 DEF Update, Writes, BuildUpdate, FirstStep
  <2>3. CASE event' \in {event, Nil}
    BY <2>3 DEF FirstStep
  <2> QED
    BY <2>1, <2>2, <2>3
    DEF Next, Publish, GetNotFound, GetFound, LogError, InformerSync, Expire
<1> QED BY <1>1, InitEventInv, EventInvStep, PTL DEF Spec, FirstOccurrenceKept, FirstStep

------------------------------------------------------------------------------
(***************************************************************************)
(* The inductive invariant for the two times: as long as no call has ended *)
(* before an earlier one, nothing that was written first occurred later    *)
(* than a call that is still running began.  This includes the histories   *)
(* of Events that expired, which may come back.                            *)
(***************************************************************************)
BegunBefore ==
  \A t \in Times : written[t] > 0 => \A w \in Workers : Running(w) => t <= built[w]

TimesInv == ~overtaken => BegunBefore /\ (event # Nil => event.first <= event.last)

(***************************************************************************)
(* A call that returns without being overtaken ends no running call but    *)
(* itself, and none that began earlier is left running.                    *)
(***************************************************************************)
LEMMA ReturnsLemma ==
  ASSUME TypeOK, NEW w \in Workers, Running(w), Returns(w), ~overtaken'
  PROVE  /\ ~overtaken
         /\ \A v \in Workers : step'[v] # "idle" => Running(v) /\ built[w] <= built[v]
<1>1. ~overtaken /\ ~\E v \in Workers : step[v] # "idle" /\ built[v] < built[w]
  BY DEF Returns
<1>2. \A v \in Workers : built[v] \in Nat
  BY DEF TypeOK
<1>3. \A v \in Workers : step'[v] # "idle" => Running(v)
  BY DEF Returns, TypeOK, Running
<1> QED BY <1>1, <1>2, <1>3 DEF Running

(***************************************************************************)
(* A write keeps the order of the times.                                   *)
(***************************************************************************)
LEMMA TimesWrite ==
  ASSUME EventInv, TimesInv, NEW w \in Workers, Running(w), NEW o \in Event,
         Writes(o), Returns(w), UNCHANGED <<built, clock>>,
         o.first \in Times, o.last = built[w],
         o.first = built[w] \/ written[o.first] > 0
  PROVE  TimesInv'
<1> SUFFICES ASSUME ~overtaken' PROVE BegunBefore' /\ event'.first <= event'.last
  BY DEF TimesInv
<1>1. TypeOK /\ written \in [Times -> Nat] /\ built[w] \in Nat
  BY DEF EventInv, TypeOK
<1>2. /\ ~overtaken
      /\ \A v \in Workers : step'[v] # "idle" => Running(v) /\ built[w] <= built[v]
  BY <1>1, ReturnsLemma
<1>3. BegunBefore
  BY <1>2 DEF TimesInv
<1>4. event' = o /\ written' = [written EXCEPT ![o.first] = @ + 1]
  BY DEF Writes
<1>5. o.first <= built[w]
  BY <1>1, <1>3 DEF BegunBefore
<1>6. ASSUME NEW t \in Times, written'[t] > 0, NEW v \in Workers, step'[v] # "idle"
      PROVE  t <= built[v]
  <2>1. Running(v) /\ built[w] <= built[v] /\ built[v] \in Nat
    BY <1>1, <1>2, <1>6 DEF TypeOK
  <2>2. CASE written[t] > 0
    BY <1>3, <2>1, <2>2 DEF BegunBefore
  <2>3. CASE ~(written[t] > 0)
    <3>1. t = o.first
      BY <1>1, <1>4, <1>6, <2>3
    <3> QED BY <1>1, <1>5, <2>1, <3>1 DEF Times
  <2> QED BY <2>2, <2>3
<1>7. BegunBefore'
  BY <1>6 DEF BegunBefore, Running
<1> QED BY <1>4, <1>5, <1>7

(***************************************************************************)
(* A step that leaves the Event's times alone, or removes the Event.       *)
(***************************************************************************)
LEMMA TimesQuiet ==
  ASSUME EventInv, TimesInv, event' \in {event, Nil}, UNCHANGED <<built, written>>,
         ~overtaken' => ~overtaken,
         ~overtaken' => \A v \in Workers : step'[v] # "idle" => step[v] # "idle"
  PROVE  TimesInv'
BY DEF TimesInv, BegunBefore, Running

(***************************************************************************)
(* Every step keeps it.                                                    *)
(***************************************************************************)
LEMMA TimesInvNext == EventInv /\ TimesInv /\ [Next]_vars => TimesInv'
<1> SUFFICES ASSUME EventInv, TimesInv, [Next]_vars PROVE TimesInv'
  OBVIOUS
<1>0. TypeOK /\ \A t \in Times : t \in Nat
  BY DEF EventInv, Times
<1>1. ASSUME NEW w \in Workers, Publish(w) PROVE TimesInv'
  <2> SUFFICES ASSUME ~overtaken'
               PROVE  BegunBefore' /\ (event' # Nil => event'.first <= event'.last)
    BY DEF TimesInv
  <2>1. /\ clock \in Nat /\ clock' = clock + 1 /\ event' = event /\ overtaken' = overtaken
        /\ built \in [Workers -> Nat] /\ built' = [built EXCEPT ![w] = clock']
        /\ step' = [step EXCEPT ![w] = "get"] /\ DOMAIN step = Workers /\ written' = written
    BY <1>0, <1>1, EventsAssumption DEF Publish, TypeOK
  <2>2. BegunBefore /\ (event # Nil => event.first <= event.last)
    BY <2>1 DEF TimesInv
  <2>3. ASSUME NEW t \in Times, written[t] > 0 PROVE t <= clock'
    BY <1>0, <2>1, <2>3 DEF EventInv, Unwritten
  <2>4. ASSUME NEW t \in Times, written'[t] > 0, NEW v \in Workers, step'[v] # "idle"
        PROVE  t <= built'[v]
    <3>1. CASE v = w
      BY <2>1, <2>3, <2>4, <3>1
    <3>2. CASE v # w
      BY <2>1, <2>2, <2>4, <3>2 DEF BegunBefore, Running
    <3> QED BY <3>1, <3>2
  <2> QED BY <2>1, <2>2, <2>4 DEF BegunBefore, Running
<1>2. ASSUME NEW w \in Workers, GetNotFound(w) PROVE TimesInv'
  BY <1>0, <1>2, TimesQuiet DEF GetNotFound, TypeOK
<1>3. ASSUME NEW w \in Workers, GetFound(w) PROVE TimesInv'
  BY <1>0, <1>3, TimesQuiet DEF GetFound, TypeOK
<1>4. ASSUME NEW w \in Workers, Create(w) PROVE TimesInv'
  <2> DEFINE o == BuildEvent(w)
  <2>1. Running(w) /\ built[w] \in 1 .. clock
    BY <1>4 DEF Create, Running, EventInv, Unwritten
  <2>2. o \in Event /\ o.first = built[w] /\ o.last = built[w]
    BY <1>0, <1>4 DEF BuildEvent, Event, TypeOK
  <2>3. built[w] \in Times
    BY <1>0, <2>1, EventsAssumption DEF TypeOK, Times
  <2>4. Writes(o) /\ Returns(w) /\ UNCHANGED <<built, clock>>
    BY <1>4 DEF Create
  <2> HIDE DEF o
  <2> QED BY <2>1, <2>2, <2>3, <2>4, TimesWrite
<1>5. ASSUME NEW w \in Workers, Update(w) PROVE TimesInv'
  <2> DEFINE o == BuildUpdate(w)
  <2>1. /\ Running(w) /\ seen[w] \in Event /\ seen[w].first \in 1 .. clock
        /\ 1 <= seen[w].count /\ seen[w].count <= written[seen[w].first]
    BY <1>5, ReadLemma
  <2>2. seen[w].first \in Times /\ seen[w].count \in Nat /\ seen[w].first \in Nat
    BY <1>0, <2>1, EventsAssumption DEF TypeOK, Times, Event
  <2>3. written[seen[w].first] > 0
    BY <1>0, <2>1, <2>2 DEF TypeOK
  <2>4. o \in Event /\ o.first = seen[w].first /\ o.last = built[w]
    BY <1>0, <2>2 DEF BuildUpdate, Event, TypeOK
  <2>5. Writes(o) /\ Returns(w) /\ UNCHANGED <<built, clock>>
    BY <1>5 DEF Update
  <2> HIDE DEF o
  <2> QED BY <2>1, <2>2, <2>3, <2>4, <2>5, TimesWrite
<1>6. ASSUME NEW w \in Workers, LogError(w) PROVE TimesInv'
  <2>1. event' = event /\ UNCHANGED <<built, written>> /\ Returns(w) /\ Running(w)
    BY <1>6 DEF LogError, Running
  <2>2. ASSUME ~overtaken'
        PROVE  ~overtaken /\ \A v \in Workers : step'[v] # "idle" => step[v] # "idle"
    BY <1>0, <2>1, <2>2, ReturnsLemma DEF Running
  <2> QED BY <2>1, <2>2, TimesQuiet
<1>7. CASE InformerSync
  BY <1>7, TimesQuiet DEF InformerSync
<1>8. CASE Expire
  BY <1>8, TimesQuiet DEF Expire
<1>9. CASE UNCHANGED vars
  BY <1>9, TimesQuiet DEF vars
<1> QED BY <1>1, <1>2, <1>3, <1>4, <1>5, <1>6, <1>7, <1>8, <1>9 DEF Next

(***************************************************************************)
(* The Event's last occurrence is not before its first as long as no call  *)
(* of publishEvent ended before an earlier one.                            *)
(***************************************************************************)
THEOREM TimesCorrect == Spec => []TimesInOrder
<1>1. Init => TimesInv
  BY DEF Init, TimesInv, BegunBefore, Running
<1>2. TimesInv => TimesInOrder
  BY DEF TimesInv, TimesInOrder
<1> QED BY <1>1, <1>2, InitEventInv, EventInvStep, TimesInvNext, PTL DEF Spec
==============================================================================
