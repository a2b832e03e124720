------------------------------- MODULE Events --------------------------------
(***************************************************************************)
(* publishEvent: every failed validation, build or Service creation is     *)
(* counted in one Event object per namespace and reason, which all workers *)
(* of all controllers share.  It is read through the informer's cache and  *)
(* written back with the resourceVersion that was read; whatever goes      *)
(* wrong is logged and forgotten.  The API server lets Events expire.      *)
(* One Event name is modelled: different names do not interact.            *)
(***************************************************************************)
EXTENDS Integers

CONSTANTS
  Workers,      \* reconcile calls that may publish at the same time
  MaxPublish,   \* bound on the number of calls of publishEvent
  MaxExpiries,  \* bound on the number of expiries of the Event
  Nil           \* no object

ASSUME EventsAssumption ==
  /\ MaxPublish \in Nat /\ MaxExpiries \in Nat
  /\ Nil \notin [rv : Nat, count : Nat, first : Nat, last : Nat]

VARIABLES
  event,     \* the Event in the API server, or Nil
  cache,     \* the Event in the informer's cache, or Nil
  rv,        \* the last resourceVersion given out
  step,      \* per worker: "idle", "get", "create" or "update"
  built,     \* per worker: time.Now() in buildEvent
  seen,      \* per worker: the Event that Get returned
  clock,     \* number of calls of publishEvent, which is also the time
  expiries,  \* number of expiries so far
  written,   \* history: per time, the writes of the Event that first occurred then
  expired,   \* history: the first occurrences of the Events that expired
  overtaken  \* history: a call ended while an earlier one was still running

vars == <<event, cache, rv, step, built, seen, clock, expiries, written, expired, overtaken>>

Times == 1 .. MaxPublish

Event == [rv : Nat, count : Nat, first : Nat, last : Nat]

Init ==
  /\ event = Nil /\ cache = Nil /\ rv = 0
  /\ step = [w \in Workers |-> "idle"]
  /\ built = [w \in Workers |-> 0]
  /\ seen = [w \in Workers |-> Nil]
  /\ clock = 0 /\ expiries = 0 /\ overtaken = FALSE
  /\ written = [t \in Times |-> 0] /\ expired = {}

------------------------------------------------------------------------------
\* Mutant: the first occurrence is that of this call.
BuildUpdateAfresh(w) ==
  [rv |-> rv + 1, count |-> seen[w].count + 1, first |-> built[w], last |-> built[w]]

\* Mutant: the two times are confused.
BuildUpdateSwapped(w) ==
  [rv |-> rv + 1, count |-> seen[w].count + 1, first |-> built[w], last |-> seen[w].first]

(***************************************************************************)
(* buildEvent, and what publishEvent keeps of the Event it has read.       *)
(***************************************************************************)
BuildEvent(w) == [rv |-> rv + 1, count |-> 1, first |-> built[w], last |-> built[w]]
BuildUpdate(w) ==
  [rv |-> rv + 1, count |-> seen[w].count + 1, first |-> seen[w].first, last |-> built[w]]

Returns(w) ==
  /\ step' = [step EXCEPT ![w] = "idle"]
  /\ overtaken' = (overtaken \/ \E v \in Workers : step[v] # "idle" /\ built[v] < built[w])

Publish(w) ==
  /\ step[w] = "idle" /\ clock < MaxPublish
  /\ clock' = clock + 1
  /\ built' = [built EXCEPT ![w] = clock']
  /\ step' = [step EXCEPT ![w] = "get"]
  /\ UNCHANGED <<event, cache, rv, seen, expiries, written, expired, overtaken>>

GetNotFound(w) ==
  /\ step[w] = "get" /\ cache = Nil
  /\ step' = [step EXCEPT ![w] = "create"]
  /\ UNCHANGED <<event, cache, rv, built, seen, clock, expiries, written, expired, overtaken>>

\* Mutant: the Event that was read is not kept.
GetFoundUnread(w) ==
  /\ step[w] = "get" /\ cache # Nil
  /\ step' = [step EXCEPT ![w] = "update"]
  /\ UNCHANGED <<event, cache, rv, built, seen, clock, expiries, written, expired, overtaken>>

GetFound(w) ==
  /\ step[w] = "get" /\ cache # Nil
  /\ seen' = [seen EXCEPT ![w] = cache]
  /\ step' = [step EXCEPT ![w] = "update"]
  /\ UNCHANGED <<event, cache, rv, built, clock, expiries, written, expired, overtaken>>

(***************************************************************************)
(* A write takes effect, whether or not its answer arrives.                *)
(***************************************************************************)
Writes(e) ==
  /\ event' = e /\ rv' = rv + 1
  /\ written' = [written EXCEPT ![e.first] = @ + 1]

Create(w) ==
  /\ step[w] = "create" /\ event = Nil
  /\ Writes(BuildEvent(w))
  /\ Returns(w)
  /\ UNCHANGED <<cache, built, seen, clock, expiries, expired>>

\* Mutant: the write does not carry the resourceVersion that was read.
UpdateUnconditional(w) == TRUE

(***************************************************************************)
(* The resourceVersion protects an Event that is there.  For Events the    *)
(* API server creates what an Update does not find, and publishEvent sends *)
(* no UID that would prevent it: one that expired comes back as it was     *)
(* read.  (A server that refuses this answers with an error: LogError.)    *)
(***************************************************************************)
UpdateAllowed(w) == event # Nil => seen[w].rv = event.rv

Update(w) ==
  /\ step[w] = "update" /\ UpdateAllowed(w)
  /\ Writes(BuildUpdate(w))
  /\ Returns(w)
  /\ UNCHANGED <<cache, built, seen, clock, expiries, expired>>

(***************************************************************************)
(* Any call fails: an error of the API server, AlreadyExists, NotFound or  *)
(* a conflict.  It is logged.                                              *)
(***************************************************************************)
LogError(w) ==
  /\ step[w] # "idle"
  /\ Returns(w)
  /\ UNCHANGED <<event, cache, rv, built, seen, clock, expiries, written, expired>>

------------------------------------------------------------------------------
InformerSync ==
  /\ cache # event
  /\ cache' = event
  /\ UNCHANGED <<event, rv, step, built, seen, clock, expiries, written, expired, overtaken>>

Expire ==
  /\ event # Nil /\ expiries < MaxExpiries
  /\ event' = Nil
  /\ expiries' = expiries + 1
  /\ expired' = expired \cup {event.first}
  /\ UNCHANGED <<cache, rv, step, built, seen, clock, written, overtaken>>

Next ==
  \/ \E w \in Workers :
       Publish(w) \/ GetNotFound(w) \/ GetFound(w) \/ Create(w) \/ Update(w) \/ LogError(w)
  \/ InformerSync \/ Expire

Spec == Init /\ [][Next]_vars

------------------------------------------------------------------------------
(***************************************************************************)
(* Type invariant.                                                         *)
(***************************************************************************)
TypeOK ==
  /\ event \in Event \cup {Nil} /\ cache \in Event \cup {Nil} /\ rv \in Nat
  /\ step \in [Workers -> {"idle", "get", "create", "update"}]
  /\ built \in [Workers -> Nat]
  /\ seen \in [Workers -> Event \cup {Nil}]
  /\ \A w \in Workers : step[w] = "update" => seen[w] # Nil
  /\ clock \in 0 .. MaxPublish /\ expiries \in Nat
  /\ written \in [Times -> Nat] /\ expired \subseteq Times /\ overtaken \in BOOLEAN

(***************************************************************************)
(* The Event counts exactly the occurrences that were written since the    *)
(* one it names as its first, whichever workers publish at once, from      *)
(* however old a cache.  If it has expired and was brought back by an      *)
(* Update, it may count fewer, by what the cache had not seen, but never   *)
(* one that was not written (publishEvent's count and the resourceVersion  *)
(* whose need the code questions).                                         *)
(***************************************************************************)
CountsEveryWrite ==
  event # Nil =>
    /\ event.count <= written[event.first]
    /\ event.first \notin expired => event.count = written[event.first]

(***************************************************************************)
(* The time of the first occurrence is never moved while the Event lives,  *)
(* and an Event that appears begins at one, or goes on with the history of *)
(* an Event that expired, as a worker had read it: it never has a first    *)
(* occurrence of its own and the count of another (publishEvent:           *)
(* FirstTimestamp, Count).                                                 *)
(***************************************************************************)
FirstOccurrenceKept ==
  [][/\ event # Nil /\ event' # Nil => event'.first = event.first
     /\ event = Nil /\ event' # Nil => event'.count = 1 \/ event'.first \in expired]_vars

(***************************************************************************)
(* The last occurrence is not before the first one, unless a call that     *)
(* began later ended first: buildEvent takes the time before the Event is  *)
(* read.  This holds for an Event that was brought back as well.           *)
(***************************************************************************)
TimesInOrder == event # Nil /\ ~overtaken => event.first <= event.last
==============================================================================
