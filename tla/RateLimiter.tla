------------------------------ MODULE RateLimiter ------------------------------
(***************************************************************************)
(* The rate limiter of the HTTP API (httpapi/middleware.go).  A request    *)
(* reads the clock, and only then waits for the limiter's lock; its window *)
(* is the minute of the clock it read.  A key has one entry: the window of *)
(* the last request that arrived, and the requests counted in it.          *)
(***************************************************************************)
EXTENDS Integers, FiniteSets

CONSTANTS Requests,     \* requests, each of which arrives once
          Keys,         \* remote host and tenant
          KeyOf,        \* the key of a request
          Limit,        \* RateLimitPerMinute
          SweepAbove,   \* entries above which old ones are removed (5000)
          LastWindow    \* bound: the last minute of the clock

ASSUME KeysAssumption == KeyOf \in [Requests -> Keys]
ASSUME LimitAssumption == Limit \in Nat \ {0}
ASSUME ClockAssumption == LastWindow \in Nat /\ SweepAbove \in Nat

Windows == 0..LastWindow
NoEntry == [window |-> -1, count |-> 0]
Entries == [window : Windows, count : Nat \ {0}] \cup {NoEntry}

VARIABLES
  minute,    \* the minute of the clock
  read,      \* the window a request has read, and is about to bring to allow
  entries,   \* l.entries
  allowed,   \* history: requests let through, with their window
  refused,   \* history: requests answered with 429, likewise
  stale      \* history: requests whose minute had passed when they got the lock

vars == <<minute, read, entries, allowed, refused, stale>>

Answered == {p[1] : p \in allowed \cup refused}
Waiting  == DOMAIN read

-------------------------------------------------------------------------------
Tick ==
  /\ minute < LastWindow /\ minute' = minute + 1
  /\ UNCHANGED <<read, entries, allowed, refused, stale>>

\* time.Now(), an argument of the call.
ReadClock(r) ==
  /\ r \notin Waiting \cup Answered
  /\ read' = [q \in Waiting \cup {r} |-> IF q = r THEN minute ELSE read[q]]
  /\ UNCHANGED <<minute, entries, allowed, refused, stale>>

\* Mutation: the first request of a window is not counted.
CountedFromZero(entry, w) ==
  [window |-> w, count |-> IF entry.window = w THEN entry.count + 1 ELSE 0]

\* Mutation: a new window starts with a request counted that was not there.
CountedFromOne(entry, w) ==
  [window |-> w, count |-> IF entry.window = w THEN entry.count + 1 ELSE 2]

\* Mutation: a refusal starts the window anew.
CountedModulo(entry, w) ==
  [window |-> w, count |-> IF entry.window = w /\ entry.count <= Limit THEN entry.count + 1 ELSE 1]

Counted(entry, w) ==
  [window |-> w, count |-> IF entry.window = w THEN entry.count + 1 ELSE 1]

Present(E) == {k \in Keys : E[k] # NoEntry}

Swept(E, w) ==
  IF Cardinality(Present(E)) > SweepAbove
  THEN [k \in Keys |-> IF E[k].window < w - 2 THEN NoEntry ELSE E[k]]
  ELSE E

\* allow, under the lock.
Allow(r) ==
  /\ r \in Waiting
  /\ LET k == KeyOf[r]
         w == read[r]
         entry == Counted(entries[k], w)
     IN /\ entries' = Swept([entries EXCEPT ![k] = entry], w)
        /\ \/ entry.count <= Limit /\ allowed' = allowed \cup {<<r, w>>} /\ UNCHANGED refused
           \/ entry.count > Limit /\ refused' = refused \cup {<<r, w>>} /\ UNCHANGED allowed
        /\ stale' = IF w < minute THEN stale \cup {r} ELSE stale
  /\ read' = [q \in Waiting \ {r} |-> read[q]]
  /\ UNCHANGED minute

Init ==
  /\ minute = 0 /\ read = [r \in {} |-> 0]
  /\ entries = [k \in Keys |-> NoEntry]
  /\ allowed = {} /\ refused = {} /\ stale = {}

Next == Tick \/ \E r \in Requests : ReadClock(r) \/ Allow(r)

Spec == Init /\ [][Next]_vars

-------------------------------------------------------------------------------
(* Properties. *)

\* The requests of a key let through in a window.
AllowedIn(k, w) == {p \in allowed : KeyOf[p[1]] = k /\ p[2] = w}

StaleOf(k) == {r \in stale : KeyOf[r] = k}

TypeOK ==
  /\ minute \in Windows
  /\ Waiting \subseteq Requests \ Answered /\ \A r \in Waiting : read[r] \in 0..minute
  /\ entries \in [Keys -> Entries]
  /\ allowed \subseteq Requests \X Windows /\ refused \subseteq Requests \X Windows
  /\ stale \subseteq Answered

\* A request is refused only when the limit of its key was used up in its own
\* window, whatever order requests get the lock in and whatever is swept.
NoFalseRefusal == \A p \in refused : Cardinality(AllowedIn(KeyOf[p[1]], p[2])) >= Limit

\* Every request that comes late for its minute makes room for at most one more
\* limit's worth of requests of its key; without any, the limit holds.
OverrunIsBounded ==
  \A k \in Keys, w \in Windows :
    Cardinality(AllowedIn(k, w)) <= Limit * (1 + Cardinality(StaleOf(k)))

\* The setting: SAS_RATE_LIMIT_PER_MINUTE requests per minute.
LimitPerMinute == \A k \in Keys, w \in Windows : Cardinality(AllowedIn(k, w)) <= Limit
================================================================================
