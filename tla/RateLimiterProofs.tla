--------------------------- MODULE RateLimiterProofs ---------------------------
(***************************************************************************)
(* Nobody is refused whose limit is not used up, and a window is overrun by*)
(* no more than its key's late requests account for, for any requests,     *)
(* keys, limit and sweeping.  The count of an entry is what was let through*)
(* in its window, up to the limit; an entry that is swept or overwritten   *)
(* only forgets.                                                           *)
(***************************************************************************)
EXTENDS RateLimiter, FiniteSetTheorems, TLAPS

\* A count is backed by requests that were let through.
Backed ==
  \A key \in Keys : entries[key] # NoEntry =>
    \/ entries[key].count <= Cardinality(AllowedIn(key, entries[key].window))
    \/ Limit <= Cardinality(AllowedIn(key, entries[key].window))

IInv == TypeOK /\ IsFiniteSet(allowed) /\ Backed /\ NoFalseRefusal

\* The entry of a key is a record with a window and a count, or no entry.
LEMMA EntryIs ==
  ASSUME TypeOK, NEW key \in Keys
  PROVE  /\ entries[key].window \in Int /\ entries[key].count \in Nat
         /\ entries[key] # NoEntry => entries[key].window \in Windows
         /\ entries[key].window # -1 => entries[key] # NoEntry
  BY LimitAssumption, ClockAssumption DEF TypeOK, Entries, NoEntry, Windows

\* A request that is let through adds one to those of its key and window.
LEMMA OneMore ==
  ASSUME IsFiniteSet(allowed), NEW r, NEW w, <<r, w>> \notin allowed,
         allowed' = allowed \cup {<<r, w>>}
  PROVE  /\ IsFiniteSet(allowed')
         /\ \A key, v : /\ Cardinality(AllowedIn(key, v)) \in Nat /\ Cardinality(AllowedIn(key, v)') \in Nat
                        /\ Cardinality(AllowedIn(key, v)) <= Cardinality(AllowedIn(key, v)')
         /\ Cardinality(AllowedIn(KeyOf[r], w)') = Cardinality(AllowedIn(KeyOf[r], w)) + 1
  <1>1. IsFiniteSet(allowed')
    BY FS_AddElement
  <1>2. ASSUME NEW key, NEW v
        PROVE  /\ Cardinality(AllowedIn(key, v)) \in Nat /\ Cardinality(AllowedIn(key, v)') \in Nat
               /\ Cardinality(AllowedIn(key, v)) <= Cardinality(AllowedIn(key, v)')
    <2>1. AllowedIn(key, v) \subseteq AllowedIn(key, v)'
      BY DEF AllowedIn
    <2>2. AllowedIn(key, v)' \subseteq allowed'
      BY DEF AllowedIn
    <2>3. IsFiniteSet(AllowedIn(key, v)')
      BY <1>1, <2>2, FS_Subset
    <2>4. IsFiniteSet(AllowedIn(key, v)) /\ Cardinality(AllowedIn(key, v)) <= Cardinality(AllowedIn(key, v)')
      BY <2>1, <2>3, FS_Subset
    <2> QED  BY <2>3, <2>4, FS_CardinalityType
  <1>3. Cardinality(AllowedIn(KeyOf[r], w)') = Cardinality(AllowedIn(KeyOf[r], w)) + 1
    <2>1. AllowedIn(KeyOf[r], w)' = AllowedIn(KeyOf[r], w) \cup {<<r, w>>}
      BY DEF AllowedIn
    <2>2. <<r, w>> \notin AllowedIn(KeyOf[r], w) /\ AllowedIn(KeyOf[r], w) \subseteq allowed
      BY DEF AllowedIn
    <2>3. IsFiniteSet(AllowedIn(KeyOf[r], w))
      BY <2>2, FS_Subset
    <2> QED  BY <2>1, <2>2, <2>3, FS_AddElement
  <1> QED  BY <1>1, <1>2, <1>3

\* Sweeping keeps an entry or removes it.
LEMMA SweptIs ==
  ASSUME NEW E \in [Keys -> Entries], NEW w \in Windows
  PROVE  /\ Swept(E, w) \in [Keys -> Entries]
         /\ \A key \in Keys : Swept(E, w)[key] \in {E[key], NoEntry}
  BY DEF Swept, Entries

\* At the start nothing has been counted.
LEMMA InitIsFine == Init => IInv
  <1> SUFFICES ASSUME Init PROVE IInv
    OBVIOUS
  <1>1. TypeOK
    BY ClockAssumption DEF Init, TypeOK, Windows, Entries, Waiting, Answered
  <1>2. IsFiniteSet(allowed)
    BY FS_EmptySet DEF Init
  <1>3. Backed /\ NoFalseRefusal
    BY DEF Init, Backed, NoFalseRefusal
  <1> QED  BY <1>1, <1>2, <1>3 DEF IInv

\* What the lock protects: the new entry counts the request that made it.
LEMMA AllowKeeps ==
  ASSUME IInv, NEW r \in Requests, Allow(r) PROVE IInv'
  <1>0. PICK key \in Keys, w \in Windows : key = KeyOf[r] /\ w = read[r]
    BY KeysAssumption, ClockAssumption DEF Allow, IInv, TypeOK, Windows
  <1>1. PICK entry, E :
          /\ key = KeyOf[r] /\ w = read[r] /\ entry = Counted(entries[key], w)
          /\ E = [entries EXCEPT ![key] = entry]
          /\ r \in Waiting /\ entries' = Swept(E, w)
          /\ \/ entry.count <= Limit /\ allowed' = allowed \cup {<<r, w>>} /\ UNCHANGED refused
             \/ entry.count > Limit /\ refused' = refused \cup {<<r, w>>} /\ UNCHANGED allowed
          /\ stale' = IF w < minute THEN stale \cup {r} ELSE stale
          /\ read' = [q \in Waiting \ {r} |-> read[q]] /\ UNCHANGED minute
    BY <1>0 DEF Allow
  <1>2. r \notin Answered
    BY <1>1 DEF IInv, TypeOK
  <1>3. /\ entry.window = w /\ entry.count \in Nat \ {0} /\ entry \in Entries /\ entry # NoEntry
        /\ entry.count = (IF entries[key].window = w THEN entries[key].count + 1 ELSE 1)
    BY <1>1, EntryIs, ClockAssumption DEF IInv, Counted, Entries, NoEntry, Windows
  <1>4. E \in [Keys -> Entries] /\ E[key] = entry /\ \A k \in Keys : k # key => E[k] = entries[k]
    BY <1>1, <1>3 DEF IInv, TypeOK
  <1>5. entries' \in [Keys -> Entries] /\ \A k \in Keys : entries'[k] \in {E[k], NoEntry}
    BY <1>1, <1>4, SweptIs
  <1>6. <<r, w>> \notin allowed
    BY <1>2 DEF Answered
  <1>7. /\ IsFiniteSet(allowed')
        /\ \A k, v : /\ Cardinality(AllowedIn(k, v)) \in Nat /\ Cardinality(AllowedIn(k, v)') \in Nat
                     /\ Cardinality(AllowedIn(k, v)) <= Cardinality(AllowedIn(k, v)')
    <2>1. CASE UNCHANGED allowed
      <3>1. \A k, v : AllowedIn(k, v)' = AllowedIn(k, v) /\ AllowedIn(k, v) \subseteq allowed
        BY <2>1 DEF AllowedIn
      <3>2. \A k, v : Cardinality(AllowedIn(k, v)) \in Nat
        BY <3>1, FS_Subset, FS_CardinalityType DEF IInv
      <3> QED  BY <2>1, <3>1, <3>2 DEF IInv
    <2>2. CASE allowed' = allowed \cup {<<r, w>>}
      BY <1>6, <2>2, OneMore DEF IInv
    <2> QED  BY <1>1, <2>1, <2>2
  <1>8. \/ entry.count <= Cardinality(AllowedIn(key, w)')
        \/ Limit <= Cardinality(AllowedIn(key, w)')
    <2>1. CASE entries[key].window = w
      <3>1. entries[key] # NoEntry
        BY <1>2, <2>1, ClockAssumption DEF NoEntry, Windows
      <3>2. \/ entries[key].count <= Cardinality(AllowedIn(key, w))
            \/ Limit <= Cardinality(AllowedIn(key, w))
        BY <1>2, <2>1, <3>1 DEF IInv, Backed
      <3>3. CASE entry.count <= Limit
        <4>1. Cardinality(AllowedIn(key, w)') = Cardinality(AllowedIn(key, w)) + 1
          BY <1>1, <1>3, <1>6, <3>3, LimitAssumption, OneMore DEF IInv
        <4>2. entries[key].count \in Nat
          BY <1>2, EntryIs DEF IInv
        <4> QED  BY <1>3, <1>7, <2>1, <3>2, <4>1, <4>2, LimitAssumption
      <3>4. CASE entry.count > Limit
        <4>1. entries[key].count \in Nat
          BY <1>2, EntryIs DEF IInv
        <4> QED  BY <1>3, <1>7, <2>1, <3>2, <3>4, <4>1, LimitAssumption
      <3> QED  BY <1>3, <3>3, <3>4, LimitAssumption
    <2>2. CASE entries[key].window # w
      <3>1. entry.count = 1
        BY <1>3, <2>2
      <3>2. allowed' = allowed \cup {<<r, w>>}
        BY <1>1, <3>1, LimitAssumption
      <3>3. Cardinality(AllowedIn(key, w)') = Cardinality(AllowedIn(key, w)) + 1
        BY <1>1, <1>6, <3>2, OneMore DEF IInv
      <3> QED  BY <1>7, <3>1, <3>3
    <2> QED  BY <2>1, <2>2
  <1>9. Backed'
    <2> SUFFICES ASSUME NEW k \in Keys, NEW v, NEW n, entries'[k] # NoEntry,
                        v = entries'[k].window, n = entries'[k].count
                 PROVE  n <= Cardinality(AllowedIn(k, v)') \/ Limit <= Cardinality(AllowedIn(k, v)')
      BY DEF Backed, AllowedIn
    <2>1. CASE k = key
      <3>1. v = w /\ n = entry.count
        BY <1>3, <1>4, <1>5, <2>1
      <3> QED  BY <1>8, <2>1, <3>1
    <2>2. CASE k # key
      <3>1. entries'[k] = entries[k]
        BY <1>4, <1>5, <2>2
      <3>2. n <= Cardinality(AllowedIn(k, v)) \/ Limit <= Cardinality(AllowedIn(k, v))
        BY <3>1 DEF IInv, Backed
      <3>3. n \in Nat
        BY <3>1, EntryIs DEF IInv
      <3>4. /\ Cardinality(AllowedIn(k, v)) \in Nat /\ Cardinality(AllowedIn(k, v)') \in Nat
            /\ Cardinality(AllowedIn(k, v)) <= Cardinality(AllowedIn(k, v)')
        BY <1>7
      <3> QED  BY <3>2, <3>3, <3>4, LimitAssumption
    <2> QED  BY <2>1, <2>2
  <1>10. NoFalseRefusal'
    <2> SUFFICES ASSUME NEW p \in refused'
                 PROVE  Cardinality(AllowedIn(KeyOf[p[1]], p[2])') >= Limit
      BY DEF NoFalseRefusal, AllowedIn
    <2>1. CASE p \in refused
      <3>1. Cardinality(AllowedIn(KeyOf[p[1]], p[2])) >= Limit
        BY <2>1 DEF IInv, NoFalseRefusal
      <3> QED  BY <1>7, <3>1, LimitAssumption
    <2>2. CASE p = <<r, w>> /\ entry.count > Limit
      <3>1. KeyOf[p[1]] = key /\ p[2] = w
        BY <1>1, <2>2
      <3>2. Limit <= Cardinality(AllowedIn(key, w)')
        BY <1>3, <1>7, <1>8, <2>2, LimitAssumption
      <3> QED  BY <1>7, <3>1, <3>2, LimitAssumption
    <2> QED  BY <1>1, <2>1, <2>2
  <1>11. TypeOK'
    <2>1. allowed' \cup refused' = allowed \cup refused \cup {<<r, w>>}
      BY <1>1
    <2>2. Answered' = Answered \cup {r}
      <3>1. \A x : x \in Answered' <=> \E p \in allowed' \cup refused' : x = p[1]
        BY DEF Answered
      <3>2. \A x : x \in Answered <=> \E p \in allowed \cup refused : x = p[1]
        BY DEF Answered
      <3>3. <<r, w>>[1] = r
        OBVIOUS
      <3>4. \A x : x \in Answered' <=> x \in Answered \/ x = r
        BY <2>1, <3>1, <3>2, <3>3
      <3> QED  BY <3>4
    <2>3. Waiting' = Waiting \ {r} /\ \A q \in Waiting' : read'[q] = read[q]
      BY <1>1 DEF Waiting
    <2>4. stale' \subseteq Answered'
      BY <1>1, <2>2 DEF IInv, TypeOK
    <2>5. allowed' \subseteq Requests \X Windows /\ refused' \subseteq Requests \X Windows
      BY <1>1, <1>2 DEF IInv, TypeOK
    <2>6. Waiting' \subseteq Requests \ Answered' /\ \A q \in Waiting' : read'[q] \in 0..minute'
      BY <1>1, <2>2, <2>3 DEF IInv, TypeOK
    <2> QED  BY <1>1, <1>5, <2>4, <2>5, <2>6 DEF IInv, TypeOK
  <1> QED  BY <1>7, <1>9, <1>10, <1>11 DEF IInv

\* Reading the clock, and its ticking, touch no entry and no answer.
LEMMA Inductive == IInv /\ [Next]_vars => IInv'
  <1> SUFFICES ASSUME IInv, [Next]_vars PROVE IInv'
    OBVIOUS
  <1>1. ASSUME UNCHANGED <<entries, allowed, refused, stale>>, TypeOK' PROVE IInv'
    BY <1>1 DEF IInv, Backed, NoFalseRefusal, AllowedIn
  <1>2. CASE Tick
    <2>1. TypeOK'
      BY <1>2, ClockAssumption DEF Tick, IInv, TypeOK, Windows, Waiting, Answered
    <2> QED  BY <1>1, <1>2, <2>1 DEF Tick
  <1>3. ASSUME NEW r \in Requests, ReadClock(r) PROVE IInv'
    <2>1. TypeOK'
      BY <1>3, ClockAssumption DEF ReadClock, IInv, TypeOK, Windows, Waiting, Answered
    <2> QED  BY <1>1, <1>3, <2>1 DEF ReadClock
  <1>4. ASSUME NEW r \in Requests, Allow(r) PROVE IInv'
    BY <1>4, AllowKeeps
  <1>5. CASE UNCHANGED vars
    BY <1>1, <1>5 DEF vars, IInv, TypeOK, Waiting, Answered
  <1> QED  BY <1>2, <1>3, <1>4, <1>5 DEF Next

\* A request is refused only when its key's limit was used up in its window, in
\* whatever order requests get the lock, for every limit.
THEOREM RefusalsAreRight == Spec => []NoFalseRefusal
  <1>1. IInv => NoFalseRefusal
    BY DEF IInv
  <1> QED  BY <1>1, InitIsFine, Inductive, PTL DEF Spec

\* Type correctness of the limiter.
THEOREM LimiterTypeCorrect == Spec => []TypeOK
  <1>1. IInv => TypeOK
    BY DEF IInv
  <1> QED  BY <1>1, InitIsFine, Inductive, PTL DEF Spec

(***************************************************************************)
(* How far the limit may be overrun.  A window that is over may have been  *)
(* forgotten, and starts afresh for a late request; the window of the clock*)
(* is forgotten only when a late request overwrites it.                    *)
(***************************************************************************)

Least(m, n) == IF m <= n THEN m ELSE n

\* What a key may have used of its limit in a window beyond the limits that its
\* late requests account for.
UsedUp(k, w) ==
  IF entries[k].window = w THEN Least(entries[k].count, Limit)
  ELSE IF w < minute THEN Limit
  ELSE 0

Bounded ==
  /\ IsFiniteSet(stale)
  /\ \A k \in Keys : /\ entries[k].window <= minute
                     /\ \A w \in Windows : Cardinality(AllowedIn(k, w))
                                             <= Limit * Cardinality(StaleOf(k)) + UsedUp(k, w)

\* Products with a limit, one factor at a time.
LEMMA Product ==
  ASSUME NEW a \in Nat, NEW b \in Nat
  PROVE  a * b \in Nat /\ a * (b + 1) = a * b + a
  OBVIOUS

\* The histories of a key are finite.
LEMMA Sizes ==
  ASSUME IsFiniteSet(allowed), IsFiniteSet(stale), NEW k, NEW w
  PROVE  Cardinality(AllowedIn(k, w)) \in Nat /\ Cardinality(StaleOf(k)) \in Nat
  <1>1. AllowedIn(k, w) \subseteq allowed /\ StaleOf(k) \subseteq stale
    BY DEF AllowedIn, StaleOf
  <1> QED  BY <1>1, FS_Subset, FS_CardinalityType

\* A late request adds one to those of its key.
LEMMA OneLater ==
  ASSUME IsFiniteSet(stale), NEW r, r \notin stale, stale' = stale \cup {r}
  PROVE  /\ IsFiniteSet(stale')
         /\ \A k : k # KeyOf[r] => StaleOf(k)' = StaleOf(k)
         /\ Cardinality(StaleOf(KeyOf[r])') = Cardinality(StaleOf(KeyOf[r])) + 1
  <1>1. StaleOf(KeyOf[r])' = StaleOf(KeyOf[r]) \cup {r} /\ r \notin StaleOf(KeyOf[r])
    BY DEF StaleOf
  <1>2. IsFiniteSet(StaleOf(KeyOf[r]))
    <2>1. StaleOf(KeyOf[r]) \subseteq stale
      BY DEF StaleOf
    <2> QED  BY <2>1, FS_Subset
  <1> QED  BY <1>1, <1>2, FS_AddElement DEF StaleOf

\* A request spends one of what is left of its window, or has the window start
\* afresh; what it overwrites is over, or it is late itself.
LEMMA AllowBounds ==
  ASSUME IInv, Bounded, NEW r \in Requests, Allow(r) PROVE Bounded'
  <1>0. PICK key \in Keys, w \in Windows : key = KeyOf[r] /\ w = read[r]
    BY KeysAssumption, ClockAssumption DEF Allow, IInv, TypeOK, Windows
  <1>1. PICK entry, E :
          /\ key = KeyOf[r] /\ w = read[r] /\ entry = Counted(entries[key], w)
          /\ E = [entries EXCEPT ![key] = entry]
          /\ r \in Waiting /\ entries' = Swept(E, w)
          /\ \/ entry.count <= Limit /\ allowed' = allowed \cup {<<r, w>>} /\ UNCHANGED refused
             \/ entry.count > Limit /\ refused' = refused \cup {<<r, w>>} /\ UNCHANGED allowed
          /\ stale' = IF w < minute THEN stale \cup {r} ELSE stale
          /\ UNCHANGED minute
    BY <1>0 DEF Allow
  <1>2. r \notin Answered /\ w <= minute /\ minute \in Int /\ w \in Int
    BY <1>1, ClockAssumption DEF IInv, TypeOK, Windows
  <1>3. /\ entry.window = w /\ entry.count \in Nat \ {0} /\ entry \in Entries
        /\ entry.count = (IF entries[key].window = w THEN entries[key].count + 1 ELSE 1)
    BY <1>1, EntryIs, ClockAssumption DEF IInv, Counted, Entries, NoEntry, Windows
  <1>4. /\ entries'[key] = entry
        /\ \A k \in Keys : k # key =>
             entries'[k] = entries[k] \/ (entries'[k] = NoEntry /\ entries[k].window < w - 2)
    BY <1>1, <1>2, <1>3 DEF IInv, TypeOK, Swept
  <1>5. \A k, v : k # key \/ v # w \/ entry.count > Limit => AllowedIn(k, v)' = AllowedIn(k, v)
    <2>1. entry.count > Limit => allowed' = allowed
      BY <1>1, <1>3, LimitAssumption
    <2>2. \A x \in allowed' \ allowed : KeyOf[x[1]] = key /\ x[2] = w
      BY <1>1
    <2>3. allowed \subseteq allowed'
      BY <1>1
    <2> QED  BY <2>1, <2>2, <2>3 DEF AllowedIn
  <1>6. /\ IsFiniteSet(allowed') /\ IsFiniteSet(stale')
        /\ entry.count <= Limit => Cardinality(AllowedIn(key, w)') = Cardinality(AllowedIn(key, w)) + 1
        /\ \A k \in Keys \ {key} : StaleOf(k)' = StaleOf(k)
        /\ IF w < minute THEN Cardinality(StaleOf(key)') = Cardinality(StaleOf(key)) + 1
                         ELSE StaleOf(key)' = StaleOf(key)
    <2>1. <<r, w>> \notin allowed /\ r \notin stale
      BY <1>2 DEF IInv, TypeOK, Answered
    <2>2. /\ entry.count <= Limit => /\ IsFiniteSet(allowed')
                                     /\ Cardinality(AllowedIn(key, w)') = Cardinality(AllowedIn(key, w)) + 1
          /\ entry.count > Limit => IsFiniteSet(allowed')
      BY <1>1, <1>3, <2>1, OneMore, LimitAssumption DEF IInv
    <2>3. CASE w < minute
      BY <1>1, <1>3, <2>1, <2>2, <2>3, OneLater, LimitAssumption DEF Bounded
    <2>4. CASE ~(w < minute)
      BY <1>1, <1>3, <2>2, <2>4, LimitAssumption DEF Bounded, StaleOf
    <2> QED  BY <2>3, <2>4
  <1>7. \A k \in Keys : /\ entries[k].window \in Int /\ entries[k].count \in Nat
                        /\ entries[k].window <= minute
    BY EntryIs DEF IInv, Bounded
  <1>8. \A k \in Keys : entries'[k].window <= minute'
    <2>1. -1 <= minute /\ NoEntry.window = -1
      BY ClockAssumption DEF NoEntry, IInv, TypeOK, Windows
    <2> QED  BY <1>1, <1>2, <1>3, <1>4, <1>7, <2>1
  <1>9. ASSUME NEW k \in Keys, NEW v \in Windows
        PROVE  Cardinality(AllowedIn(k, v)') <= Limit * Cardinality(StaleOf(k)') + UsedUp(k, v)'
    <2> DEFINE a  == Cardinality(AllowedIn(k, v))
               a1 == Cardinality(AllowedIn(k, v)')
               s  == Limit * Cardinality(StaleOf(k))
               s1 == Limit * Cardinality(StaleOf(k)')
    <2>1. a \in Nat /\ Cardinality(StaleOf(k)) \in Nat
      BY Sizes DEF IInv, Bounded
    <2>2. /\ s \in Nat /\ v \in Int /\ a <= s + UsedUp(k, v)
          /\ Limit * (Cardinality(StaleOf(k)) + 1) = s + Limit
      BY <2>1, Product, LimitAssumption, ClockAssumption DEF Bounded, Windows
    <2>3. UsedUp(k, v) \in Nat /\ UsedUp(k, v) <= Limit
      BY <1>7, LimitAssumption DEF UsedUp, Least
    <2>4. CASE k # key
      <3>1. a1 = a /\ s1 = s
        BY <1>5, <1>6, <2>4
      <3>2. UsedUp(k, v)' >= UsedUp(k, v)
        <4>1. CASE entries'[k] = entries[k]
          BY <1>1, <2>3, <4>1 DEF UsedUp
        <4>2. CASE entries'[k] = NoEntry /\ entries[k].window < w - 2
          BY <1>1, <1>2, <1>7, <2>2, <2>3, <4>2, LimitAssumption, ClockAssumption
          DEF UsedUp, NoEntry, Windows
        <4> QED  BY <1>4, <2>4, <4>1, <4>2
      <3>3. UsedUp(k, v)' \in Int
        <4>1. entries'[k].count \in Nat
          BY <1>4, <1>7, <2>4 DEF NoEntry
        <4> QED  BY <4>1, LimitAssumption DEF UsedUp, Least
      <3> QED  BY <2>1, <2>2, <2>3, <3>1, <3>2, <3>3
    <2>5. CASE k = key /\ v # w
      <3>1. a1 = a
        BY <1>5, <2>5
      <3>2. UsedUp(k, v)' = IF v < minute THEN Limit ELSE 0
        BY <1>1, <1>3, <1>4, <2>5 DEF UsedUp
      <3>3. s1 = IF w < minute THEN s + Limit ELSE s
        BY <1>6, <2>2, <2>5
      <3>4. v < minute \/ UsedUp(k, v) = 0 \/ w < minute
        BY <1>2, <1>7, <2>2, <2>5 DEF UsedUp
      <3> HIDE DEF a, a1, s, s1
      <3> QED  BY <2>1, <2>2, <2>3, <3>1, <3>2, <3>3, <3>4, LimitAssumption DEF a, a1, s, s1
    <2>6. CASE k = key /\ v = w
      <3>1. a1 = IF entry.count <= Limit THEN a + 1 ELSE a
        BY <1>3, <1>5, <1>6, <2>6, LimitAssumption
      <3>2. UsedUp(k, v)' = Least(entry.count, Limit)
        BY <1>3, <1>4, <2>6 DEF UsedUp
      <3>3. s1 = IF w < minute THEN s + Limit ELSE s
        BY <1>6, <2>2, <2>6
      <3>4. CASE entries[k].window = w
        <4>1. UsedUp(k, v) = Least(entries[k].count, Limit) /\ entry.count = entries[k].count + 1
          BY <1>3, <2>6, <3>4 DEF UsedUp
        <4> HIDE DEF a, a1, s, s1
        <4> QED  BY <1>7, <2>1, <2>2, <3>1, <3>2, <3>3, <4>1, LimitAssumption DEF Least, a, a1, s, s1
      <3>5. CASE entries[k].window # w
        <4>1. UsedUp(k, v) = (IF w < minute THEN Limit ELSE 0) /\ entry.count = 1
          BY <1>3, <2>6, <3>5 DEF UsedUp
        <4> HIDE DEF a, a1, s, s1
        <4> QED  BY <2>1, <2>2, <3>1, <3>2, <3>3, <4>1, LimitAssumption DEF Least, a, a1, s, s1
      <3> QED  BY <3>4, <3>5
    <2> QED  BY <2>4, <2>5, <2>6
  <1> QED  BY <1>6, <1>8, <1>9 DEF Bounded

\* A tick of the clock only gives up the window that is over.
LEMMA BoundedKept == IInv /\ Bounded /\ [Next]_vars => Bounded'
  <1> SUFFICES ASSUME IInv, Bounded, [Next]_vars PROVE Bounded'
    OBVIOUS
  <1>1. ASSUME NEW r \in Requests, Allow(r) PROVE Bounded'
    BY <1>1, AllowBounds
  <1>2. ASSUME UNCHANGED <<entries, allowed, stale>>, minute' \in Int, minute <= minute' PROVE Bounded'
    <2>1. ASSUME NEW k \in Keys, NEW w \in Windows
          PROVE  Cardinality(AllowedIn(k, w)') <= Limit * Cardinality(StaleOf(k)') + UsedUp(k, w)'
      <3>1. AllowedIn(k, w)' = AllowedIn(k, w) /\ StaleOf(k)' = StaleOf(k)
        BY <1>2 DEF AllowedIn, StaleOf
      <3>2. /\ UsedUp(k, w) \in Nat /\ UsedUp(k, w)' \in Nat /\ UsedUp(k, w) <= UsedUp(k, w)'
        BY <1>2, EntryIs, LimitAssumption, ClockAssumption DEF UsedUp, Least, IInv, TypeOK, Windows
      <3>3. Cardinality(AllowedIn(k, w)) \in Nat /\ Cardinality(StaleOf(k)) \in Nat
        BY Sizes DEF IInv, Bounded
      <3>4. Limit * Cardinality(StaleOf(k)) \in Nat
        BY <3>3, Product, LimitAssumption
      <3> QED  BY <3>1, <3>2, <3>3, <3>4 DEF Bounded
    <2>2. \A k \in Keys : entries'[k].window <= minute'
      BY <1>2, EntryIs, ClockAssumption DEF IInv, Bounded, TypeOK, Windows
    <2> QED  BY <1>2, <2>1, <2>2 DEF Bounded
  <1>3. minute \in Int
    BY ClockAssumption DEF IInv, TypeOK, Windows
  <1>4. CASE Tick
    BY <1>2, <1>3, <1>4 DEF Tick
  <1>5. CASE UNCHANGED vars \/ \E r \in Requests : ReadClock(r)
    <2>1. UNCHANGED <<minute, entries, allowed, stale>>
      BY <1>5 DEF vars, ReadClock
    <2> QED  BY <1>2, <1>3, <2>1
  <1> QED  BY <1>1, <1>4, <1>5 DEF Next

\* Nothing is used up before the first request.
LEMMA BoundedAtFirst == Init => Bounded
  <1> SUFFICES ASSUME Init PROVE Bounded
    OBVIOUS
  <1>1. \A k, w : AllowedIn(k, w) = {} /\ StaleOf(k) = {}
    BY DEF Init, AllowedIn, StaleOf
  <1>2. IsFiniteSet({}) /\ Cardinality({}) = 0
    BY FS_EmptySet
  <1>3. Limit * 0 + 0 = 0
    BY LimitAssumption
  <1>4. ASSUME NEW k \in Keys PROVE entries[k].window <= minute /\ \A w \in Windows : UsedUp(k, w) = 0
    BY ClockAssumption DEF Init, UsedUp, NoEntry, Windows
  <1>5. ASSUME NEW k \in Keys, NEW w \in Windows
        PROVE  Cardinality(AllowedIn(k, w)) <= Limit * Cardinality(StaleOf(k)) + UsedUp(k, w)
    <2>1. Cardinality(AllowedIn(k, w)) = 0 /\ Cardinality(StaleOf(k)) = 0 /\ UsedUp(k, w) = 0
      BY <1>1, <1>2, <1>4
    <2> QED  BY <1>3, <2>1
  <1>6. IsFiniteSet(stale)
    BY <1>2 DEF Init
  <1> QED  BY <1>4, <1>5, <1>6 DEF Bounded

\* A window never has more than its limit left to use up.
LEMMA InvImpliesBounded == IInv /\ Bounded => OverrunIsBounded
  <1> SUFFICES ASSUME IInv, Bounded, NEW k \in Keys, NEW w \in Windows
               PROVE  Cardinality(AllowedIn(k, w)) <= Limit * (1 + Cardinality(StaleOf(k)))
    BY DEF OverrunIsBounded
  <1>1. Cardinality(AllowedIn(k, w)) \in Nat /\ Cardinality(StaleOf(k)) \in Nat
    BY Sizes DEF IInv, Bounded
  <1>2. UsedUp(k, w) \in Nat /\ UsedUp(k, w) <= Limit
    BY EntryIs, LimitAssumption DEF UsedUp, Least, IInv
  <1>3. /\ Limit * (Cardinality(StaleOf(k)) + 1) = Limit * Cardinality(StaleOf(k)) + Limit
        /\ Limit * Cardinality(StaleOf(k)) \in Nat
    BY <1>1, Product, LimitAssumption
  <1>4. Cardinality(AllowedIn(k, w)) <= Limit * Cardinality(StaleOf(k)) + UsedUp(k, w)
    BY DEF Bounded
  <1>5. 1 + Cardinality(StaleOf(k)) = Cardinality(StaleOf(k)) + 1
    BY <1>1
  <1> QED  BY <1>1, <1>2, <1>3, <1>4, <1>5, LimitAssumption

\* The requests let through in a minute exceed the limit by at most one limit's
\* worth for each request of the key that was late for its own minute.
THEOREM OverrunsAreBounded == Spec => []OverrunIsBounded
  BY InvImpliesBounded, InitIsFine, Inductive, BoundedAtFirst, BoundedKept, PTL DEF Spec
================================================================================
