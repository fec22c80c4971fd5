----------------------------- MODULE TrendCache -----------------------------
(***************************************************************************)
(* TrendCache of modules/adapters/cache.py: an OrderedDict of (value,       *)
(* inserted_at) with a capacity and a time to live, the least recently used *)
(* entry at the front.                                                      *)
(***************************************************************************)
EXTENDS Integers, FiniteSets, Sequences, SequencesExt

CONSTANTS
    Keys,
    NoValue,    \* None
    Capacity,
    Ttl,
    MaxTime     \* bound: the clock stops there

ASSUME CacheAssumption == Capacity \in Nat \ {0} /\ Ttl \in Nat /\ MaxTime \in Nat

VARIABLES
    now,        \* time.monotonic()
    store,      \* _store, front first
    got,        \* what the last get() returned: the key and the value
    \* history
    latest,     \* per key the last value put and when; NoValue once invalidated
    touched     \* keys put or hit, each once, the most recent last

cvars == <<now, store, got, latest, touched>>

CTypeOK ==
    /\ now \in 0 .. MaxTime
    /\ Len(store) <= Capacity /\ IsInjective([i \in 1 .. Len(store) |-> store[i].key])
    /\ \A i \in 1 .. Len(store) : store[i].key \in Keys /\ store[i].at \in 0 .. now

CInit ==
    /\ now = 0
    /\ store = <<>>
    /\ got = [key |-> NoValue, value |-> NoValue]
    /\ latest = [k \in Keys |-> [value |-> NoValue, at |-> 0]]
    /\ touched = <<>>
------------------------------------------------------------------------------
Entries(k) == {i \in 1 .. Len(store) : store[i].key = k}
Less(s, at) == IF at = {} THEN s ELSE RemoveAt(s, CHOOSE i \in at : TRUE)
Without(k) == Less(store, Entries(k))
Entry(k)   == store[CHOOSE i \in Entries(k) : TRUE]
Expired(k) == now - Entry(k).at > Ttl
Forget     == got' = [got EXCEPT !.value = NoValue]
Uses(k)    == {i \in 1 .. Len(touched) : touched[i] = k}
Touch(k)   == touched' = Append(Less(touched, Uses(k)), k)

\* Mutant of Hit: a hit does not move the entry to the end.
HitInPlace(k) ==
    /\ Entries(k) # {} /\ ~ Expired(k)
    /\ got' = [key |-> k, value |-> Entry(k).value]
    /\ Touch(k)
    /\ UNCHANGED <<now, store, latest>>

Hit(k) ==
    /\ Entries(k) # {} /\ ~ Expired(k)
    /\ got' = [key |-> k, value |-> Entry(k).value]
    /\ store' = Append(Without(k), Entry(k))
    /\ Touch(k)
    /\ UNCHANGED <<now, latest>>

\* An entry that is too old goes when it is asked for, and not before.
Miss(k) ==
    /\ Entries(k) # {} => Expired(k)
    /\ got' = [key |-> k, value |-> NoValue]
    /\ store' = Without(k)
    /\ UNCHANGED <<now, latest, touched>>

Get(k) == Hit(k) \/ Miss(k)

\* put(): the oldest entry goes only when the new one makes it one too many.
Put(k, v) ==
    LET s == Append(Without(k), [key |-> k, value |-> v, at |-> now])
    IN  /\ store' = IF Len(s) > Capacity THEN Tail(s) ELSE s
        /\ latest' = [latest EXCEPT ![k] = [value |-> v, at |-> now]]
        /\ Touch(k)
        /\ Forget /\ UNCHANGED now

Invalidate(k) ==
    /\ store' = Without(k)
    /\ latest' = [latest EXCEPT ![k].value = NoValue]
    /\ Forget /\ UNCHANGED <<now, touched>>

Clear ==
    /\ store' = <<>>
    /\ latest' = [k \in Keys |-> [latest[k] EXCEPT !.value = NoValue]]
    /\ Forget /\ UNCHANGED <<now, touched>>

Pass ==
    /\ now < MaxTime
    /\ now' = now + 1
    /\ Forget
    /\ UNCHANGED <<store, latest, touched>>
------------------------------------------------------------------------------
\* How many other keys were put or hit after k was last.
Since(k) == Cardinality({i \in 1 .. Len(touched) :
                \E j \in 1 .. i - 1 : touched[j] = k})

\* The cache is an LRU cache with a time to live, whatever was put, hit, expired,
\* invalidated and cleared before (cache.py:72-92): it serves nothing but the
\* last value put, and that no longer than Ttl after the put however often it is
\* read; and it still has every young key after which fewer than Capacity other
\* keys were used.
ServesLru ==
    /\ Len(store) <= Capacity
    /\ \A k \in Keys :
        /\ got.key = k /\ got.value # NoValue =>
              got.value = latest[k].value /\ now - latest[k].at <= Ttl
        /\ (/\ latest[k].value # NoValue /\ now - latest[k].at <= Ttl
            /\ Contains(touched, k) /\ Since(k) < Capacity)
           => Entries(k) # {} /\ Entry(k).value = latest[k].value
==============================================================================
