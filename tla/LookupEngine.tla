---------------------------- MODULE LookupEngine ----------------------------
(* lookup::Engine (src/src/lookup/engine.cpp) with the lookups that          *)
(* ScanController::dispatchLookup() starts on the global thread pool.  The   *)
(* dictionary set is replaced on the owner's thread while lookups run; they  *)
(* share it, the selections made from it and the cache of results under one  *)
(* mutex, and query the dictionaries without it.                             *)
(*                                                                           *)
(* A published set is named by its number; one store stands for those in it. *)
(* A request is the text with the category, the count and the options that   *)
(* are part of the CacheKey, all as one.  A selection is a function of the   *)
(* set and the category, so it is represented by its set.                    *)
EXTENDS Integers, Sequences

CONSTANTS
    Request, NoStore,
    StoreOf,        \* Seq: the store each published set names, in order
    Answers,        \* [store -> SUBSET Request]: what it has results for
    CacheCapacity,  \* cacheCapacity
    MaxLookups      \* bound: lookups on the pool and answers on their way

Set == 1 .. Len(StoreOf)
Store == {StoreOf[s] : s \in Set}

ASSUME EngineAssumption ==
    /\ StoreOf \in Seq(Store) /\ StoreOf # <<>>
    /\ NoStore \notin Store
    /\ Answers \in [Store -> SUBSET Request]
    /\ CacheCapacity \in Nat \ {0}
    /\ MaxLookups \in Nat \ {0}

VARIABLES
    published,  \* m_dictionaries
    cache,      \* m_cache with m_cacheIndex: entries, most recently used first
    pool        \* the lookups, in the order they were started

engine == <<published, cache, pool>>

(* m_cache holds the results beside their key.                               *)
Entry == [set : Set, request : Request, results : Store \cup {NoStore}]

(* A lookup: whether its ticket is the current one, the set it selected and  *)
(* the results it has, as the store they come from, NoStore for none.        *)
Lookup == [request : Request, listened : BOOLEAN,
           phase : {"queued", "selected", "missed", "answered"},
           set : Set \cup {0}, results : Store \cup {NoStore}]

Started(r) == [request |-> r, listened |-> TRUE, phase |-> "queued", set |-> 0, results |-> NoStore]

(* ++m_lookupTicket: the lookups run on, and no response is listened to.     *)
Overtaken(lookups) == [i \in DOMAIN lookups |-> [lookups[i] EXCEPT !.listened = FALSE]]

(* dispatchLookup().                                                         *)
Dispatched(lookups, r) == Append(Overtaken(lookups), Started(r))

Without(s, i) == SubSeq(s, 1, i - 1) \o SubSeq(s, i + 1, Len(s))

EngineInit ==
    /\ published = 1
    /\ cache = <<>>
    /\ pool = <<>>

-----------------------------------------------------------------------------
(* Mutant: the entry is found by the text alone.                             *)
AnswersText(e, s, r) == e.request = r

(* CacheKey: an entry answers for the set it was produced from.              *)
AnswersKey(e, s, r) == e.set = s /\ e.request = r

Cached(c, s, r) == {i \in DOMAIN c : AnswersKey(c[i], s, r)}

(* The entry a lookup finds becomes the most recently used one.              *)
Promoted(c, i) == <<c[i]>> \o Without(c, i)

(* The results are put in front, in place of those another thread may have   *)
(* cached for the key meanwhile, and the least recently used dropped.        *)
Remembered(c, e) ==
    LET existing == Cached(c, e.set, e.request)
        others == IF existing = {} THEN c ELSE Without(c, CHOOSE i \in existing : TRUE)
    IN  IF Len(others) < CacheCapacity THEN <<e>> \o others
        ELSE <<e>> \o SubSeq(others, 1, CacheCapacity - 1)

(* lookupUncached(): what the dictionaries of a set answer.                  *)
Queried(s, r) == IF r \in Answers[StoreOf[s]] THEN StoreOf[s] ELSE NoStore

(* Mutant: the published set is read a second time for the query.            *)
QueriesPublished(lookup) == published

(* lookupText() queries the selection lookup() made.                         *)
QueriesSet(lookup) == lookup.set

(* selectionFor(): once per lookup, under the mutex.                         *)
SelectionFor(i) ==
    /\ pool[i].phase = "queued"
    /\ pool' = [pool EXCEPT ![i].phase = "selected", ![i].set = published]
    /\ UNCHANGED <<published, cache>>

(* lookupText() looks the key up under the mutex.                            *)
FindCached(i) ==
    /\ pool[i].phase = "selected"
    /\ LET found == Cached(cache, pool[i].set, pool[i].request) IN
       IF found = {}
       THEN pool' = [pool EXCEPT ![i].phase = "missed"] /\ UNCHANGED cache
       ELSE \E e \in found :
                /\ cache' = Promoted(cache, e)
                /\ pool' = [pool EXCEPT ![i].phase = "answered", ![i].results = cache[e].results]
    /\ UNCHANGED published

(* It queries the set it selected and puts the results into the cache, under *)
(* the mutex again.                                                          *)
RememberResults(i) ==
    /\ pool[i].phase = "missed"
    /\ LET results == Queried(QueriesSet(pool[i]), pool[i].request) IN
       /\ pool' = [pool EXCEPT ![i].phase = "answered", ![i].results = results]
       /\ cache' = Remembered(cache, [set |-> pool[i].set, request |-> pool[i].request,
                                      results |-> results])
    /\ UNCHANGED published

(* What the pool's threads do by themselves.                                 *)
LookupStep == \E i \in DOMAIN pool : SelectionFor(i) \/ FindCached(i) \/ RememberResults(i)

(* setDictionaries().                                                        *)
SetDictionaries(s) == published' = s /\ cache' = <<>>

(* invalidateCache().                                                        *)
InvalidateCache == cache' = <<>> /\ UNCHANGED published

-----------------------------------------------------------------------------
EngineTypeOK ==
    /\ published \in Set
    /\ cache \in Seq(Entry) /\ Len(cache) <= CacheCapacity
    /\ pool \in Seq(Lookup)

(* A lookup is answered from the one set it selected, whatever is published  *)
(* and cached meanwhile by other threads (engine.h:71-73), and an entry      *)
(* never stands for another set than its key says (engine.h:124-126).        *)
AnswersFromItsSet ==
    /\ \A i \in DOMAIN pool : pool[i].phase = "answered" =>
            pool[i].results = Queried(pool[i].set, pool[i].request)
    /\ \A i \in DOMAIN cache : cache[i].results = Queried(cache[i].set, cache[i].request)
=============================================================================
