-------------------------- MODULE ApplicationProofs --------------------------
(* The lookup engine's answers, what is let go of when dictionaries are      *)
(* replaced, the frozen card and the card's agreement with the scan loop,    *)
(* for every text, every sequence of dictionary sets, every geometry and     *)
(* every number of lookups and commands.                                     *)
EXTENDS Application, PopupWindowProofs, SequenceTheorems

-----------------------------------------------------------------------------
(* Taking out one element of a sequence keeps the others.                    *)
LEMMA WithoutElements ==
    ASSUME NEW S, NEW s \in Seq(S), NEW i \in 1 .. Len(s)
    PROVE  /\ Without(s, i) \in Seq(S)
           /\ Len(Without(s, i)) = Len(s) - 1
           /\ \A j \in 1 .. Len(s) - 1 : \E k \in 1 .. Len(s) : Without(s, i)[j] = s[k]
<1>0. i \in Int /\ Len(s) \in Nat /\ \A j \in 1 .. Len(s) : s[j] \in S
  BY ElementOfSeq, LenProperties
<1> DEFINE before == SubSeq(s, 1, i - 1)
           after == SubSeq(s, i + 1, Len(s))
<1>1. before \in Seq(S) /\ Len(before) = i - 1 /\ \A j \in 1 .. i - 1 : before[j] = s[j]
  <2>1. \A j \in 1 .. i - 1 : s[j] \in S
    BY <1>0
  <2>2. /\ before \in Seq(S)
        /\ Len(before) = IF 1 <= i - 1 THEN (i - 1) - 1 + 1 ELSE 0
        /\ \A j \in 1 .. (i - 1) - 1 + 1 : before[j] = s[1 + j - 1]
    BY <1>0, <2>1, SubSeqProperties
  <2> QED BY <2>2, <1>0
<1>2. /\ after \in Seq(S) /\ Len(after) = Len(s) - i
      /\ \A j \in 1 .. Len(s) - i : after[j] = s[i + j]
  <2>1. \A j \in i + 1 .. Len(s) : s[j] \in S
    BY <1>0
  <2>2. /\ after \in Seq(S)
        /\ Len(after) = IF i + 1 <= Len(s) THEN Len(s) - (i + 1) + 1 ELSE 0
        /\ \A j \in 1 .. Len(s) - (i + 1) + 1 : after[j] = s[i + 1 + j - 1]
    BY <1>0, <2>1, SubSeqProperties
  <2> QED BY <2>2, <1>0
<1> HIDE DEF before, after
<1>3. /\ before \o after \in Seq(S)
      /\ Len(before \o after) = Len(before) + Len(after)
      /\ \A j \in 1 .. Len(before) + Len(after) :
            (before \o after)[j] = IF j <= Len(before) THEN before[j] ELSE after[j - Len(before)]
  BY <1>1, <1>2, ConcatProperties
<1>4. ASSUME NEW j \in 1 .. Len(s) - 1
      PROVE  \E k \in 1 .. Len(s) : (before \o after)[j] = s[k]
  <2>1. CASE j <= i - 1
    <3>1. (before \o after)[j] = s[j] /\ j \in 1 .. Len(s)
      BY <2>1, <1>0, <1>1, <1>2, <1>3
    <3> QED BY <3>1
  <2>2. CASE j > i - 1
    <3>1. (before \o after)[j] = after[j - (i - 1)] /\ j - (i - 1) \in 1 .. Len(s) - i
      BY <2>2, <1>0, <1>1, <1>2, <1>3
    <3>2. after[j - (i - 1)] = s[j + 1] /\ j + 1 \in 1 .. Len(s)
      BY <3>1, <1>0, <1>2
    <3> QED BY <3>1, <3>2
  <2>3. j <= i - 1 \/ j > i - 1
    BY <1>0
  <2> QED BY <2>1, <2>2, <2>3
<1>5. Without(s, i) = before \o after
  BY DEF Without, before, after
<1>6. Len(before) + Len(after) = Len(s) - 1
  BY <1>0, <1>1, <1>2
<1> QED BY <1>3, <1>4, <1>5, <1>6

(* An element put in front leaves the others.                                *)
LEMMA FrontElements ==
    ASSUME NEW S, NEW s \in Seq(S), NEW e \in S
    PROVE  /\ <<e>> \o s \in Seq(S)
           /\ Len(<<e>> \o s) = Len(s) + 1
           /\ \A j \in 1 .. Len(s) + 1 :
                (<<e>> \o s)[j] = e \/ \E k \in 1 .. Len(s) : (<<e>> \o s)[j] = s[k]
<1>0. <<e>> \in Seq(S) /\ Len(<<e>>) = 1 /\ <<e>>[1] = e /\ Len(s) \in Nat
  OBVIOUS
<1>1. /\ <<e>> \o s \in Seq(S)
      /\ Len(<<e>> \o s) = 1 + Len(s)
      /\ \A j \in 1 .. 1 + Len(s) : (<<e>> \o s)[j] = IF j <= 1 THEN <<e>>[j] ELSE s[j - 1]
  BY <1>0, ConcatProperties
<1>2. ASSUME NEW j \in 1 .. Len(s) + 1
      PROVE  (<<e>> \o s)[j] = e \/ \E k \in 1 .. Len(s) : (<<e>> \o s)[j] = s[k]
  <2>1. CASE j = 1
    BY <2>1, <1>0, <1>1
  <2>2. CASE j # 1
    <3>1. (<<e>> \o s)[j] = s[j - 1] /\ j - 1 \in 1 .. Len(s)
      BY <2>2, <1>0, <1>1
    <3> QED BY <3>1
  <2> QED BY <2>1, <2>2
<1> QED BY <1>0, <1>1, <1>2

(* So does an element put at the end.                                        *)
LEMMA AppendedElements ==
    ASSUME NEW S, NEW s \in Seq(S), NEW e \in S
    PROVE  /\ Append(s, e) \in Seq(S)
           /\ Len(Append(s, e)) = Len(s) + 1
           /\ \A j \in 1 .. Len(s) + 1 : Append(s, e)[j] = IF j <= Len(s) THEN s[j] ELSE e
OBVIOUS

-----------------------------------------------------------------------------
(* What holds of the lookups on the pool and of the cached entries.          *)
SoundLookup(l) ==
    /\ l.phase # "queued" => l.set \in Set
    /\ l.phase = "answered" => l.results = Queried(l.set, l.request)

Sound(lookups) ==
    /\ lookups \in Seq(Lookup)
    /\ \A i \in 1 .. Len(lookups) : SoundLookup(lookups[i])

SoundEntries(c) ==
    /\ c \in Seq(Entry) /\ Len(c) <= CacheCapacity
    /\ \A i \in 1 .. Len(c) : c[i].results = Queried(c[i].set, c[i].request)

EngineInv == published \in Set /\ SoundEntries(cache) /\ Sound(pool)

(* A query answers from a store of the set, or not at all.                   *)
LEMMA QueriedStore ==
    ASSUME NEW s \in Set, NEW r
    PROVE  Queried(s, r) \in Store \cup {NoStore}
BY DEF Queried, Store

(* Lookups that no one listens to any more are as sound as they were.        *)
LEMMA OvertakenSound ==
    ASSUME NEW lookups, Sound(lookups)
    PROVE  Sound(Overtaken(lookups))
<1>1. /\ lookups \in Seq(Lookup) /\ Len(lookups) \in Nat /\ DOMAIN lookups = 1 .. Len(lookups)
      /\ \A i \in 1 .. Len(lookups) : lookups[i] \in Lookup
  BY ElementOfSeq, LenProperties DEF Sound
<1>2. Overtaken(lookups) \in [1 .. Len(lookups) -> Lookup]
  BY <1>1 DEF Overtaken, Lookup
<1>3. Overtaken(lookups) \in Seq(Lookup) /\ Len(Overtaken(lookups)) = Len(lookups)
  BY <1>1, <1>2
<1>4. ASSUME NEW i \in 1 .. Len(lookups)
      PROVE  SoundLookup(Overtaken(lookups)[i])
  BY <1>1 DEF Overtaken, Sound, SoundLookup, Lookup
<1> QED BY <1>3, <1>4 DEF Sound

LEMMA OvertakenEmpty ==
    ASSUME NEW lookups, Sound(lookups)
    PROVE  Overtaken(lookups) # <<>> => lookups # <<>>
<1>1. lookups \in Seq(Lookup)
  BY DEF Sound
<1> SUFFICES ASSUME lookups = <<>> PROVE Overtaken(lookups) = <<>>
  OBVIOUS
<1>2. DOMAIN lookups = {}
  BY EmptySeq
<1>3. Overtaken(lookups) = [i \in {} |-> [lookups[i] EXCEPT !.listened = FALSE]]
  BY <1>2 DEF Overtaken
<1>4. DOMAIN Overtaken(lookups) = {} /\ Overtaken(lookups) = [i \in {} |-> lookups[i]]
  BY <1>3
<1>5. lookups = [i \in {} |-> lookups[i]]
  BY <1>1, <1>2
<1> QED BY <1>4, <1>5

(* A lookup that is started has nothing to be sound about.                   *)
LEMMA DispatchedSound ==
    ASSUME NEW lookups, Sound(lookups), NEW r \in Request
    PROVE  Sound(Dispatched(lookups, r))
<1>1. Started(r) \in Lookup /\ Started(r).phase = "queued"
  BY DEF Started, Lookup
<1>2. Sound(Overtaken(lookups))
  BY OvertakenSound
<1> DEFINE o == Overtaken(lookups)
<1>3. /\ Append(o, Started(r)) \in Seq(Lookup)
      /\ Len(Append(o, Started(r))) = Len(o) + 1
      /\ \A j \in 1 .. Len(o) + 1 : Append(o, Started(r))[j] = IF j <= Len(o) THEN o[j] ELSE Started(r)
  BY <1>1, <1>2, AppendedElements DEF Sound
<1>4. Len(o) \in Nat
  BY <1>2, LenProperties DEF Sound
<1> QED BY <1>1, <1>2, <1>3, <1>4 DEF Sound, SoundLookup, Dispatched

(* Nor is one that is taken off the pool.                                    *)
LEMMA WithoutSound ==
    ASSUME NEW lookups, Sound(lookups), NEW i \in 1 .. Len(lookups)
    PROVE  Sound(Without(lookups, i))
<1>1. /\ Without(lookups, i) \in Seq(Lookup)
      /\ Len(Without(lookups, i)) = Len(lookups) - 1
      /\ \A j \in 1 .. Len(lookups) - 1 :
            \E k \in 1 .. Len(lookups) : Without(lookups, i)[j] = lookups[k]
  <2>1. lookups \in Seq(Lookup)
    BY DEF Sound
  <2> QED BY <2>1, WithoutElements
<1>2. ASSUME NEW j \in 1 .. Len(lookups) - 1
      PROVE  SoundLookup(Without(lookups, i)[j])
  <2>1. PICK k \in 1 .. Len(lookups) : Without(lookups, i)[j] = lookups[k]
    BY <1>1
  <2> QED BY <2>1 DEF Sound
<1> QED BY <1>1, <1>2 DEF Sound

(* A lookup that goes a step further keeps the others as they are.           *)
LEMMA StepSound ==
    ASSUME NEW lookups, Sound(lookups), NEW i \in 1 .. Len(lookups), NEW l \in Lookup,
           SoundLookup(l)
    PROVE  Sound([lookups EXCEPT ![i] = l])
<1>1. lookups \in Seq(Lookup)
  BY DEF Sound
<1>2. /\ [lookups EXCEPT ![i] = l] \in Seq(Lookup)
      /\ Len([lookups EXCEPT ![i] = l]) = Len(lookups)
      /\ \A j \in 1 .. Len(lookups) : [lookups EXCEPT ![i] = l][j] = IF j = i THEN l ELSE lookups[j]
  BY <1>1, ExceptSeq
<1> QED BY <1>2 DEF Sound

(* The entries that remain when one is taken out are sound.                  *)
LEMMA WithoutSoundEntries ==
    ASSUME NEW c, SoundEntries(c), NEW i \in 1 .. Len(c)
    PROVE  SoundEntries(Without(c, i)) /\ Len(Without(c, i)) = Len(c) - 1
<1>1. c \in Seq(Entry) /\ Len(c) \in Nat /\ Len(c) <= CacheCapacity /\ CacheCapacity \in Nat
  BY LenProperties, EngineAssumption DEF SoundEntries
<1>2. /\ Without(c, i) \in Seq(Entry)
      /\ Len(Without(c, i)) = Len(c) - 1
      /\ \A j \in 1 .. Len(c) - 1 : \E k \in 1 .. Len(c) : Without(c, i)[j] = c[k]
  BY <1>1, WithoutElements
<1>3. ASSUME NEW j \in 1 .. Len(c) - 1
      PROVE  Without(c, i)[j].results = Queried(Without(c, i)[j].set, Without(c, i)[j].request)
  <2>1. PICK k \in 1 .. Len(c) : Without(c, i)[j] = c[k]
    BY <1>2
  <2> QED BY <2>1 DEF SoundEntries
<1>4. Len(c) - 1 <= CacheCapacity
  BY <1>1
<1> QED BY <1>2, <1>3, <1>4 DEF SoundEntries

(* A cache that was cleared.                                                 *)
LEMMA NoEntriesSound == SoundEntries(<<>>)
BY EngineAssumption, EmptySeq DEF SoundEntries

(* The entries in front of which another one is put are sound with it.       *)
LEMMA FrontSoundEntries ==
    ASSUME NEW c, SoundEntries(c), Len(c) < CacheCapacity, NEW e \in Entry,
           e.results = Queried(e.set, e.request)
    PROVE  SoundEntries(<<e>> \o c)
<1>1. c \in Seq(Entry) /\ Len(c) \in Nat /\ CacheCapacity \in Nat
  BY LenProperties, EngineAssumption DEF SoundEntries
<1>2. /\ <<e>> \o c \in Seq(Entry)
      /\ Len(<<e>> \o c) = Len(c) + 1
      /\ \A j \in 1 .. Len(c) + 1 :
            (<<e>> \o c)[j] = e \/ \E k \in 1 .. Len(c) : (<<e>> \o c)[j] = c[k]
  BY <1>1, FrontElements
<1> DEFINE front == <<e>> \o c
<1> HIDE DEF front
<1>3. ASSUME NEW j \in 1 .. Len(c) + 1
      PROVE  front[j].results = Queried(front[j].set, front[j].request)
  <2>1. front[j] = e \/ \E k \in 1 .. Len(c) : front[j] = c[k]
    BY <1>2 DEF front
  <2>2. CASE front[j] = e
    BY <2>2
  <2>3. ASSUME NEW k \in 1 .. Len(c), front[j] = c[k]
        PROVE  front[j].results = Queried(front[j].set, front[j].request)
    BY <2>3 DEF SoundEntries
  <2> QED BY <2>1, <2>2, <2>3
<1>4. Len(c) + 1 <= CacheCapacity
  BY <1>1
<1>5. front \in Seq(Entry) /\ Len(front) = Len(c) + 1
  BY <1>2 DEF front
<1>6. SoundEntries(front)
  BY <1>3, <1>4, <1>5 DEF SoundEntries
<1> QED BY <1>6 DEF front

(* The first of the entries are sound.                                       *)
LEMMA FirstSoundEntries ==
    ASSUME NEW c, SoundEntries(c), NEW n \in Nat, n <= Len(c)
    PROVE  SoundEntries(SubSeq(c, 1, n)) /\ Len(SubSeq(c, 1, n)) = n
<1>1. /\ c \in Seq(Entry) /\ Len(c) \in Nat /\ Len(c) <= CacheCapacity /\ CacheCapacity \in Nat
      /\ \A j \in 1 .. Len(c) : c[j] \in Entry
  BY LenProperties, ElementOfSeq, EngineAssumption DEF SoundEntries
<1>2. \A j \in 1 .. n : c[j] \in Entry
  BY <1>1
<1>3. /\ SubSeq(c, 1, n) \in Seq(Entry)
      /\ Len(SubSeq(c, 1, n)) = IF 1 <= n THEN n - 1 + 1 ELSE 0
      /\ \A j \in 1 .. n - 1 + 1 : SubSeq(c, 1, n)[j] = c[1 + j - 1]
  BY <1>2, SubSeqProperties
<1>4. Len(SubSeq(c, 1, n)) = n /\ \A j \in 1 .. n : SubSeq(c, 1, n)[j] = c[j]
  BY <1>3
<1> QED BY <1>1, <1>3, <1>4 DEF SoundEntries

(* The entry that answered goes to the front.                                *)
LEMMA PromotedSound ==
    ASSUME NEW c, SoundEntries(c), NEW i \in 1 .. Len(c)
    PROVE  SoundEntries(Promoted(c, i))
<1>1. c[i] \in Entry /\ c[i].results = Queried(c[i].set, c[i].request)
  BY ElementOfSeq DEF SoundEntries
<1>2. SoundEntries(Without(c, i)) /\ Len(Without(c, i)) = Len(c) - 1
  BY WithoutSoundEntries
<1>3. Len(Without(c, i)) < CacheCapacity
  BY <1>2, LenProperties, EngineAssumption DEF SoundEntries
<1> QED BY <1>1, <1>2, <1>3, FrontSoundEntries DEF Promoted

(* A new one takes the place of its like, and of the oldest where it has to. *)
LEMMA RememberedSound ==
    ASSUME NEW c, SoundEntries(c), NEW e \in Entry, e.results = Queried(e.set, e.request)
    PROVE  SoundEntries(Remembered(c, e))
<1> DEFINE existing == Cached(c, e.set, e.request)
           others == IF existing = {} THEN c ELSE Without(c, CHOOSE i \in existing : TRUE)
<1>1. Len(c) \in Nat /\ DOMAIN c = 1 .. Len(c) /\ CacheCapacity \in Nat \ {0}
  BY LenProperties, EngineAssumption DEF SoundEntries
<1>2. SoundEntries(others)
  <2>1. CASE existing = {}
    BY <2>1
  <2>2. CASE existing # {}
    <3>1. (CHOOSE i \in existing : TRUE) \in 1 .. Len(c)
      BY <2>2, <1>1 DEF Cached
    <3> QED BY <2>2, <3>1, WithoutSoundEntries
  <2> QED BY <2>1, <2>2
<1> HIDE DEF others
<1>3. Len(others) \in Nat
  BY <1>2, LenProperties DEF SoundEntries
<1>4. CASE Len(others) < CacheCapacity
  <2>1. SoundEntries(<<e>> \o others)
    BY <1>2, <1>4, FrontSoundEntries
  <2> QED BY <1>4, <2>1 DEF Remembered, others
<1>5. CASE ~(Len(others) < CacheCapacity)
  <2> DEFINE first == SubSeq(others, 1, CacheCapacity - 1)
  <2>1. SoundEntries(first) /\ Len(first) = CacheCapacity - 1
    <3>1. CacheCapacity - 1 \in Nat /\ CacheCapacity - 1 <= Len(others)
      BY <1>1, <1>3, <1>5
    <3> QED BY <3>1, <1>2, FirstSoundEntries
  <2> HIDE DEF first
  <2>2. SoundEntries(<<e>> \o first)
    <3>1. Len(first) < CacheCapacity
      BY <2>1, <1>1
    <3> QED BY <2>1, <3>1, FrontSoundEntries
  <2> QED BY <1>5, <2>2 DEF Remembered, others, first
<1> QED BY <1>4, <1>5

(* Every step of a lookup on the pool keeps the invariant.                   *)
LEMMA LookupStepInv ==
    ASSUME EngineInv, LookupStep
    PROVE  EngineInv'
<1>0. /\ published \in Set /\ SoundEntries(cache) /\ Sound(pool)
      /\ pool \in Seq(Lookup) /\ DOMAIN pool = 1 .. Len(pool)
      /\ cache \in Seq(Entry) /\ DOMAIN cache = 1 .. Len(cache)
  BY LenProperties DEF EngineInv, Sound, SoundEntries
<1>1. PICK i \in 1 .. Len(pool) : SelectionFor(i) \/ FindCached(i) \/ RememberResults(i)
  BY <1>0 DEF LookupStep
<1>2. pool[i] \in Lookup
  BY <1>0, ElementOfSeq
<1>3. CASE SelectionFor(i)
  <2> DEFINE l == [pool[i] EXCEPT !.phase = "selected", !.set = published]
  <2>1. l \in Lookup /\ SoundLookup(l)
    BY <1>0, <1>2 DEF Lookup, SoundLookup
  <2>2. pool' = [pool EXCEPT ![i] = l]
    BY <1>0, <1>3 DEF SelectionFor
  <2> HIDE DEF l
  <2>3. Sound(pool')
    BY <1>0, <2>1, <2>2, StepSound
  <2> QED BY <1>0, <1>3, <2>3 DEF SelectionFor, EngineInv
<1>4. CASE FindCached(i)
  <2> DEFINE found == Cached(cache, pool[i].set, pool[i].request)
  <2>1. CASE found = {}
    <3> DEFINE l == [pool[i] EXCEPT !.phase = "missed"]
    <3>1. l \in Lookup /\ SoundLookup(l)
      BY <1>0, <1>2, <1>4 DEF Lookup, Sound, SoundLookup, FindCached
    <3>2. pool' = [pool EXCEPT ![i] = l] /\ cache' = cache /\ published' = published
      BY <1>0, <1>4, <2>1 DEF FindCached
    <3> HIDE DEF l
    <3>3. Sound(pool')
      BY <1>0, <3>1, <3>2, StepSound
    <3> QED BY <1>0, <3>2, <3>3 DEF EngineInv
  <2>2. CASE found # {}
    <3>1. PICK e \in found :
            /\ cache' = Promoted(cache, e)
            /\ pool' = [pool EXCEPT ![i].phase = "answered", ![i].results = cache[e].results]
      BY <1>4, <2>2 DEF FindCached
    <3>2. /\ e \in 1 .. Len(cache)
          /\ cache[e].set = pool[i].set /\ cache[e].request = pool[i].request
      BY <1>0, <3>1 DEF Cached, AnswersKey
    <3>3. cache[e] \in Entry /\ cache[e].results = Queried(cache[e].set, cache[e].request)
      BY <1>0, <3>2, ElementOfSeq DEF SoundEntries
    <3> DEFINE l == [pool[i] EXCEPT !.phase = "answered", !.results = cache[e].results]
    <3>4. l \in Lookup /\ SoundLookup(l)
      BY <1>2, <3>2, <3>3 DEF Lookup, Entry, SoundLookup
    <3>5. pool' = [pool EXCEPT ![i] = l]
      BY <1>0, <3>1
    <3> HIDE DEF l
    <3>6. Sound(pool')
      BY <1>0, <3>4, <3>5, StepSound
    <3>7. SoundEntries(cache')
      BY <1>0, <3>1, <3>2, PromotedSound
    <3> QED BY <1>0, <1>4, <3>6, <3>7 DEF FindCached, EngineInv
  <2> QED BY <2>1, <2>2
<1>5. CASE RememberResults(i)
  <2> DEFINE results == Queried(pool[i].set, pool[i].request)
             l == [pool[i] EXCEPT !.phase = "answered", !.results = results]
             e == [set |-> pool[i].set, request |-> pool[i].request, results |-> results]
  <2>1. pool' = [pool EXCEPT ![i] = l] /\ cache' = Remembered(cache, e) /\ published' = published
    BY <1>0, <1>5 DEF RememberResults, QueriesSet
  <2>2. pool[i].set \in Set
    BY <1>0, <1>5 DEF RememberResults, Sound, SoundLookup
  <2>3. l \in Lookup /\ SoundLookup(l)
    BY <1>2, <2>2, QueriedStore DEF Lookup, SoundLookup
  <2>4. e \in Entry /\ e.results = Queried(e.set, e.request)
    BY <1>2, <2>2, QueriedStore DEF Lookup, Entry
  <2> HIDE DEF l, e
  <2>5. Sound(pool') /\ SoundEntries(cache')
    BY <1>0, <2>1, <2>3, <2>4, StepSound, RememberedSound
  <2> QED BY <1>0, <2>1, <2>5 DEF EngineInv
<1> QED BY <1>1, <1>3, <1>4, <1>5

-----------------------------------------------------------------------------
(* The scan loop's half: an answer is out exactly while a hit is active, and *)
(* whatever was looked up was asked for.                                     *)
LoopOk(l) ==
    /\ l \in Loop
    /\ l.hitActive <=> l.shown # NoChar
    /\ l.hitActive => l.asked # NoChar

Asked(lookups, l) == lookups # <<>> => l.asked # NoChar

(* CardFollowsReports of a loop, a card and the history.                     *)
Follows(l, c, m) ==
    ~m => /\ Up(c) <=> l.shown # NoChar
          /\ l.shown # NoChar => c.model.char = l.shown

LetGo(r, s) == r # NoContent => r.store = StoreOf[s]

(* A frozen card keeps what it says and where it is, and stays up.           *)
Keeps(c, d) ==
    Frozen(c) => /\ d.model = c.model /\ d.rect.x = c.rect.x /\ d.rect.y = c.rect.y
                 /\ Up(c) => Up(d)

AppInv ==
    /\ setup \in Setups /\ cursor \in Point
    /\ retained \in Content \cup {NoContent} /\ window \in Window
    /\ commands \in 0 .. MaxCommands /\ missed \in BOOLEAN
    /\ LoopOk(loop) /\ Asked(pool, loop)
    /\ CardOk(card, setup)
    /\ ~missed => OffText(card, setup)
    /\ Follows(loop, card, missed)
    /\ LetGo(retained, published) /\ LetGo(window.response, published)

Inv == EngineInv /\ AppInv

(* What the settings and the pointer are.                                    *)
LEMMA SetupType ==
    ASSUME NEW s \in Setups
    PROVE  ThemeOk(s) /\ s.layerShell \in BOOLEAN /\ s.fades \in BOOLEAN
           /\ s.hides \in BOOLEAN /\ s.raises \in BOOLEAN
BY ApplicationAssumption DEF ThemeOk

LEMMA PointType ==
    ASSUME NEW p \in Point
    PROVE  Position[p] \in [x : Int, y : Int] /\ ScreenOf[p] \in Screen
           /\ CharAt[p] \in Request \cup {NoChar}
BY ApplicationAssumption

(* evaluate() leaves the loop's records in step.                             *)
LEMMA EvaluatedLoop ==
    ASSUME NEW l, LoopOk(l), NEW c \in Request \cup {NoChar}
    PROVE  /\ LoopOk(Evaluated(l, c))
           /\ l.asked # NoChar => Evaluated(l, c).asked # NoChar
           /\ c # NoChar => Evaluated(l, c).asked # NoChar /\ Evaluated(l, c).shown = l.shown
           /\ c = NoChar /\ EmitsNothing(l) => Evaluated(l, c).shown = NoChar
           /\ c = NoChar /\ ~EmitsNothing(l) => Evaluated(l, c).shown = l.shown
           /\ Evaluated(l, c).scanning = l.scanning
<1>1. l \in Loop
  BY DEF LoopOk
<1>2. CASE c # NoChar
  <2> DEFINE e == [l EXCEPT !.last = c, !.asked = c]
  <2>1. Evaluated(l, c) = e
    BY <1>2 DEF Evaluated
  <2>2. /\ e \in Loop /\ e.asked = c /\ e.shown = l.shown /\ e.hitActive = l.hitActive
        /\ e.scanning = l.scanning
    BY <1>1 DEF Loop
  <2> HIDE DEF e
  <2> QED BY <1>2, <2>1, <2>2 DEF LoopOk
<1>3. CASE c = NoChar /\ EmitsNothing(l)
  <2> DEFINE e == [l EXCEPT !.last = NoChar, !.hitActive = FALSE, !.nothingReported = TRUE,
                            !.shown = NoChar]
  <2>1. Evaluated(l, c) = e
    BY <1>3 DEF Evaluated, NoHitReported
  <2>2. /\ e \in Loop /\ e.asked = l.asked /\ e.shown = NoChar /\ e.hitActive = FALSE
        /\ e.scanning = l.scanning
    BY <1>1 DEF Loop
  <2> HIDE DEF e
  <2> QED BY <1>3, <2>1, <2>2 DEF LoopOk
<1>4. CASE c = NoChar /\ ~EmitsNothing(l)
  <2> DEFINE e == [l EXCEPT !.last = NoChar]
  <2>1. Evaluated(l, c) = e
    BY <1>4 DEF Evaluated, NoHitReported
  <2>2. /\ e \in Loop /\ e.asked = l.asked /\ e.shown = l.shown /\ e.hitActive = l.hitActive
        /\ e.scanning = l.scanning
    BY <1>1 DEF Loop
  <2> HIDE DEF e
  <2> QED BY <1>4, <2>1, <2>2 DEF LoopOk
<1> QED BY <1>2, <1>3, <1>4

(* ... the lookups in step with it ...                                       *)
LEMMA EvaluatedLookups ==
    ASSUME Inv, NEW c \in Request \cup {NoChar}, NEW same \in BOOLEAN
    PROVE  /\ Sound(LookupsAfter(loop, c, same))
           /\ Asked(LookupsAfter(loop, c, same), Evaluated(loop, c))
<1>1. Sound(pool) /\ LoopOk(loop) /\ Asked(pool, loop)
  BY DEF Inv, EngineInv, AppInv
<1>2. CASE c = NoChar
  <2>1. LookupsAfter(loop, c, same) = Overtaken(pool)
    BY <1>2 DEF LookupsAfter
  <2>2. Overtaken(pool) # <<>> => pool # <<>>
    BY <1>1, OvertakenEmpty
  <2> QED BY <1>1, <2>1, <2>2, OvertakenSound, EvaluatedLoop DEF Asked
<1>3. CASE c # NoChar
  <2>1. c \in Request
    BY <1>3
  <2>2. Sound(LookupsAfter(loop, c, same))
    BY <1>1, <1>3, <2>1, DispatchedSound DEF LookupsAfter
  <2> QED BY <1>1, <1>3, <2>2, EvaluatedLoop DEF Asked
<1> QED BY <1>2, <1>3

(* ... and the card with the report it makes, if any.                        *)
LEMMA EvaluatedCard ==
    ASSUME Inv, NEW c \in Request \cup {NoChar}
    PROVE  LET d == CardAfter(loop, c)
               m == MissedAfter(loop, c)
           IN  /\ CardOk(d, setup) /\ m \in BOOLEAN
               /\ ~m => OffText(d, setup)
               /\ Follows(Evaluated(loop, c), d, m)
               /\ Keeps(card, d)
<1> DEFINE d == CardAfter(loop, c)
           m == MissedAfter(loop, c)
<1> SUFFICES /\ CardOk(d, setup) /\ m \in BOOLEAN
             /\ ~m => OffText(d, setup)
             /\ Follows(Evaluated(loop, c), d, m)
             /\ Keeps(card, d)
  OBVIOUS
<1>1. /\ LoopOk(loop) /\ CardOk(card, setup) /\ missed \in BOOLEAN
      /\ ~missed => OffText(card, setup)
      /\ Follows(loop, card, missed) /\ card.pinned \in BOOLEAN
  BY DEF Inv, AppInv, CardOk, Card
<1>2. CASE c = NoChar /\ EmitsNothing(loop)
  <2>1. d = OnNothing(card) /\ m = card.pinned
    BY <1>2 DEF CardAfter, MissedAfter, MissedNothing
  <2>2. Evaluated(loop, c).shown = NoChar
    BY <1>1, <1>2, EvaluatedLoop
  <2> HIDE DEF d, m
  <2>3. CASE card.pinned
    <3>1. d = card
      BY <2>1, <2>3 DEF OnNothing
    <3> QED BY <1>1, <2>1, <2>3, <3>1 DEF Follows, Keeps
  <2>4. CASE ~card.pinned
    <3>1. d = Hidden(card, setup)
      BY <2>1, <2>4 DEF OnNothing
    <3>2. CardOk(d, setup) /\ ~Up(d)
      BY <1>1, <3>1, HiddenCard
    <3> QED BY <1>1, <2>1, <2>2, <2>4, <3>2 DEF Follows, Keeps, Frozen, OffText
  <2> QED BY <2>3, <2>4
<1>3. CASE c # NoChar \/ ~EmitsNothing(loop)
  <2>1. d = card /\ m = missed
    BY <1>3 DEF CardAfter, MissedAfter
  <2>2. Evaluated(loop, c).shown = loop.shown
    BY <1>1, <1>3, EvaluatedLoop
  <2> HIDE DEF d, m
  <2> QED BY <1>1, <2>1, <2>2 DEF Follows, Keeps
<1> QED BY <1>2, <1>3

(* Evaluating under a frozen card leaves it frozen.                          *)
LEMMA EvaluatedFrozen ==
    ASSUME NEW c
    PROVE  Frozen(card) => CardAfter(loop, c) = card
BY DEF CardAfter, OnNothing, Frozen

(* The hitMoved() slot changes neither what an unfrozen card says nor, where *)
(* it follows the reports, whether it is up.                                 *)
LEMMA MovedCard ==
    ASSUME NEW c, CardOk(c, setup), setup \in Setups, NEW p \in Point
    PROVE  LET d == OnMoved(c, p) IN
           /\ CardOk(d, setup) /\ d.model = c.model
           /\ Up(c) => Up(d)
           /\ OffText(c, setup) => OffText(d, setup)
           /\ Keeps(c, d)
<1> DEFINE d == OnMoved(c, p)
<1> SUFFICES /\ CardOk(d, setup) /\ d.model = c.model
             /\ Up(c) => Up(d)
             /\ OffText(c, setup) => OffText(d, setup)
             /\ Keeps(c, d)
  OBVIOUS
<1>1. /\ CardOk(d, setup) /\ d.model = c.model /\ d.pinned = c.pinned
      /\ c.suppressed \/ Frozen(c) => d = c
      /\ ~c.suppressed /\ ~Frozen(c) /\ c.model # NoContent => Up(d) /\ OffText(d, setup)
  BY ShownCard, SetupType, PointType DEF OnMoved
<1>2. CASE c.suppressed \/ Frozen(c)
  BY <1>1, <1>2 DEF Keeps
<1>3. CASE ~c.suppressed /\ ~Frozen(c) /\ c.model # NoContent
  BY <1>1, <1>3 DEF Keeps
<1>4. CASE ~c.suppressed /\ ~Frozen(c) /\ c.model = NoContent
  <2>1. ~c.visible
    BY <1>4 DEF CardOk
  <2>2. d = c
    BY <1>4, <2>1 DEF OnMoved, ShownNear, Hidden
  <2> QED BY <1>1, <2>2 DEF Keeps
<1> QED BY <1>2, <1>3, <1>4

(* The lookupReady() slot puts the card up with the answer unless the card   *)
(* is kept from following it.                                                *)
LEMMA ReadyCard ==
    ASSUME Inv, NEW r \in Content
    PROVE  LET d == OnReady(card, r) IN
           /\ CardOk(d, setup)
           /\ ~Frozen(card) /\ ~card.suppressed => Up(d) /\ d.model = r /\ OffText(d, setup)
           /\ Keeps(card, d)
<1> DEFINE w == WithModel(card, r, setup)
           told == [w EXCEPT !.avoid = Paragraph[r.char]]
           d == OnReady(card, r)
<1> SUFFICES /\ CardOk(d, setup)
             /\ ~Frozen(card) /\ ~card.suppressed => Up(d) /\ d.model = r /\ OffText(d, setup)
             /\ Keeps(card, d)
  OBVIOUS
<1>1. /\ CardOk(card, setup) /\ setup \in Setups /\ cursor \in Point /\ card \in Card
      /\ r # NoContent /\ Paragraph[r.char] \in QRect /\ ThemeOk(setup)
  BY ApplicationAssumption, PopupAssumption, SetupType DEF Inv, AppInv, CardOk
<1>2. CASE card.suppressed
  <2>1. d = card
    BY <1>2 DEF OnReady
  <2> HIDE DEF d
  <2> QED BY <1>1, <1>2, <2>1 DEF Keeps
<1>3. d = OnMoved(told, cursor) \/ card.suppressed
  BY DEF OnReady
<1> HIDE DEF d
<1>4. CASE ~card.suppressed /\ Frozen(card)
  <2>1. w = card
    BY <1>4 DEF WithModel
  <2>2. /\ told \in Card /\ told.model = card.model /\ told.rect = card.rect
        /\ told.visible = card.visible /\ told.hiding = card.hiding /\ told.pinned = card.pinned
        /\ told.screen = card.screen /\ told.surface = card.surface /\ told.sides = card.sides
    BY <1>1, <2>1 DEF Card
  <2> HIDE DEF told
  <2>3. Sized(told, setup) /\ (OnItsScreen(card, setup) => OnItsScreen(told, setup))
    BY <1>1, <2>2 DEF Sized, SizeOf, OnItsScreen, PlacedSince, CardOk
  <2>4. CardOk(told, setup) /\ Frozen(told) /\ (Up(card) => Up(told))
    BY <1>1, <1>4, <2>2, <2>3 DEF CardOk, Frozen, Up
  <2>5. CardOk(d, setup) /\ Keeps(told, d)
    BY <1>1, <1>3, <1>4, <2>4, MovedCard
  <2> QED BY <1>4, <2>2, <2>4, <2>5 DEF Keeps
<1>5. CASE ~card.suppressed /\ ~Frozen(card)
  <2> DEFINE w0 == [card EXCEPT !.model = r]
  <2>1. w = Resized(w0, setup)
    BY <1>5 DEF WithModel
  <2>2. /\ w0 \in Card /\ w0.model = r /\ w0.visible = card.visible /\ w0.pinned = card.pinned
        /\ w0.suppressed = card.suppressed
    BY <1>1 DEF Card
  <2> HIDE DEF w0, w
  <2>3. /\ w \in Card /\ Sized(w, setup) /\ w.model = r /\ w.visible = card.visible
        /\ w.pinned = card.pinned /\ w.suppressed = card.suppressed
    BY <1>1, <2>1, <2>2, ResizedCard
  <2>4. /\ told \in Card /\ told.model = r /\ told.rect = w.rect
        /\ told.visible = card.visible /\ told.pinned = card.pinned
        /\ told.suppressed = card.suppressed
    BY <1>1, <2>3 DEF Card
  <2> HIDE DEF told
  <2>5. Sized(told, setup) /\ ~Frozen(told) /\ ~told.suppressed /\ told.model # NoContent
    BY <1>1, <1>5, <2>3, <2>4 DEF Sized, SizeOf, Frozen
  <2>6. CardOk(d, setup) /\ d.model = r /\ Up(d) /\ OffText(d, setup)
    BY <1>1, <1>3, <1>5, <2>4, <2>5, ShownAfresh, SetupType, PointType DEF OnMoved
  <2> QED BY <1>5, <2>6 DEF Keeps
<1> QED BY <1>2, <1>4, <1>5

-----------------------------------------------------------------------------
(* Each action keeps the invariant and a frozen card.                        *)
Frozenly ==
    \/ Keeps(card, card')
    \/ ~Up(card) /\ ~Frozen(card')
    \/ /\ ~loop'.scanning
       /\ Frozen(card) => Alike(card, card')

LEMMA LookupStepApp ==
    ASSUME Inv, LookupStep, UNCHANGED app
    PROVE  Inv' /\ Frozenly
<1>1. EngineInv'
  BY LookupStepInv DEF Inv
<1>2. published' = published /\ pool # <<>>
  <2>1. PICK i \in DOMAIN pool : SelectionFor(i) \/ FindCached(i) \/ RememberResults(i)
    BY DEF LookupStep
  <2>2. pool # <<>>
    BY <2>1, EmptySeq
  <2> QED BY <2>1, <2>2 DEF SelectionFor, FindCached, RememberResults
<1>3. AppInv'
  BY <1>2 DEF Inv, AppInv, app, Asked
<1> QED BY <1>1, <1>3 DEF Inv, Frozenly, Keeps, app

LEMMA PositionStep ==
    ASSUME Inv, NEW p \in Point, NEW covered \in BOOLEAN, OnPositionChanged(p, covered)
    PROVE  Inv' /\ Frozenly
<1> DEFINE c == CharAt[p]
           after == IF covered THEN Evaluated(loop, c) ELSE loop
           told == IF covered THEN CardAfter(loop, c) ELSE card
           m == IF covered THEN MissedAfter(loop, c) ELSE missed
<1>1. /\ c \in Request \cup {NoChar} /\ setup \in Setups
      /\ LoopOk(loop) /\ Asked(pool, loop) /\ CardOk(card, setup) /\ missed \in BOOLEAN
      /\ ~missed => OffText(card, setup)
      /\ Follows(loop, card, missed)
      /\ published \in Set /\ SoundEntries(cache) /\ Sound(pool)
  BY PointType DEF Inv, AppInv, EngineInv
<1>2. /\ cursor' = p /\ loop' = after /\ missed' = m
      /\ pool' = IF covered THEN LookupsAfter(loop, c, TRUE) ELSE pool
      /\ card' = IF after.hitActive THEN OnMoved(told, p) ELSE told
      /\ UNCHANGED <<published, cache, setup, retained, window, commands>>
  BY DEF OnPositionChanged
<1>3. /\ LoopOk(after) /\ CardOk(told, setup) /\ m \in BOOLEAN
      /\ ~m => OffText(told, setup)
      /\ Follows(after, told, m) /\ Keeps(card, told)
  BY <1>1, EvaluatedLoop, EvaluatedCard DEF Keeps
<1>4. Sound(pool') /\ Asked(pool', after)
  BY <1>1, <1>2, EvaluatedLookups
<1> HIDE DEF c, after, told, m
<1>5. /\ CardOk(card', setup) /\ (~m => OffText(card', setup))
      /\ Follows(after, card', m) /\ Keeps(card, card')
  <2>1. CASE after.hitActive
    <3>1. /\ CardOk(card', setup) /\ card'.model = told.model
          /\ Up(told) => Up(card')
          /\ OffText(told, setup) => OffText(card', setup)
          /\ Keeps(told, card')
      BY <1>1, <1>2, <1>3, <2>1, MovedCard
    <3>2. after.shown # NoChar
      BY <1>3, <2>1 DEF LoopOk
    <3>3. Keeps(card, card')
      <4>1. Frozen(card) => told = card
        BY EvaluatedFrozen DEF told
      <4> QED BY <3>1, <4>1 DEF Keeps
    <3> QED BY <1>3, <3>1, <3>2, <3>3 DEF Follows
  <2>2. CASE ~after.hitActive
    BY <1>2, <1>3, <2>2
  <2> QED BY <2>1, <2>2
<1>6. Inv'
  BY <1>1, <1>2, <1>3, <1>4, <1>5 DEF Inv, AppInv, EngineInv
<1> QED BY <1>5, <1>6 DEF Frozenly

LEMMA ScanStep ==
    ASSUME Inv, NEW same \in BOOLEAN, ScanReturns(same)
    PROVE  Inv' /\ Frozenly
<1> DEFINE c == CharAt[cursor]
           e == Evaluated(loop, c)
           l == [e EXCEPT !.scanned = TRUE]
<1>1. /\ c \in Request \cup {NoChar} /\ LoopOk(loop)
      /\ published \in Set /\ SoundEntries(cache)
  BY PointType DEF Inv, AppInv, EngineInv
<1>2. /\ loop' = l /\ pool' = LookupsAfter(loop, c, same)
      /\ card' = CardAfter(loop, c) /\ missed' = MissedAfter(loop, c)
      /\ UNCHANGED <<published, cache, setup, cursor, retained, window, commands>>
  BY DEF ScanReturns
<1>3. LoopOk(e) /\ Sound(pool') /\ Asked(pool', e)
  BY <1>1, <1>2, EvaluatedLoop, EvaluatedLookups
<1>4. /\ CardOk(card', setup) /\ missed' \in BOOLEAN /\ (~missed' => OffText(card', setup))
      /\ Follows(e, card', missed') /\ Keeps(card, card')
  BY <1>1, <1>2, EvaluatedCard
<1> HIDE DEF e
<1>5. /\ l \in Loop /\ l.hitActive = e.hitActive /\ l.shown = e.shown /\ l.asked = e.asked
  BY <1>3 DEF LoopOk, Loop
<1>6. LoopOk(loop') /\ Asked(pool', loop') /\ Follows(loop', card', missed')
  BY <1>2, <1>3, <1>4, <1>5 DEF LoopOk, Asked, Follows
<1>7. Inv'
  BY <1>1, <1>2, <1>3, <1>4, <1>6 DEF Inv, AppInv, EngineInv
<1> QED BY <1>4, <1>7 DEF Frozenly

LEMMA DeliverStep ==
    ASSUME Inv, NEW i \in DOMAIN pool, DeliverLookup(i)
    PROVE  Inv' /\ Frozenly
<1> DEFINE done == pool[i]
           r == [char |-> done.request, store |-> done.results]
           ready == done.listened /\ done.results # NoStore
<1>1. /\ Sound(pool) /\ pool \in Seq(Lookup) /\ i \in 1 .. Len(pool)
      /\ LoopOk(loop) /\ Asked(pool, loop) /\ CardOk(card, setup) /\ missed \in BOOLEAN
      /\ ~missed => OffText(card, setup)
      /\ Follows(loop, card, missed)
      /\ published \in Set /\ SoundEntries(cache) /\ setup \in Setups
      /\ retained \in Content \cup {NoContent} /\ window \in Window
      /\ LetGo(retained, published) /\ LetGo(window.response, published)
  BY LenProperties DEF Inv, AppInv, EngineInv, Sound
<1>2. done \in Lookup
  BY <1>1, ElementOfSeq
<1>3. done.request \in Request /\ done.request # NoChar
      /\ done.listened \in BOOLEAN /\ done.results \in Store \cup {NoStore}
  BY <1>2, ApplicationAssumption DEF Lookup
<1>4. ready => r \in Content /\ r # NoContent
  BY <1>3, ApplicationAssumption, PopupAssumption
<1>5. /\ pool' = IF done.listened /\ ~ready THEN Overtaken(Without(pool, i)) ELSE Without(pool, i)
      /\ loop' = IF ~done.listened THEN loop
                 ELSE IF ~ready THEN NoHitReported(loop)
                 ELSE [loop EXCEPT !.hitActive = TRUE, !.nothingReported = FALSE,
                                   !.shown = done.request]
      /\ card' = IF ready /\ Takes(r) THEN OnReady(card, r)
                 ELSE IF done.listened /\ ~ready THEN CardAfter(loop, NoChar)
                 ELSE card
      /\ retained' = IF ready /\ Takes(r) THEN r ELSE retained
      /\ window' = IF ready /\ Takes(r) /\ window.open THEN SetLookup(window, r) ELSE window
      /\ missed' = IF ready THEN MissedReady(r)
                   ELSE IF done.listened THEN MissedAfter(loop, NoChar)
                   ELSE missed
      /\ UNCHANGED <<published, cache, setup, cursor, commands>>
  BY DEF DeliverLookup
<1>6. Sound(pool') /\ (pool' # <<>> => pool # <<>>)
  <2>1. Sound(Without(pool, i))
    BY <1>1, WithoutSound
  <2>2. pool # <<>>
    BY <1>1, EmptySeq
  <2> HIDE DEF ready, done
  <2> QED BY <1>5, <2>1, <2>2, OvertakenSound
<1>7. loop.asked # NoChar
  <2>1. pool # <<>>
    BY <1>1, EmptySeq
  <2> QED BY <1>1, <2>1 DEF Asked
<1> HIDE DEF done
<1>8. CASE ready
  <2>1. loop' = [loop EXCEPT !.hitActive = TRUE, !.nothingReported = FALSE, !.shown = done.request]
    BY <1>5, <1>8
  <2>2. /\ loop' \in Loop /\ loop'.hitActive = TRUE /\ loop'.shown = done.request
        /\ loop'.asked = loop.asked
    BY <1>1, <1>3, <2>1 DEF LoopOk, Loop
  <2>3. LoopOk(loop') /\ Asked(pool', loop')
    BY <1>3, <1>7, <2>2 DEF LoopOk, Asked
  <2>4. missed' = MissedReady(r) /\ r \in Content /\ r # NoContent
    BY <1>4, <1>5, <1>8
  <2>5. missed' \in BOOLEAN
    BY <2>4 DEF MissedReady, Frozen, CardOk, Card, HoldsReplaced
  <2>6. CASE Takes(r)
    <3>1. card' = OnReady(card, r) /\ retained' = r
          /\ window' = IF window.open THEN SetLookup(window, r) ELSE window
      BY <1>5, <1>8, <2>6
    <3>2. /\ CardOk(card', setup)
          /\ ~Frozen(card) /\ ~card.suppressed => Up(card') /\ card'.model = r /\ OffText(card', setup)
          /\ Keeps(card, card')
      BY <2>4, <3>1, ReadyCard
    <3>3. Follows(loop', card', missed') /\ (~missed' => OffText(card', setup))
      <4>1. ~missed' => Up(card') /\ card'.model = r /\ OffText(card', setup)
        BY <2>4, <3>2 DEF MissedReady
      <4>2. r.char = done.request
        OBVIOUS
      <4> HIDE DEF r
      <4> QED BY <1>3, <2>2, <4>1, <4>2 DEF Follows
    <3>4. LetGo(r, published)
      BY <2>4, <2>6 DEF Takes, HoldsReplaced, IsCurrent, LetGo
    <3>5. window' \in Window /\ LetGo(window'.response, published)
      BY <1>1, <2>4, <3>1, <3>4 DEF SetLookup, Window
    <3>6. Inv'
      BY <1>1, <1>5, <1>6, <2>3, <2>4, <2>5, <3>1, <3>2, <3>3, <3>4, <3>5
         DEF Inv, AppInv, EngineInv
    <3> QED BY <3>2, <3>6 DEF Frozenly
  <2>7. CASE ~Takes(r)
    <3>1. card' = card /\ retained' = retained /\ window' = window
      BY <1>5, <1>8, <2>7
    <3>2. missed'
      BY <2>4, <2>7 DEF Takes, MissedReady
    <3>3. Inv'
      BY <1>1, <1>5, <1>6, <2>3, <2>5, <3>1, <3>2 DEF Inv, AppInv, EngineInv, Follows
    <3> QED BY <3>1, <3>3 DEF Frozenly, Keeps
  <2> QED BY <2>6, <2>7
<1>9. CASE done.listened /\ ~ready
  <2>1. /\ loop' = Evaluated(loop, NoChar) /\ card' = CardAfter(loop, NoChar)
        /\ missed' = MissedAfter(loop, NoChar) /\ retained' = retained /\ window' = window
    BY <1>5, <1>9 DEF Evaluated
  <2>2. LoopOk(loop') /\ Asked(pool', loop')
    BY <1>1, <1>7, <2>1, EvaluatedLoop DEF Asked
  <2>3. /\ CardOk(card', setup) /\ missed' \in BOOLEAN /\ (~missed' => OffText(card', setup))
        /\ Follows(loop', card', missed') /\ Keeps(card, card')
    BY <2>1, EvaluatedCard
  <2>4. Inv'
    BY <1>1, <1>5, <1>6, <2>1, <2>2, <2>3 DEF Inv, AppInv, EngineInv
  <2> QED BY <2>3, <2>4 DEF Frozenly
<1>10. CASE ~done.listened
  <2>1. UNCHANGED <<loop, card, retained, window, missed>>
    BY <1>5, <1>10
  <2>2. Inv'
    BY <1>1, <1>5, <1>6, <1>7, <2>1 DEF Inv, AppInv, EngineInv, Asked
  <2> QED BY <2>1, <2>2 DEF Frozenly, Keeps
<1> QED BY <1>8, <1>9, <1>10

(* lookUpAgainIfRaised() keeps the loop's records in step.                   *)
LEMMA LookUpAgainStep ==
    ASSUME Inv, NEW raised \in BOOLEAN, LookUpAgain(raised)
    PROVE  /\ LoopOk(loop') /\ Sound(pool') /\ Asked(pool', loop')
           /\ loop'.shown = loop.shown /\ loop'.scanning = loop.scanning
<1>1. LoopOk(loop) /\ Sound(pool) /\ Asked(pool, loop) /\ loop \in Loop
  BY DEF Inv, AppInv, EngineInv, LoopOk
<1>2. CASE ~raised
  BY <1>1, <1>2 DEF LookUpAgain
<1>3. CASE raised /\ loop.hitActive /\ loop.scanning
  <2>1. pool' = Dispatched(pool, loop.asked) /\ loop' = loop
    BY <1>3 DEF LookUpAgain
  <2>2. loop.asked \in Request /\ loop.asked # NoChar
    BY <1>1, <1>3 DEF LoopOk, Loop
  <2> QED BY <1>1, <2>1, <2>2, DispatchedSound DEF Asked
<1>4. CASE raised /\ ~(loop.hitActive /\ loop.scanning)
  <2>1. loop' = [loop EXCEPT !.last = NoChar] /\ pool' = pool
    BY <1>4 DEF LookUpAgain
  <2>2. /\ loop' \in Loop /\ loop'.asked = loop.asked /\ loop'.shown = loop.shown
        /\ loop'.hitActive = loop.hitActive /\ loop'.scanning = loop.scanning
    BY <1>1, <2>1 DEF Loop
  <2> QED BY <1>1, <2>1, <2>2 DEF LoopOk, Asked
<1> QED BY <1>2, <1>3, <1>4

(* A card that is held back or released follows as before, or misses.        *)
LEMMA SuppressionStep ==
    ASSUME NEW c, NEW s, CardOk(c, s), NEW open \in BOOLEAN, s.hides \in BOOLEAN
    PROVE  LET d == SuppressedFor(c, open, s) IN
           /\ CardOk(d, s) /\ d.model = c.model
           /\ ~(open /\ s.hides) => (Up(d) <=> Up(c)) /\ (OffText(c, s) => OffText(d, s))
           /\ Keeps(c, d)
<1> DEFINE on == open /\ s.hides
           d == SuppressedFor(c, open, s)
<1>1. on \in BOOLEAN
  OBVIOUS
<1>2. d = Suppressed(c, on, s)
  BY DEF SuppressedFor
<1> HIDE DEF on, d
<1>3. /\ CardOk(d, s) /\ Alike(c, d) /\ d.suppressed = on
      /\ ~on \/ c.pinned => d.visible = c.visible /\ d.hiding = c.hiding
  BY <1>1, <1>2, SuppressedCard
<1>4. ~on => (Up(d) <=> Up(c)) /\ (OffText(c, s) => OffText(d, s))
  BY <1>3 DEF Up, OffText, PlacedSince, Clear, Roomy, Bare, SizeOf, Alike
<1>5. Keeps(c, d)
  BY <1>3 DEF Keeps, Frozen, Up, Alike
<1> QED BY <1>3, <1>4, <1>5 DEF Alike, on, d

LEMMA ShowWindowStep ==
    ASSUME Inv, ShowLookupWindow
    PROVE  Inv' /\ Frozenly
<1>1. /\ CardOk(card, setup) /\ setup \in Setups /\ missed \in BOOLEAN
      /\ ~missed => OffText(card, setup)
      /\ Follows(loop, card, missed) /\ window \in Window
      /\ retained \in Content \cup {NoContent} /\ commands \in 0 .. MaxCommands
      /\ LetGo(retained, published) /\ LetGo(window.response, published)
      /\ published \in Set /\ SoundEntries(cache)
  BY DEF Inv, AppInv, EngineInv
<1>2. /\ window' = [(IF retained # NoContent THEN SetLookup(window, retained) ELSE window)
                       EXCEPT !.open = TRUE]
      /\ LookUpAgain(~window.open /\ setup.raises)
      /\ card' = IF window.open THEN card ELSE SuppressedFor(card, TRUE, setup)
      /\ missed' = (missed \/ (~window.open /\ setup.hides))
      /\ UNCHANGED <<published, cache, setup, cursor, retained>>
      /\ commands < MaxCommands /\ commands' = commands + 1
  BY DEF ShowLookupWindow, Command
<1>3. setup.hides \in BOOLEAN /\ setup.raises \in BOOLEAN /\ window.open \in BOOLEAN
  BY <1>1, SetupType DEF Window
<1>4. /\ LoopOk(loop') /\ Sound(pool') /\ Asked(pool', loop')
      /\ loop'.shown = loop.shown
  BY <1>2, <1>3, LookUpAgainStep
<1>5. window' \in Window /\ LetGo(window'.response, published)
  <2> DEFINE w == IF retained # NoContent THEN SetLookup(window, retained) ELSE window
  <2>1. w \in Window /\ LetGo(w.response, published)
    BY <1>1 DEF SetLookup, Window
  <2>2. window' = [w EXCEPT !.open = TRUE]
    BY <1>2
  <2> HIDE DEF w
  <2> QED BY <2>1, <2>2 DEF Window
<1>6. /\ CardOk(card', setup) /\ card'.model = card.model /\ Keeps(card, card')
      /\ ~missed' => (Up(card') <=> Up(card)) /\ (OffText(card, setup) => OffText(card', setup))
  <2>1. CASE window.open
    BY <1>1, <1>2, <2>1 DEF Keeps
  <2>2. CASE ~window.open
    <3> DEFINE d == SuppressedFor(card, TRUE, setup)
    <3>1. card' = d /\ (~missed' => ~setup.hides)
      BY <1>2, <2>2
    <3>2. /\ CardOk(d, setup) /\ d.model = card.model
          /\ ~(TRUE /\ setup.hides) => (Up(d) <=> Up(card)) /\ (OffText(card, setup) => OffText(d, setup))
          /\ Keeps(card, d)
      BY <1>1, <1>3, SuppressionStep
    <3> HIDE DEF d
    <3> QED BY <3>1, <3>2
  <2> QED BY <2>1, <2>2
<1>7. missed' \in BOOLEAN /\ (~missed' => ~missed) /\ commands' \in 0 .. MaxCommands
  BY <1>1, <1>2, ApplicationAssumption
<1>8. Follows(loop', card', missed') /\ (~missed' => OffText(card', setup))
  BY <1>1, <1>4, <1>6, <1>7 DEF Follows
<1>9. Inv'
  BY <1>1, <1>2, <1>4, <1>5, <1>6, <1>7, <1>8 DEF Inv, AppInv, EngineInv
<1> QED BY <1>6, <1>9 DEF Frozenly

LEMMA CloseWindowStep ==
    ASSUME Inv, CloseLookupWindow
    PROVE  Inv' /\ Frozenly
<1>1. /\ CardOk(card, setup) /\ setup \in Setups /\ setup.hides \in BOOLEAN
      /\ window \in Window
  BY SetupType DEF Inv, AppInv
<1>2. /\ window' = Closed(window) /\ card' = SuppressedFor(card, FALSE, setup)
      /\ UNCHANGED <<engine, setup, cursor, loop, retained, commands, missed>>
  BY DEF CloseLookupWindow
<1>3. window' \in Window /\ window'.response = window.response
  BY <1>1, <1>2 DEF Closed, Window
<1> DEFINE d == SuppressedFor(card, FALSE, setup)
<1>4. /\ CardOk(d, setup) /\ d.model = card.model
      /\ ~(FALSE /\ setup.hides) => (Up(d) <=> Up(card)) /\ (OffText(card, setup) => OffText(d, setup))
      /\ Keeps(card, d)
  BY <1>1, SuppressionStep
<1> HIDE DEF d
<1>5. card' = d
  BY <1>2 DEF d
<1>6. EngineInv' /\ pool' = pool /\ published' = published
  BY <1>2 DEF Inv, EngineInv, engine
<1>7. Follows(loop', card', missed') /\ (~missed' => OffText(card', setup))
  BY <1>2, <1>4, <1>5 DEF Inv, AppInv, Follows
<1>8. AppInv'
  BY <1>2, <1>3, <1>4, <1>5, <1>6, <1>7 DEF Inv, AppInv
<1> QED BY <1>4, <1>5, <1>6, <1>8 DEF Inv, Frozenly

LEMMA CrossWindowStep ==
    ASSUME Inv, PointerCrossesWindow
    PROVE  Inv' /\ Frozenly
<1>1. /\ window' = [window EXCEPT !.inside = ~window.inside]
      /\ UNCHANGED <<engine, setup, cursor, loop, card, retained, commands, missed>>
  BY DEF PointerCrossesWindow
<1>2. window' \in Window /\ window'.response = window.response
  BY <1>1 DEF Inv, AppInv, Window
<1>3. EngineInv' /\ pool' = pool /\ published' = published
  BY <1>1 DEF Inv, EngineInv, engine
<1>4. AppInv'
  BY <1>1, <1>2, <1>3 DEF Inv, AppInv
<1> QED BY <1>1, <1>3, <1>4 DEF Inv, Frozenly, Keeps

LEMMA PinStep ==
    ASSUME Inv, TogglePinned
    PROVE  Inv' /\ Frozenly
<1>1. /\ CardOk(card, setup) /\ card.pinned \in BOOLEAN /\ card.hiding \in BOOLEAN
      /\ missed \in BOOLEAN /\ commands \in 0 .. MaxCommands /\ ThemeOk(setup)
  BY SetupType DEF Inv, AppInv, CardOk, Card
<1>2. /\ card' = Pinned(card, ~card.pinned, setup) /\ missed' = (missed \/ card.hiding)
      /\ UNCHANGED <<engine, setup, cursor, loop, retained, window>>
      /\ commands < MaxCommands /\ commands' = commands + 1
  BY DEF TogglePinned, Command
<1>3. /\ CardOk(card', setup)
      /\ card'.model = card.model /\ card'.screen = card.screen /\ card'.avoid = card.avoid
      /\ card'.rect.x = card.rect.x /\ card'.rect.y = card.rect.y
      /\ card'.visible = card.visible /\ card'.sides = card.sides
      /\ card'.hiding = card.hiding \/ ~card'.hiding
  <2> DEFINE on == ~card.pinned
             d == Pinned(card, on, setup)
  <2>1. on \in BOOLEAN /\ card' = d
    BY <1>1, <1>2
  <2> HIDE DEF on
  <2>2. /\ CardOk(d, setup)
        /\ d.model = card.model /\ d.screen = card.screen /\ d.avoid = card.avoid
        /\ d.rect.x = card.rect.x /\ d.rect.y = card.rect.y
        /\ d.visible = card.visible /\ d.suppressed = card.suppressed /\ d.sides = card.sides
        /\ d.hiding = card.hiding \/ ~d.hiding
    BY <1>1, <2>1, PinnedCard
  <2> HIDE DEF d
  <2> QED BY <2>1, <2>2
<1>4. /\ ~missed' => (Up(card') <=> Up(card)) /\ (OffText(card, setup) => OffText(card', setup))
      /\ Keeps(card, card')
  BY <1>2, <1>3 DEF Up, OffText, PlacedSince, Clear, Roomy, Bare, SizeOf, Keeps
<1>5. EngineInv' /\ pool' = pool /\ published' = published
  BY <1>2 DEF Inv, EngineInv, engine
<1>6. missed' \in BOOLEAN /\ (~missed' => ~missed) /\ commands' \in 0 .. MaxCommands
  BY <1>1, <1>2, ApplicationAssumption
<1>7. Follows(loop', card', missed') /\ (~missed' => OffText(card', setup))
  BY <1>2, <1>3, <1>4, <1>6 DEF Inv, AppInv, Follows
<1>8. AppInv'
  BY <1>2, <1>3, <1>5, <1>6, <1>7 DEF Inv, AppInv
<1> QED BY <1>4, <1>5, <1>8 DEF Inv, Frozenly

LEMMA FadeStep ==
    ASSUME Inv, FadeEnds
    PROVE  Inv' /\ Frozenly
<1>1. /\ CardOk(card, setup) /\ card.hiding /\ card' = FadedOut(card)
      /\ UNCHANGED <<engine, setup, cursor, loop, retained, window, commands, missed>>
  BY DEF Inv, AppInv, FadeEnds
<1>2. CardOk(card', setup) /\ ~Up(card') /\ Alike(card, card') /\ ~Up(card)
  BY <1>1, FadedOutCard DEF Up
<1>3. ~Frozen(card')
  <2>1. card.pinned \in BOOLEAN /\ card \in Card
    BY <1>1 DEF CardOk, Card
  <2> QED BY <1>1, <2>1 DEF Frozen, FadedOut, Card
<1>4. EngineInv' /\ pool' = pool /\ published' = published
  BY <1>1 DEF Inv, EngineInv, engine
<1>5. Follows(loop', card', missed') /\ (~missed' => OffText(card', setup))
  BY <1>1, <1>2 DEF Inv, AppInv, Follows, Alike, OffText
<1>6. AppInv'
  BY <1>1, <1>2, <1>4, <1>5 DEF Inv, AppInv
<1> QED BY <1>2, <1>3, <1>4, <1>6 DEF Inv, Frozenly

LEMMA ScanningStep ==
    ASSUME Inv, SetScanning
    PROVE  Inv' /\ Frozenly
<1>1. /\ CardOk(card, setup) /\ LoopOk(loop) /\ loop \in Loop /\ Asked(pool, loop)
      /\ Sound(pool) /\ published \in Set /\ SoundEntries(cache)
      /\ missed \in BOOLEAN /\ commands \in 0 .. MaxCommands
  BY DEF Inv, AppInv, EngineInv, LoopOk
<1>2. commands' \in 0 .. MaxCommands /\ UNCHANGED <<published, cache, setup, cursor, retained, window>>
  BY <1>1, ApplicationAssumption DEF SetScanning, Command
<1>3. CASE ~loop.scanning
  <2>1. loop' = [loop EXCEPT !.scanning = TRUE] /\ UNCHANGED <<pool, card, missed>>
    BY <1>3 DEF SetScanning
  <2>2. /\ loop' \in Loop /\ loop'.asked = loop.asked /\ loop'.shown = loop.shown
        /\ loop'.hitActive = loop.hitActive
    BY <1>1, <2>1 DEF Loop
  <2>3. /\ LoopOk(loop') /\ Asked(pool', loop') /\ Follows(loop', card', missed')
        /\ CardOk(card', setup') /\ (~missed' => OffText(card', setup')) /\ missed' \in BOOLEAN
    BY <1>1, <1>2, <2>1, <2>2 DEF Inv, AppInv, LoopOk, Asked, Follows
  <2>4. Inv'
    BY <1>1, <1>2, <2>1, <2>3 DEF Inv, AppInv, EngineInv
  <2> QED BY <2>1, <2>4 DEF Frozenly, Keeps
<1>4. CASE loop.scanning
  <2>1. /\ loop' = [loop EXCEPT !.scanning = FALSE, !.scanned = FALSE, !.last = NoChar,
                                !.nothingReported = loop.nothingReported \/ loop.hitActive,
                                !.hitActive = FALSE, !.shown = NoChar]
        /\ pool' = Overtaken(pool) /\ card' = Hidden(card, setup) /\ missed' = FALSE
    BY <1>4 DEF SetScanning
  <2>2. loop.nothingReported \/ loop.hitActive \in BOOLEAN
    BY <1>1 DEF Loop
  <2>3. /\ loop' \in Loop /\ loop'.asked = loop.asked /\ loop'.shown = NoChar
        /\ loop'.hitActive = FALSE /\ loop'.scanning = FALSE
    BY <1>1, <2>1, <2>2 DEF Loop
  <2>4. Sound(pool') /\ (pool' # <<>> => pool # <<>>)
    BY <1>1, <2>1, OvertakenSound, OvertakenEmpty
  <2>5. CardOk(card', setup') /\ ~Up(card')
    BY <1>1, <1>2, <2>1, HiddenCard
  <2>8. Alike(card, card')
    BY <1>1, <2>1, HiddenCard
  <2>6. /\ LoopOk(loop') /\ Asked(pool', loop') /\ Follows(loop', card', missed')
        /\ (~missed' => OffText(card', setup')) /\ missed' \in BOOLEAN
    BY <1>1, <2>1, <2>3, <2>4, <2>5 DEF LoopOk, Asked, Follows, OffText
  <2>7. Inv'
    BY <1>1, <1>2, <2>4, <2>5, <2>6 DEF Inv, AppInv, EngineInv
  <2> QED BY <2>3, <2>7, <2>8 DEF Frozenly
<1> QED BY <1>3, <1>4

LEMMA SettingsStep ==
    ASSUME Inv, NEW s \in Setups, ApplySettings(s)
    PROVE  Inv' /\ Frozenly
<1>1. /\ CardOk(card, setup) /\ setup \in Setups /\ missed \in BOOLEAN
      /\ ~missed => OffText(card, setup)
      /\ Follows(loop, card, missed) /\ window \in Window /\ commands \in 0 .. MaxCommands
  BY DEF Inv, AppInv
<1>2. /\ s.layerShell = setup.layerShell /\ s.avoidsText = setup.avoidsText
      /\ setup' = s
      /\ LookUpAgain(window.open /\ s.raises /\ ~setup.raises)
      /\ card' = SuppressedFor(Themed(card, s), window.open, s)
      /\ missed' = (missed \/ (window.open /\ s.hides))
      /\ cache' = <<>> /\ published' = published
      /\ UNCHANGED <<cursor, retained, window>>
      /\ commands < MaxCommands /\ commands' = commands + 1
  BY DEF ApplySettings, Command, InvalidateCache
<1>3. s.hides \in BOOLEAN /\ window.open \in BOOLEAN
      /\ (window.open /\ s.raises /\ ~setup.raises) \in BOOLEAN
  BY <1>1, SetupType DEF Window
<1>4. /\ LoopOk(loop') /\ Sound(pool') /\ Asked(pool', loop') /\ loop'.shown = loop.shown
  BY <1>2, <1>3, LookUpAgainStep
<1>5. ThemeOk(s)
  BY SetupType
<1> DEFINE t == Themed(card, s)
           d == SuppressedFor(t, window.open, s)
<1>6. /\ CardOk(t, s) /\ ~PlacedSince(t)
      /\ t.model = card.model /\ t.pinned = card.pinned
      /\ t.visible = card.visible /\ t.hiding = card.hiding
      /\ t.rect.x = card.rect.x /\ t.rect.y = card.rect.y
  BY <1>1, <1>2, <1>5, ThemedCard
<1> HIDE DEF t
<1>7. /\ CardOk(d, s) /\ d.model = t.model
      /\ ~(window.open /\ s.hides) => (Up(d) <=> Up(t)) /\ (OffText(t, s) => OffText(d, s))
      /\ Keeps(t, d)
  BY <1>3, <1>6, SuppressionStep
<1> HIDE DEF d
<1>8. card' = d
  BY <1>2 DEF d, t
<1>9. (Up(t) <=> Up(card)) /\ OffText(t, s) /\ (Frozen(t) <=> Frozen(card))
  BY <1>6 DEF Up, OffText, Frozen
<1>10. Keeps(card, card')
  BY <1>6, <1>7, <1>8, <1>9 DEF Keeps
<1>11. missed' \in BOOLEAN /\ (~missed' => ~missed /\ ~(window.open /\ s.hides))
       /\ commands' \in 0 .. MaxCommands
  BY <1>1, <1>2, <1>3, ApplicationAssumption
<1>12. Follows(loop', card', missed') /\ (~missed' => OffText(card', s))
  BY <1>1, <1>4, <1>5, <1>6, <1>7, <1>8, <1>9, <1>11 DEF Follows
<1>13. SoundEntries(cache') /\ published' \in Set
  BY <1>2, NoEntriesSound DEF Inv, EngineInv
<1>14. Inv'
  BY <1>1, <1>2, <1>4, <1>7, <1>8, <1>11, <1>12, <1>13 DEF Inv, AppInv, EngineInv
<1> QED BY <1>10, <1>14 DEF Frozenly

LEMMA ChangedStep ==
    ASSUME Inv, DictionariesChanged
    PROVE  Inv' /\ Frozenly
<1>1. /\ LoopOk(loop) /\ loop \in Loop /\ Asked(pool, loop)
      /\ retained \in Content \cup {NoContent} /\ window \in Window
  BY DEF Inv, AppInv, LoopOk
<1>2. /\ published' = published + 1 /\ published' \in Set /\ cache' = <<>>
      /\ retained' = RetainedAfter(retained, published')
      /\ window' = WindowAfter(window, published')
      /\ loop' = [loop EXCEPT !.last = NoChar, !.scanned = FALSE]
      /\ UNCHANGED <<pool, setup, cursor, card, commands, missed>>
  BY DEF DictionariesChanged, SetDictionaries
<1>3. SoundEntries(cache')
  BY <1>2, NoEntriesSound
<1>4. /\ loop' \in Loop /\ loop'.asked = loop.asked /\ loop'.shown = loop.shown
      /\ loop'.hitActive = loop.hitActive
  BY <1>1, <1>2 DEF Loop
<1>5. LoopOk(loop') /\ Asked(pool', loop')
  BY <1>1, <1>2, <1>4 DEF LoopOk, Asked
<1>6. retained' \in Content \cup {NoContent} /\ LetGo(retained', published')
  BY <1>1, <1>2 DEF RetainedAfter, LetGo
<1>7. window' \in Window /\ LetGo(window'.response, published')
  <2>1. RetainedAfter(window.response, published') \in Content \cup {NoContent}
        /\ LetGo(RetainedAfter(window.response, published'), published')
    BY <1>1 DEF RetainedAfter, LetGo, Window
  <2>2. window' \in Window /\ window'.response = RetainedAfter(window.response, published')
    BY <1>1, <1>2, <2>1 DEF WindowAfter, Window
  <2> QED BY <2>1, <2>2
<1>8. Follows(loop', card', missed')
  BY <1>2, <1>4 DEF Inv, AppInv, Follows
<1>9. Inv'
  BY <1>2, <1>3, <1>5, <1>6, <1>7, <1>8 DEF Inv, AppInv, EngineInv
<1> QED BY <1>2, <1>9 DEF Frozenly, Keeps

-----------------------------------------------------------------------------
LEMMA InitInv == Init => Inv
<1> SUFFICES ASSUME Init PROVE Inv
  OBVIOUS
<1>1. EngineInv
  <2>1. 1 \in Set
    <3>1. Len(StoreOf) \in Nat /\ Len(StoreOf) # 0
      BY EngineAssumption, EmptySeq, LenProperties
    <3> QED BY <3>1 DEF Set
  <2>2. Sound(<<>>)
    BY EmptySeq DEF Sound
  <2> QED BY <2>1, <2>2, NoEntriesSound DEF Init, EngineInit, EngineInv
<1>2. LoopOk(loop)
  BY DEF Init, LoopOk, Loop
<1>3. /\ card \in Card /\ Sized(card, setup) /\ card.visible = FALSE /\ card.hiding = FALSE
  <2> DEFINE bare == [model |-> NoContent, pinned |-> FALSE, suppressed |-> FALSE,
                      visible |-> FALSE, hiding |-> FALSE, screen |-> ScreenOf[cursor],
                      surface |-> ScreenOf[cursor], rect |-> EmptyRect, sides |-> NoSides,
                      avoid |-> EmptyRect]
  <2>1. NoSides \in Sides /\ EmptyRect \in QRect
    BY DEF NoSides, Sides, EmptyRect, QRect
  <2>2. /\ ScreenOf[cursor] \in Screen /\ ThemeOk(setup)
        /\ card = Resized(bare, setup)
    BY PointType, SetupType DEF Init, NewCard
  <2>3. bare \in Card /\ bare.visible = FALSE /\ bare.hiding = FALSE
    BY <2>1, <2>2 DEF Card
  <2> HIDE DEF bare
  <2> QED BY <2>2, <2>3, ResizedCard
<1>4. CardOk(card, setup) /\ OffText(card, setup) /\ ~Up(card)
  BY <1>3 DEF CardOk, OffText, Up
<1>5. Follows(loop, card, missed)
  BY <1>4 DEF Follows, Init
<1>6. window \in Window /\ LetGo(window.response, published) /\ LetGo(retained, published)
  BY DEF Init, Window, LetGo
<1>7. AppInv
  <2>1. /\ setup \in Setups /\ cursor \in Point /\ retained = NoContent
        /\ commands = 0 /\ missed = FALSE /\ pool = <<>>
    BY DEF Init, EngineInit
  <2>2. 0 \in 0 .. MaxCommands
    BY ApplicationAssumption
  <2> QED BY <1>2, <1>4, <1>5, <1>6, <2>1, <2>2 DEF AppInv, Asked
<1> QED BY <1>1, <1>7 DEF Inv

LEMMA NextInv == Inv /\ Next => Inv' /\ Frozenly
<1> SUFFICES ASSUME Inv, Next PROVE Inv' /\ Frozenly
  OBVIOUS
<1>1. CASE LookupStep /\ UNCHANGED app
  BY <1>1, LookupStepApp
<1>2. CASE \E p \in Point, covered \in BOOLEAN : OnPositionChanged(p, covered)
  BY <1>2, PositionStep
<1>3. CASE \E same \in BOOLEAN : ScanReturns(same)
  BY <1>3, ScanStep
<1>4. CASE \E i \in DOMAIN pool : DeliverLookup(i)
  BY <1>4, DeliverStep
<1>5. CASE ShowLookupWindow
  BY <1>5, ShowWindowStep
<1>6. CASE CloseLookupWindow
  BY <1>6, CloseWindowStep
<1>7. CASE PointerCrossesWindow
  BY <1>7, CrossWindowStep
<1>8. CASE TogglePinned
  BY <1>8, PinStep
<1>9. CASE FadeEnds
  BY <1>9, FadeStep
<1>10. CASE SetScanning
  BY <1>10, ScanningStep
<1>11. CASE \E s \in Setups : ApplySettings(s)
  BY <1>11, SettingsStep
<1>12. CASE DictionariesChanged
  BY <1>12, ChangedStep
<1> QED BY <1>1, <1>2, <1>3, <1>4, <1>5, <1>6, <1>7, <1>8, <1>9, <1>10, <1>11, <1>12 DEF Next

LEMMA StutterInv == Inv /\ UNCHANGED vars => Inv'
<1> SUFFICES ASSUME Inv, UNCHANGED vars PROVE Inv'
  OBVIOUS
<1>1. EngineInv'
  BY DEF Inv, EngineInv, vars, engine
<1>2. AppInv'
  BY DEF Inv, AppInv, vars, engine, app
<1> QED BY <1>1, <1>2 DEF Inv

(* The inductive invariant.                                                  *)
THEOREM InvHolds == Spec => []Inv
<1>1. Inv /\ [Next]_vars => Inv'
  BY NextInv, StutterInv
<1> QED BY InitInv, <1>1, PTL DEF Spec

(* Every lookup, whenever the set is replaced and whatever other threads     *)
(* cache meanwhile, is answered from the one set it selected, and no entry   *)
(* of the cache stands for another set (engine.h:71-73, :124-126).           *)
THEOREM AnswersAreOfOneSet == Spec => []AnswersFromItsSet
<1>1. Inv => AnswersFromItsSet
  BY LenProperties DEF Inv, EngineInv, Sound, SoundEntries, SoundLookup, AnswersFromItsSet
<1> QED BY InvHolds, <1>1, PTL

(* However lookups run across a change of the dictionaries, neither the      *)
(* retained response nor the lookup window holds a replaced store            *)
(* (application.cpp:244-250, :318-326).                                      *)
THEOREM ReplacedStoresGo == Spec => []ReplacedStoresAreLetGo
<1>1. Inv => ReplacedStoresAreLetGo
  BY DEF Inv, AppInv, ReplacedStoresAreLetGo, HoldsReplaced, IsCurrent, LetGo
<1> QED BY InvHolds, <1>1, PTL

(* A card that is free to follow the loop's reports shows exactly while an   *)
(* answer is out, and that answer (application.cpp:240-280).                 *)
THEOREM CardFollows == Spec => []CardFollowsReports
<1>1. Inv => CardFollowsReports
  BY DEF Inv, AppInv, CardFollowsReports, Follows
<1> QED BY InvHolds, <1>1, PTL

(* A pinned card on screen keeps what it says and where it is, and goes away *)
(* only with scanning (popupwindow.cpp:108-111, :290-291).                   *)
THEOREM PinnedStays == Spec => PinnedIsFrozen
<1> DEFINE Kept ==
        Frozen(card) =>
            /\ Frozen(card') => /\ card'.model = card.model
                                /\ card'.rect.x = card.rect.x /\ card'.rect.y = card.rect.y
            /\ Up(card) /\ ~Up(card') => ~loop'.scanning
<1>1. ASSUME Inv, Next PROVE Kept
  <2>1. Frozenly
    BY <1>1, NextInv
  <2> QED BY <2>1 DEF Frozenly, Keeps, Alike
<1>2. ASSUME UNCHANGED vars PROVE Kept
  BY <1>2 DEF vars, app
<1>3. Inv /\ [Next]_vars => [Kept]_vars
  BY <1>1, <1>2
<1> QED BY InvHolds, <1>3, PTL DEF Spec, PinnedIsFrozen

(* The corner of a card on screen lies on its screen, to which its surface   *)
(* is bound; a card that is not pinned lies on the screen where it fits and  *)
(* off the paragraph where the session wants that and there is room, once it *)
(* was placed in the size the settings give it (popupwindow.cpp:120-162,     *)
(* :383-394, placement.h:64-81).                                             *)
THEOREM CardPlaced == Spec => []CardIsWellPlaced
<1> DEFINE g == Geometry[card.screen]
           r == card.rect
           size == SizeOf(card, FALSE, setup)
<1>1. ASSUME Inv, card.visible
      PROVE  /\ setup.layerShell => card.surface = card.screen
             /\ Within([r EXCEPT !.w = 1, !.h = 1], g)
             /\ r \in QRect /\ g \in QRect /\ Sized(card, setup) /\ OnItsScreen(card, setup)
             /\ ~missed => OffText(card, setup)
  <2>1. /\ OnItsScreen(card, setup) /\ Sized(card, setup) /\ r \in QRect /\ g \in QRect
        /\ setup.layerShell => card.surface = card.screen
        /\ ~missed => OffText(card, setup)
    BY <1>1, PopupAssumption DEF Inv, AppInv, CardOk, Card
  <2>2. r.x >= g.x /\ r.y >= g.y /\ r.x + 1 <= g.x + g.w /\ r.y + 1 <= g.y + g.h
    BY <2>1 DEF OnItsScreen
  <2> HIDE DEF r, g
  <2>3. Within([r EXCEPT !.w = 1, !.h = 1], g)
    BY <2>1, <2>2 DEF QRect, Within, XEdge, YEdge
  <2> QED BY <2>1, <2>3
<1>2. ASSUME Inv, card.visible, ~card.pinned, PlacedSince(card)
      PROVE  /\ Fits(r, g) => Within(r, g)
             /\ ~missed /\ Up(card) /\ setup.avoidsText /\ Roomy(card, setup)
                => ~Intersects(r, card.avoid)
  <2>1. /\ r \in QRect /\ g \in QRect /\ Sized(card, setup) /\ OnItsScreen(card, setup)
        /\ ~missed => OffText(card, setup)
    BY <1>1, <1>2
  <2>2. card.pinned = FALSE
    BY <1>2 DEF Inv, AppInv, CardOk, Card
  <2>3. r.w = size.w /\ r.h = size.h
    BY <2>1, <2>2 DEF Sized
  <2>4. r = Bare(card, setup)
    BY <2>1, <2>3 DEF Bare, QRect
  <2>5. Fits(r, g) => Within(r, g)
    <3>1. /\ r.x >= g.x /\ r.y >= g.y
          /\ r.w <= g.w => r.x + r.w <= g.x + g.w
          /\ r.h <= g.h => r.y + r.h <= g.y + g.h
      BY <1>2, <2>1, <2>3 DEF OnItsScreen
    <3> HIDE DEF r, g
    <3> QED BY <2>1, <3>1 DEF QRect, Fits, Within, XEdge, YEdge
  <2> QED BY <1>2, <2>1, <2>4, <2>5 DEF OffText, Clear
<1>3. Inv => CardIsWellPlaced
  BY <1>1, <1>2 DEF CardIsWellPlaced
<1> QED BY InvHolds, <1>3, PTL

-----------------------------------------------------------------------------
(* A lookup window that is closed has let go of the pointer.                 *)
ClosedIsOutside == window \in Window /\ (window.open \/ ~window.inside)

(* A step keeps that, and opens the window only with what is retained.       *)
Opens == ~window.open /\ window'.open /\ retained # NoContent => window'.response = retained

LEMMA WindowStep ==
    ASSUME ClosedIsOutside, window' \in Window, Next
    PROVE  ClosedIsOutside' /\ Opens
<1>1. CASE UNCHANGED window
  BY <1>1 DEF ClosedIsOutside, Opens
<1>2. CASE ShowLookupWindow
  <2>1. window' = [(IF retained # NoContent THEN SetLookup(window, retained) ELSE window)
                      EXCEPT !.open = TRUE]
    BY <1>2 DEF ShowLookupWindow
  <2> QED BY <2>1 DEF ClosedIsOutside, Opens, SetLookup, Window
<1>3. CASE CloseLookupWindow
  BY <1>3 DEF CloseLookupWindow, Closed, ClosedIsOutside, Opens, Window
<1>4. CASE PointerCrossesWindow
  BY <1>4 DEF PointerCrossesWindow, ClosedIsOutside, Opens, Window
<1>5. CASE DictionariesChanged
  BY <1>5 DEF DictionariesChanged, WindowAfter, ClosedIsOutside, Opens, Window
<1>6. ASSUME NEW i \in DOMAIN pool, DeliverLookup(i)
      PROVE  ClosedIsOutside' /\ Opens
  <2>1. \/ window' = window
        \/ \E r : window.open /\ window' = SetLookup(window, r)
    BY <1>6 DEF DeliverLookup
  <2> QED BY <1>1, <2>1 DEF ClosedIsOutside, Opens, SetLookup, Window
<1> QED BY <1>1, <1>2, <1>3, <1>4, <1>5, <1>6
     DEF Next, app, OnPositionChanged, ScanReturns, TogglePinned, FadeEnds, SetScanning, ApplySettings

(* A lookup window that opens shows the last hit, wherever the pointer was   *)
(* when it was closed (application.cpp:253, lookupwindow.cpp:267).           *)
THEOREM OpenedWindowShows == Spec => OpenedWindowIsCurrent
<1>1. Init => ClosedIsOutside
  BY DEF Init, ClosedIsOutside, Window
<1>2. Inv => window \in Window
  BY DEF Inv, AppInv
<1>3. ClosedIsOutside /\ window' \in Window /\ [Next]_vars => ClosedIsOutside' /\ [Opens]_vars
  <2>1. CASE UNCHANGED vars
    BY <2>1 DEF vars, app, ClosedIsOutside
  <2> QED BY <2>1, WindowStep
<1>4. Inv' => window' \in Window
  BY DEF Inv, AppInv
<1>5. OpenedWindowIsCurrent <=> [][Opens]_vars
  BY DEF OpenedWindowIsCurrent, Opens
<1> QED BY <1>1, <1>2, <1>3, <1>4, <1>5, InvHolds, PTL DEF Spec

(* However a hand wavers within the hysteresis around the pointer, the card  *)
(* comes to rest: it crosses the pointer at most once on either axis         *)
(* (placement.h:41-47) and stays in one band from the fifth sample on        *)
(* (placement.h:83-86). The screens are those of the code's numbers, a third *)
(* no less high than the hysteresis of 32 (between the thirds of a lower one *)
(* VisualNovel has no room to keep a side) and as wide as twice the offset,  *)
(* which marupopsettings.kcfg:417-421 bounds by 200.                         *)
THEOREM WaversSettle ==
    ASSUME \A s \in Screen : 3 * Hysteresis <= Geometry[s].h /\ 2 * Offset <= Geometry[s].w
    PROVE  Spec => []WaverSettles
<1>1. ASSUME Inv, Wavers, NEW q \in Around(Position[cursor], Geometry[card.screen])
      PROVE  LET path == WaverPath(q) IN SidesTurnOnce(path) /\ BandRests(path)
  <2> DEFINE p == Position[cursor]
             size == [w |-> card.rect.w, h |-> card.rect.h]
             screen == Geometry[card.screen]
             avoid == IF setup.avoidsText THEN card.avoid ELSE EmptyRect
             path == WaverPath(q)
  <2>1. /\ cursor \in Point /\ setup \in Setups /\ card \in Card /\ Sized(card, setup)
        /\ card.screen \in Screen /\ card.sides \in Sides /\ card.sides.known
        /\ card.avoid \in QRect
    BY <1>1 DEF Inv, AppInv, CardOk, Wavers, Card
  <2>2. p \in [x : Int, y : Int] /\ setup.mode \in Modes /\ ThemeOk(setup)
    BY <2>1, PointType, SetupType DEF ThemeOk
  <2>3. size \in [w : Nat, h : Nat]
    <3>1. /\ card.model \in Content \cup {NoContent} /\ card.pinned \in BOOLEAN
          /\ card.rect.w \in Int /\ card.rect.h \in Int
      BY <2>1 DEF Card, QRect
    <3>2. card.rect.w >= 0 /\ card.rect.h >= 0
      <4>1. setup.layout \in Layout
        BY <2>2 DEF ThemeOk
      <4>2. /\ Size[<<card.model, card.pinned, setup.layout>>].w \in Nat \ {0}
            /\ Size[<<card.model, card.pinned, setup.layout>>].h \in Nat \ {0}
        BY <3>1, <4>1, SizeType
      <4> QED BY <2>1, <4>2 DEF Sized, SizeOf
    <3> QED BY <3>1, <3>2
  <2>4. /\ screen \in QRect /\ avoid \in QRect
        /\ 3 * Hysteresis <= screen.h /\ 2 * Offset <= screen.w
    BY <2>1, PopupAssumption DEF EmptyRect, QRect
  <2>5. /\ q \in [x : Int, y : Int]
        /\ p.x - q.x < Hysteresis /\ q.x - p.x < Hysteresis
        /\ p.y - q.y < Hysteresis /\ q.y - p.y < Hysteresis
    BY <1>1, <2>2, PlacementAssumption DEF Around
  <2>6. path = Wavering(p, q, size, screen, setup.mode, avoid, card.sides)
    BY DEF WaverPath
  <2> HIDE DEF p, size, screen, avoid, path
  <2>7. /\ DOMAIN path = 1 .. 7
        /\ TurnsAtMostOnce([i \in 1 .. 7 |-> path[i].left])
        /\ TurnsAtMostOnce([i \in 1 .. 7 |-> path[i].above])
        /\ Len(path) = 7 /\ Cardinality(LaterBands(path)) <= 1
    BY <2>1, <2>2, <2>3, <2>4, <2>5, <2>6, WaverRests
  <2>8. /\ TurnsAtMostOnce([i \in DOMAIN path |-> path[i].left])
        /\ TurnsAtMostOnce([i \in DOMAIN path |-> path[i].above])
    BY <2>7, Zenon
  <2>9. SidesTurnOnce(path)
    BY <2>8 DEF SidesTurnOnce
  <2>10. BandRests(path)
    BY <2>7 DEF BandRests, LaterBands
  <2> QED BY <2>9, <2>10 DEF path
<1>2. Inv => WaverSettles
  BY <1>1 DEF WaverSettles
<1> QED BY <1>2, InvHolds, PTL
=============================================================================
