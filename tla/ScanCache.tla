----------------------------- MODULE ScanCache -----------------------------
(* scan::ScanCache (src/src/scan/scancache.cpp): recognition results kept by *)
(* (region, pixels), most recently used first.  Recognition is a function of *)
(* the pixels, so an entry is represented by its key.                        *)
EXTENDS Naturals, Sequences

CONSTANTS
    Key,        \* what an entry is found by
    Capacity    \* m_capacity

Holds(cache, k) == \E i \in DOMAIN cache : cache[i] = k

Position(cache, k) == CHOOSE i \in DOMAIN cache : cache[i] = k

Without(cache, k) ==
    IF Holds(cache, k)
    THEN SubSeq(cache, 1, Position(cache, k) - 1)
         \o SubSeq(cache, Position(cache, k) + 1, Len(cache))
    ELSE cache

(* find(): a hit becomes the most recently used entry.                       *)
Promoted(cache, k) == <<k>> \o Without(cache, k)

(* Mutant of insert(): the newest entry is dropped.                          *)
InsertedLast(cache, k) ==
    IF Len(cache) < Capacity THEN Append(Without(cache, k), k) ELSE cache

(* insert(): replaces an entry with the key, and drops the least recently    *)
(* used entries past the capacity.                                           *)
Inserted(cache, k) ==
    LET all == Promoted(cache, k)
    IN  SubSeq(all, 1, IF Len(all) < Capacity THEN Len(all) ELSE Capacity)
=============================================================================
