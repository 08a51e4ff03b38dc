-------------------------- MODULE ContextWindow_proofs --------------------------
(***************************************************************************)
(* Proofs about the tool result cache and the context window over it.        *)
(***************************************************************************)
EXTENDS ContextWindow, NaturalsInduction, WellFoundedInduction, TLAPS

-----------------------------------------------------------------------------
(* The invariant of the cache                                                *)

IsShort(s, full) == \E n \in MinAbbrevLen .. HashLen : s = SubSeq(full, 1, n)

Entries == [full : Fulls, ttl : BOOLEAN, old : BOOLEAN, file : BOOLEAN]

(* Every key is a prefix of the full hash it names, and a file-backed entry  *)
(* never expires.                                                            *)
CacheOK(c) ==
    /\ DOMAIN c = {"entries", "retired", "stores"}
    /\ \A s \in Shorts(c) :
          /\ c.entries[s] \in Entries
          /\ IsShort(s, c.entries[s].full)
          /\ c.entries[s].file => ~c.entries[s].ttl

(* A hash handed out names the entry it was made for, or is retired; and it  *)
(* was made for one content only.                                            *)
HandedOK(c, hs) ==
    /\ \A p \in hs :
          /\ p[2] \in Fulls /\ IsShort(p[1], p[2])
          /\ p[1] \in Shorts(c) => c.entries[p[1]].full = p[2]
          /\ p[1] \notin Shorts(c) => p[1] \in c.retired
    /\ \A p, q \in hs : p[1] = q[1] => p[2] = q[2]

(* A call that was given a handed-out hash is on its way to the content that *)
(* the hash was made for, whatever happens to the cache meanwhile: an entry  *)
(* to be checked is still there, and the file seen by the check is its.      *)
ReaderOK(c, hs, r) ==
    /\ DOMAIN r = {"pc", "hash", "meant", "got", "file", "seen"}
    /\ \A full \in r.meant : \E p \in hs : p[1] = r.hash /\ p[2] = full
    /\ r.pc = "check" => r.file /\ \A full \in r.meant :
          r.hash \in Shorts(c) /\ c.entries[r.hash].full = full /\ c.entries[r.hash].file
    /\ r.pc = "read" => r.file /\ \A full \in r.meant : FileHash[r.seen] = full
    /\ r.pc = "idle" /\ r.got # NoHash => \A full \in r.meant :
          r.got = full \/ (r.file /\ FileHash[r.seen] = full)

CInv ==
    /\ CacheOK(cache)
    /\ HandedOK(cache, handed)
    /\ file \in 0 .. EditBound
    /\ DOMAIN reader = Readers
    /\ \A rd \in Readers : ReaderOK(cache, handed, reader[rd])

-----------------------------------------------------------------------------
(* Lemmas about the operations                                               *)

(* A set of natural numbers has a smallest one.                              *)
LEMMA LeastOf ==
    ASSUME NEW S \in SUBSET Nat, S # {}
    PROVE  \E n \in S : \A m \in S : n <= m
<1>1. PICK n \in S : \A m \in S : ~ (<<m, n>> \in OpToRel(<, Nat))
  BY NatLessThanWellFounded, WFMin
<1>2. \A m \in S : ~ (m < n)
  BY <1>1 DEF OpToRel
<1> QED
  BY <1>2

(* A full hash is a sequence of HashLen digits.                              *)
LEMMA FullLength ==
    ASSUME NEW full \in Fulls
    PROVE  full \in Seq(Nat) /\ Len(full) = HashLen /\ SubSeq(full, 1, HashLen) = full
<1>1. HashLen \in Nat
  BY HashAssumption
<1>2. full \in Seq(Nat)
  BY <1>1 DEF Fulls
<1>3. Len(full) = HashLen
  BY <1>1, <1>2 DEF Fulls
<1>4. SubSeq(full, 1, HashLen) = full
  BY <1>1, <1>2, <1>3
<1> QED
  BY <1>2, <1>3, <1>4

(* The only prefix as long as a full hash is that hash.                      *)
LEMMA WholePrefix ==
    ASSUME NEW full \in Fulls, NEW g \in Fulls, IsShort(full, g)
    PROVE  full = g
<1>1. PICK n \in MinAbbrevLen .. HashLen : full = SubSeq(g, 1, n)
  BY DEF IsShort
<1>2. n \in Nat /\ n <= HashLen /\ HashLen \in Nat
  BY <1>1, HashAssumption
<1>3. Len(SubSeq(g, 1, n)) = n
  BY <1>2, FullLength
<1>4. n = HashLen
  BY <1>1, <1>3, FullLength
<1> QED
  BY <1>1, <1>4, FullLength

(* The hash made for a content that is not cached is a prefix that names     *)
(* nothing, and that never did unless it is the whole hash.                  *)
LEMMA AbbreviateFresh ==
    ASSUME NEW c, CacheOK(c), NEW full \in Fulls, ShortOf(c, full) = {}
    PROVE  /\ IsShort(Abbreviate(c, full), full)
           /\ Abbreviate(c, full) \notin Shorts(c)
           /\ Abbreviate(c, full) \in c.retired => Abbreviate(c, full) = full
<1> DEFINE free == {n \in MinAbbrevLen .. HashLen :
                      SubSeq(full, 1, n) \notin Shorts(c) \union c.retired}
           least == CHOOSE n \in free : \A m \in free : n <= m
<1>1. Abbreviate(c, full) = IF free = {} THEN full ELSE SubSeq(full, 1, least)
  BY DEF Abbreviate
<1>2. CASE free = {}
  <2>1. HashLen \in MinAbbrevLen .. HashLen
    BY HashAssumption
  <2>2. IsShort(full, full)
    BY <2>1, FullLength DEF IsShort
  <2>3. full \notin Shorts(c)
    <3>1. SUFFICES ASSUME full \in Shorts(c) PROVE FALSE
      OBVIOUS
    <3>2. c.entries[full].full \in Fulls /\ IsShort(full, c.entries[full].full)
      BY <3>1 DEF CacheOK, Entries
    <3>3. c.entries[full].full = full
      BY <3>2, WholePrefix
    <3> QED
      BY <3>1, <3>3 DEF ShortOf
  <2> QED
    BY <1>1, <1>2, <2>2, <2>3
<1>3. CASE free # {}
  <2>1. free \in SUBSET Nat
    BY HashAssumption
  <2>2. \E n \in free : \A m \in free : n <= m
    BY <1>3, <2>1, LeastOf
  <2>3. least \in free
    BY <2>2
  <2> HIDE DEF least
  <2>4. least \in MinAbbrevLen .. HashLen /\ SubSeq(full, 1, least) \notin Shorts(c) \union c.retired
    BY <2>3
  <2> QED
    BY <1>1, <1>3, <2>4 DEF IsShort
<1> QED
  BY <1>2, <1>3

(* What other calls rely on: the file-backed entries stay as they are.       *)
FilesKept(c, d) ==
    \A s \in Shorts(c) : c.entries[s].file => s \in Shorts(d) /\ d.entries[s] = c.entries[s]

(* Dropping expired entries keeps every handed-out hash honest.              *)
LEMMA DroppedOK ==
    ASSUME NEW c, CacheOK(c), NEW hs, HandedOK(c, hs),
           NEW gone \in SUBSET Shorts(c), \A s \in gone : Expired(c.entries[s])
    PROVE  CacheOK(Dropped(c, gone)) /\ HandedOK(Dropped(c, gone), hs) /\ FilesKept(c, Dropped(c, gone))
<1> DEFINE d == Dropped(c, gone)
<1>1. /\ DOMAIN d = {"entries", "retired", "stores"}
      /\ Shorts(d) = Shorts(c) \ gone
      /\ \A s \in Shorts(d) : d.entries[s] = c.entries[s]
      /\ d.retired = c.retired \union gone
  BY DEF Dropped, Shorts, CacheOK
<1> HIDE DEF d
<1>2. CacheOK(d)
  BY <1>1 DEF CacheOK
<1>3. HandedOK(d, hs)
  BY <1>1 DEF HandedOK
<1>4. FilesKept(c, d)
  BY <1>1 DEF FilesKept, CacheOK, Expired
<1> QED
  BY <1>2, <1>3, <1>4 DEF d

(* Store keeps every hash honest, the one it hands out included.             *)
LEMMA StoredOK ==
    ASSUME NEW c, CacheOK(c), NEW hs, HandedOK(c, hs), NEW full \in Fulls,
           NEW ttl \in BOOLEAN, NEW backed \in BOOLEAN, ~(ttl /\ backed)
    PROVE  LET d == StoredCache(c, full, ttl, backed)
           IN  /\ CacheOK(d)
               /\ HandedOK(d, hs \union {<<StoredShort(c, full), full>>})
               /\ FilesKept(c, d)
<1> DEFINE k == Counted(c)
           s == Abbreviate(c, full)
           added == [k EXCEPT !.entries = [t \in Shorts(k) \union {s} |->
                                             IF t = s THEN Entry(full, ttl, backed) ELSE k.entries[t]]]
           short == StoredShort(c, full)
           hs2 == hs \union {<<short, full>>}
<1>1. /\ DOMAIN k = {"entries", "retired", "stores"}
      /\ k.entries = c.entries /\ k.retired = c.retired /\ Shorts(k) = Shorts(c)
  BY DEF Counted, CacheOK, Shorts
<1>2. CASE ShortOf(c, full) # {}
  <2>1. StoredCache(c, full, ttl, backed) = k
    BY <1>2 DEF StoredCache
  <2>2. short \in Shorts(c) /\ c.entries[short].full = full
    BY <1>2 DEF StoredShort, ShortOf
  <2>3. IsShort(short, full)
    BY <2>2 DEF CacheOK
  <2> HIDE DEF k, short
  <2>4. CacheOK(k)
    BY <1>1 DEF CacheOK
  <2>5. HandedOK(k, hs2)
    BY <1>1, <2>2, <2>3 DEF HandedOK
  <2>6. FilesKept(c, k)
    BY <1>1 DEF FilesKept
  <2> QED
    BY <2>1, <2>4, <2>5, <2>6 DEF short
<1>3. CASE ShortOf(c, full) = {}
  <2>1. short = s /\ StoredCache(c, full, ttl, backed) = IF k.stores = 0 THEN EvictExpired(added) ELSE added
    BY <1>3 DEF StoredCache, StoredShort
  <2>2. IsShort(s, full) /\ s \notin Shorts(c) /\ (s \in c.retired => s = full)
    BY <1>3, AbbreviateFresh
  <2> HIDE DEF k, s
  <2>3. /\ DOMAIN added = {"entries", "retired", "stores"}
        /\ Shorts(added) = Shorts(c) \union {s}
        /\ added.entries[s] = Entry(full, ttl, backed)
        /\ \A t \in Shorts(c) : added.entries[t] = c.entries[t]
        /\ added.retired = c.retired
    BY <1>1, <2>2 DEF Shorts
  <2> HIDE DEF added, short
  <2>4. CacheOK(added)
    <3>1. Entry(full, ttl, backed) \in Entries /\ Entry(full, ttl, backed).full = full
            /\ (Entry(full, ttl, backed).file => ~Entry(full, ttl, backed).ttl)
      BY DEF Entry, Entries
    <3> QED
      BY <2>2, <2>3, <3>1 DEF CacheOK
  <2>5. HandedOK(added, hs2)
    <3>1. \A p \in hs : p[1] = s => p[2] = full
      <4>1. SUFFICES ASSUME NEW p \in hs, p[1] = s PROVE p[2] = full
        OBVIOUS
      <4>2. s = full /\ IsShort(s, p[2]) /\ p[2] \in Fulls
        BY <2>2, <4>1 DEF HandedOK
      <4> QED
        BY <4>2, WholePrefix
    <3>2. added.entries[s].full = full
      BY <2>3 DEF Entry
    <3>3. \A p \in hs2 :
            /\ p[2] \in Fulls /\ IsShort(p[1], p[2])
            /\ p[1] \in Shorts(added) => added.entries[p[1]].full = p[2]
            /\ p[1] \notin Shorts(added) => p[1] \in added.retired
      BY <2>1, <2>2, <2>3, <3>1, <3>2 DEF HandedOK
    <3>4. \A p, q \in hs2 : p[1] = q[1] => p[2] = q[2]
      BY <2>1, <3>1 DEF HandedOK
    <3> QED
      BY <3>3, <3>4 DEF HandedOK
  <2>6. FilesKept(c, added)
    BY <2>3 DEF FilesKept
  <2>7. /\ CacheOK(EvictExpired(added)) /\ HandedOK(EvictExpired(added), hs2)
        /\ FilesKept(added, EvictExpired(added))
    BY <2>4, <2>5, DroppedOK DEF EvictExpired
  <2>8. FilesKept(c, EvictExpired(added))
    BY <2>3, <2>6, <2>7 DEF FilesKept
  <2> QED
    BY <2>1, <2>4, <2>5, <2>6, <2>7, <2>8 DEF short
<1> QED
  BY <1>2, <1>3

(* A hash handed out leads to the entry it was made for, or to none.         *)
LEMMA ResolveOK ==
    ASSUME NEW c, NEW hs, HandedOK(c, hs), NEW p \in hs
    PROVE  /\ p[1] \in Shorts(c) => Resolve(c, p[1]) = p[1] /\ c.entries[p[1]].full = p[2]
           /\ p[1] \notin Shorts(c) => Resolve(c, p[1]) = NoEntry
<1>1. (p[1] \in Shorts(c) => c.entries[p[1]].full = p[2]) /\ (p[1] \notin Shorts(c) => p[1] \in c.retired)
  BY DEF HandedOK
<1> QED
  BY <1>1 DEF Resolve

-----------------------------------------------------------------------------
(* The cache by itself                                                       *)

LEMMA EmptyOK == CacheOK(EmptyCache) /\ HandedOK(EmptyCache, {})
<1>1. DOMAIN EmptyCache = {"entries", "retired", "stores"} /\ Shorts(EmptyCache) = {}
  BY DEF EmptyCache, Shorts
<1> QED
  BY <1>1 DEF CacheOK, HandedOK

LEMMA NoReadOK == \A c, hs : ReaderOK(c, hs, NoRead)
BY DEF NoRead, Read, ReaderOK

(* A call in flight is not disturbed by a step that keeps the file-backed    *)
(* entries and forgets no hash.                                              *)
LEMMA ReaderKept ==
    ASSUME NEW c, NEW d, NEW hs, NEW hs2, FilesKept(c, d), hs \subseteq hs2, NEW r, ReaderOK(c, hs, r)
    PROVE  ReaderOK(d, hs2, r)
BY DEF ReaderOK, FilesKept

LEMMA Files == \A v \in 0 .. EditBound : FileHash[v] \in Fulls
BY ResultsAssumption

LEMMA ResultsFull ==
    ASSUME file \in 0 .. EditBound, NEW t \in Tools, NEW full \in Results(t)
    PROVE  full \in Fulls
BY Files, ResultsAssumption DEF Tools, Results

LEMMA StoreStep ==
    ASSUME CInv, NEW t \in Tools, NEW full \in Results(t), Store(t, full)
    PROVE  CInv'
<1> DEFINE ttl == t \in MCPTools
           backed == t = FileTool
<1>1. full \in Fulls
  BY ResultsFull DEF CInv
<1>2. ttl \in BOOLEAN /\ backed \in BOOLEAN /\ ~(ttl /\ backed)
  BY ResultsAssumption
<1>3. cache' = StoredCache(cache, full, ttl, backed) /\ handed' = handed \union {<<StoredShort(cache, full), full>>}
        /\ file' = file /\ reader' = reader
  BY DEF Store
<1> HIDE DEF ttl, backed
<1>4. CacheOK(cache') /\ HandedOK(cache', handed') /\ FilesKept(cache, cache')
  BY <1>1, <1>2, <1>3, StoredOK DEF CInv
<1>5. \A rd \in Readers : ReaderOK(cache', handed', reader'[rd])
  <2>1. handed \subseteq handed'
    BY <1>3
  <2>2. \A rd \in Readers : ReaderOK(cache, handed, reader[rd])
    BY DEF CInv
  <2> QED
    BY <1>3, <1>4, <2>1, <2>2, ReaderKept
<1> QED
  BY <1>3, <1>4, <1>5 DEF CInv

(* A step of call rd that leaves the cache as it is.                         *)
LEMMA ReadingOK ==
    ASSUME CInv, NEW rd \in Readers, NEW r, Reading(rd, r), UNCHANGED <<handed, file>>,
           CacheOK(cache'), HandedOK(cache', handed), FilesKept(cache, cache'),
           ReaderOK(cache', handed, r)
    PROVE  CInv'
<1>1. reader' = [reader EXCEPT ![rd] = r] /\ DOMAIN reader = Readers
  BY DEF Reading, CInv
<1>2. ASSUME NEW x \in Readers PROVE ReaderOK(cache', handed', reader'[x])
  <2>1. CASE x = rd
    BY <1>1, <2>1
  <2>2. CASE x # rd
    <3>1. ReaderOK(cache, handed, reader[x])
      BY DEF CInv
    <3>2. ReaderOK(cache', handed, reader[x])
      BY <3>1, ReaderKept
    <3> QED
      BY <1>1, <2>2, <3>2
  <2> QED
    BY <2>1, <2>2
<1> QED
  BY <1>1, <1>2 DEF CInv

LEMMA Same == \A c : FilesKept(c, c)
BY DEF FilesKept

(* Get's answer, when every content the hash was handed out for is the one   *)
(* of the entry found.                                                       *)
LEMMA GotOK ==
    ASSUME NEW c, CacheOK(c), NEW hs, HandedOK(c, hs), NEW h, NEW meant, Resolve(c, h) # NoEntry,
           \A full \in meant : \E p \in hs : p[1] = h /\ p[2] = full
    PROVE  LET e == c.entries[Resolve(c, h)]
           IN  ReaderOK(c, hs, IF e.file THEN Read("check", h, meant, NoHash) ELSE Read("idle", h, meant, e.full))
<1> DEFINE e == c.entries[Resolve(c, h)]
<1>1. \A full \in meant : Resolve(c, h) = h /\ h \in Shorts(c) /\ e.full = full
  BY ResolveOK
<1>2. ReaderOK(c, hs, Read("idle", h, meant, e.full))
  BY <1>1 DEF ReaderOK, Read
<1>3. e.file => ReaderOK(c, hs, Read("check", h, meant, NoHash))
  BY <1>1 DEF ReaderOK, Read
<1> QED
  BY <1>2, <1>3

LEMMA FastStep ==
    ASSUME CInv, NEW rd \in Readers, NEW h, GetFast(rd, h)
    PROVE  CInv'
<1> DEFINE short == Resolve(cache, h)
           e == cache.entries[short]
<1>1. UNCHANGED <<cache, handed, file>>
  BY DEF GetFast
<1>2. CacheOK(cache) /\ HandedOK(cache, handed) /\ FilesKept(cache, cache)
  BY Same DEF CInv
<1>3. \A full \in Meant(h) : \E p \in handed : p[1] = h /\ p[2] = full
  BY DEF Meant
<1>4. ReaderOK(cache, handed, Read("idle", h, Meant(h), NoHash)) /\ ReaderOK(cache, handed, Read("upgrade", h, Meant(h), NoHash))
  BY <1>3 DEF ReaderOK, Read
<1>5. CASE short = NoEntry
  <2>1. Reading(rd, Read("idle", h, Meant(h), NoHash))
    BY <1>5 DEF GetFast
  <2> QED
    BY <1>1, <1>2, <1>4, <2>1, ReadingOK
<1>6. CASE short # NoEntry /\ Expired(e)
  <2>1. Reading(rd, Read("upgrade", h, Meant(h), NoHash))
    BY <1>6 DEF GetFast
  <2> QED
    BY <1>1, <1>2, <1>4, <2>1, ReadingOK
<1>7. CASE short # NoEntry /\ ~Expired(e)
  <2>1. Reading(rd, IF e.file THEN Read("check", h, Meant(h), NoHash) ELSE Read("idle", h, Meant(h), e.full))
    BY <1>7 DEF GetFast, Got
  <2>2. ReaderOK(cache, handed, IF e.file THEN Read("check", h, Meant(h), NoHash) ELSE Read("idle", h, Meant(h), e.full))
    BY <1>2, <1>3, <1>7, GotOK
  <2> QED
    BY <1>1, <1>2, <2>1, <2>2, ReadingOK
<1> QED
  BY <1>5, <1>6, <1>7

LEMMA SlowStep ==
    ASSUME CInv, NEW rd \in Readers, GetSlow(rd)
    PROVE  CInv'
<1> DEFINE r == reader[rd]
           short == Resolve(cache, r.hash)
           e == cache.entries[short]
           none == Read("idle", r.hash, r.meant, NoHash)
<1>1. UNCHANGED <<handed, file>>
  BY DEF GetSlow
<1>2. CacheOK(cache) /\ HandedOK(cache, handed) /\ FilesKept(cache, cache) /\ ReaderOK(cache, handed, r)
  BY Same DEF CInv
<1>3. \A full \in r.meant : \E p \in handed : p[1] = r.hash /\ p[2] = full
  BY <1>2 DEF ReaderOK
<1>4. \A c : ReaderOK(c, handed, none)
  BY <1>3 DEF ReaderOK, Read
<1>5. CASE short = NoEntry
  <2>1. Reading(rd, none) /\ cache' = cache
    BY <1>5 DEF GetSlow, Answer
  <2> QED
    BY <1>1, <1>2, <1>4, <2>1, ReadingOK
<1>6. CASE short # NoEntry /\ Expired(e)
  <2>1. Reading(rd, none) /\ cache' = Dropped(cache, {short})
    BY <1>6 DEF GetSlow, Answer
  <2>2. short \in Shorts(cache)
    BY <1>6 DEF Resolve
  <2>3. CacheOK(cache') /\ HandedOK(cache', handed) /\ FilesKept(cache, cache')
    BY <1>2, <1>6, <2>1, <2>2, DroppedOK
  <2> QED
    BY <1>1, <1>4, <2>1, <2>3, ReadingOK
<1>7. CASE short # NoEntry /\ ~Expired(e)
  <2>1. Reading(rd, IF e.file THEN Read("check", r.hash, r.meant, NoHash) ELSE Read("idle", r.hash, r.meant, e.full))
          /\ cache' = cache
    BY <1>7 DEF GetSlow, Got
  <2>2. ReaderOK(cache, handed, IF e.file THEN Read("check", r.hash, r.meant, NoHash) ELSE Read("idle", r.hash, r.meant, e.full))
    BY <1>2, <1>3, <1>7, GotOK
  <2> QED
    BY <1>1, <1>2, <2>1, <2>2, ReadingOK
<1> QED
  BY <1>5, <1>6, <1>7

LEMMA CheckStep ==
    ASSUME CInv, NEW rd \in Readers, CheckCoherence(rd)
    PROVE  CInv'
<1> DEFINE r == reader[rd]
           short == Resolve(cache, r.hash)
           e == cache.entries[short]
           none == Read("idle", r.hash, r.meant, NoHash)
           passed == [r EXCEPT !.pc = "read", !.seen = file]
<1>1. UNCHANGED <<cache, handed, file>> /\ r.pc = "check"
  BY DEF CheckCoherence
<1>2. CacheOK(cache) /\ HandedOK(cache, handed) /\ FilesKept(cache, cache) /\ ReaderOK(cache, handed, r)
  BY Same DEF CInv
<1>3. ReaderOK(cache, handed, none)
  BY <1>2 DEF ReaderOK, Read
<1>4. CASE short = NoEntry \/ Expired(e) \/ (e.file /\ e.full # FileHash[file])
  <2>1. Reading(rd, none)
    BY <1>4 DEF CheckCoherence, Answer
  <2> QED
    BY <1>1, <1>2, <1>3, <2>1, ReadingOK
<1>5. CASE ~(short = NoEntry \/ Expired(e) \/ (e.file /\ e.full # FileHash[file]))
  <2>1. Reading(rd, passed)
    BY <1>5 DEF CheckCoherence
  <2>2. DOMAIN passed = DOMAIN r /\ passed.pc = "read" /\ passed.seen = file /\ passed.file = r.file
          /\ passed.hash = r.hash /\ passed.meant = r.meant
    BY <1>2 DEF ReaderOK
  <2>3. ASSUME NEW full \in r.meant PROVE FileHash[file] = full
    <3>1. r.hash \in Shorts(cache) /\ cache.entries[r.hash].full = full /\ cache.entries[r.hash].file
      BY <1>1, <1>2 DEF ReaderOK
    <3>2. short = r.hash
      BY <3>1 DEF Resolve
    <3> QED
      BY <1>5, <3>1, <3>2
  <2> HIDE DEF passed
  <2>4. ReaderOK(cache, handed, passed)
    BY <1>1, <1>2, <2>2, <2>3 DEF ReaderOK
  <2> QED
    BY <1>1, <1>2, <2>1, <2>4, ReadingOK
<1> QED
  BY <1>4, <1>5

LEMMA FileStep ==
    ASSUME CInv, NEW rd \in Readers, ReadFile(rd)
    PROVE  CInv'
<1> DEFINE r == reader[rd]
           answered == [r EXCEPT !.pc = "idle", !.got = FileHash[file]]
<1>1. UNCHANGED <<cache, handed, file>> /\ r.pc = "read" /\ Reading(rd, answered)
  BY DEF ReadFile
<1>2. CacheOK(cache) /\ HandedOK(cache, handed) /\ FilesKept(cache, cache) /\ ReaderOK(cache, handed, r)
  BY Same DEF CInv
<1>3. DOMAIN answered = DOMAIN r /\ answered.pc = "idle" /\ answered.seen = r.seen /\ answered.file = r.file
        /\ answered.hash = r.hash /\ answered.meant = r.meant
  BY <1>2 DEF ReaderOK
<1> HIDE DEF answered
<1>4. ReaderOK(cache, handed, answered)
  BY <1>1, <1>2, <1>3 DEF ReaderOK
<1> QED
  BY <1>1, <1>2, <1>4, ReadingOK

LEMMA AgeStep ==
    ASSUME CInv, NEW short \in Shorts(cache), Age(short)
    PROVE  CInv'
<1> DEFINE e == cache.entries[short]
<1>1. cache' = [cache EXCEPT !.entries[short].old = TRUE] /\ e.ttl /\ UNCHANGED <<handed, file, reader>>
  BY DEF Age
<1>2. CacheOK(cache) /\ HandedOK(cache, handed)
  BY DEF CInv
<1>3. e \in Entries /\ IsShort(short, e.full) /\ ~e.file
  BY <1>1, <1>2 DEF CacheOK
<1>4. /\ DOMAIN cache' = {"entries", "retired", "stores"}
      /\ Shorts(cache') = Shorts(cache) /\ cache'.retired = cache.retired
      /\ cache'.entries[short] = [e EXCEPT !.old = TRUE]
      /\ \A s \in Shorts(cache) \ {short} : cache'.entries[s] = cache.entries[s]
  BY <1>1, <1>2 DEF CacheOK, Shorts
<1>5. cache'.entries[short] \in Entries /\ cache'.entries[short].full = e.full /\ ~cache'.entries[short].file
  BY <1>3, <1>4 DEF Entries
<1> HIDE DEF e
<1>6. CacheOK(cache')
  BY <1>2, <1>3, <1>4, <1>5 DEF CacheOK
<1>7. HandedOK(cache', handed)
  BY <1>2, <1>4, <1>5 DEF HandedOK, e
<1>8. FilesKept(cache, cache')
  BY <1>3, <1>4 DEF FilesKept, e
<1>9. \A rd \in Readers : ReaderOK(cache', handed, reader[rd])
  BY <1>8, ReaderKept DEF CInv
<1> QED
  BY <1>1, <1>6, <1>7, <1>9 DEF CInv

LEMMA EditStep == CInv /\ EditFile => CInv'
BY ResultsAssumption DEF CInv, EditFile

LEMMA RestartStep == CInv /\ Restart => CInv'
<1> SUFFICES ASSUME CInv, Restart PROVE CInv'
  OBVIOUS
<1>1. cache' = EmptyCache /\ handed' = {} /\ reader' = [rd \in Readers |-> NoRead] /\ file' = file
  BY DEF Restart
<1> QED
  BY <1>1, EmptyOK, NoReadOK DEF CInv

LEMMA CacheStarts == CacheInit => CInv
<1> SUFFICES ASSUME CacheInit PROVE CInv
  OBVIOUS
<1>1. cache = EmptyCache /\ handed = {} /\ reader = [rd \in Readers |-> NoRead] /\ file = 0
  BY DEF CacheInit
<1> QED
  BY <1>1, EmptyOK, NoReadOK, ResultsAssumption DEF CInv

LEMMA CacheSteps == CInv /\ [CacheNext]_cacheVars => CInv'
<1> SUFFICES ASSUME CInv, [CacheNext]_cacheVars PROVE CInv'
  OBVIOUS
<1>1. ASSUME NEW t \in Tools, NEW full \in Results(t), Store(t, full) PROVE CInv'
  BY <1>1, StoreStep
<1>2. ASSUME NEW rd \in Readers, ReadStep(rd) PROVE CInv'
  BY <1>2, FastStep, SlowStep, CheckStep, FileStep DEF ReadStep
<1>3. ASSUME NEW short \in Shorts(cache), Age(short) PROVE CInv'
  BY <1>3, AgeStep
<1>4. CASE UNCHANGED cacheVars
  BY <1>4 DEF cacheVars, CInv
<1> QED
  BY <1>1, <1>2, <1>3, <1>4, EditStep, RestartStep DEF CacheNext

LEMMA CacheInvariantHonest == CInv => CacheHonest
<1> SUFFICES ASSUME CInv PROVE CacheHonest
  OBVIOUS
<1>1. HandedOK(cache, handed)
  BY DEF CInv
<1>2. HashNeverReused
  <2>1. \A p, q \in handed : p[1] = q[1] => p[2] = q[2]
    BY <1>1 DEF HandedOK
  <2>2. ASSUME NEW p \in handed, Resolve(cache, p[1]) # NoEntry
        PROVE  cache.entries[Resolve(cache, p[1])].full = p[2]
    BY <1>1, <2>2, ResolveOK
  <2> QED
    BY <2>1, <2>2 DEF HashNeverReused
<1>3. ReadsWhatWasCached
  BY DEF CInv, ReaderOK, ReadsWhatWasCached
<1> QED
  BY <1>2, <1>3 DEF CacheHonest

(* The cache keeps every short hash honest, for any number of readers, any   *)
(* tools, hash lengths and files: a hash handed out by Store never comes to  *)
(* mean another content, and a read by it, whatever is stored, expires or is *)
(* swept while it runs, returns that content or nothing; of a file edited    *)
(* after the coherence check it returns the later version, and of one edited *)
(* before it nothing (tool_result_read.go:96-138).                           *)
THEOREM CacheIsHonest == CacheSpec => []CacheHonest
<1>1. CacheInit => CInv
  BY CacheStarts
<1>2. CInv /\ [CacheNext]_cacheVars => CInv'
  BY CacheSteps
<1>3. CInv => CacheHonest
  BY CacheInvariantHonest
<1> QED
  BY <1>1, <1>2, <1>3, PTL DEF CacheSpec

-----------------------------------------------------------------------------
(* The window over the cache                                                 *)

StepRec ==
    [n : Nat, call : BOOLEAN, tool : Tools \union {"none"}, group : Nat, first : BOOLEAN,
     nudge : BOOLEAN, untrusted : BOOLEAN, hash : Seq(Nat), turn : Nat]

(* The group ids of the trajectory are behind the counter and tell replies   *)
(* apart.                                                                    *)
GroupsOK ==
    /\ \A i \in DOMAIN steps : steps[i].group <= groups /\ steps[i].turn <= i
    /\ \A i, j \in ToolIndices : steps[i].group > 0 /\ steps[i].group = steps[j].group =>
          steps[i].turn = steps[j].turn
    /\ \A i, j \in ToolIndices : steps[i].turn = steps[j].turn => steps[i].group = steps[j].group

ReplyRec == [calls : Seq(Tools), group : Nat, turn : Nat, batch : BOOLEAN]

(* The reply being processed: its steps so far carry its group, and no step  *)
(* of another reply does, unless the group is 0.                             *)
ReplyOK ==
    /\ reply.group <= groups
    /\ reply = NoReply \/ reply.calls # <<>>
    /\ reply # NoReply =>
          /\ reply.turn <= Len(steps) + 1
          /\ \A i \in ToolIndices : steps[i].turn = reply.turn => steps[i].group = reply.group
          /\ \A i \in ToolIndices : steps[i].group = reply.group /\ reply.group > 0 =>
                steps[i].turn = reply.turn

WTypeOK ==
    /\ cfg \in Configs
    /\ steps \in Seq(StepRec)
    /\ overhead \in 0 .. (MaxReserve * 80) \div 100
    /\ groups \in Nat
    /\ reply \in ReplyRec

WInv == WTypeOK /\ GroupsOK /\ ReplyOK

LEMMA Reserve == MaxReserve \in Int /\ MaxReserve > 0 /\ (MaxReserve * 80) \div 100 \in 0 .. MaxReserve - 1
<1>1. MaxReserve \in Int /\ MaxReserve > 0
  BY WindowAssumption DEF MaxReserve
<1>2. \A m \in Int : m > 0 => (m * 80) \div 100 \in 0 .. m - 1
  OBVIOUS
<1> QED
  BY <1>1, <1>2

LEMMA LessOf == \A a, b \in Int : Min({a, b}) \in {a, b} /\ Min({a, b}) <= a /\ Min({a, b}) <= b
<1> SUFFICES ASSUME NEW a \in Int, NEW b \in Int
             PROVE  Min({a, b}) \in {a, b} /\ Min({a, b}) <= a /\ Min({a, b}) <= b
  OBVIOUS
<1>1. \E x \in {a, b} : \A y \in {a, b} : x =< y
  OBVIOUS
<1> QED
  BY <1>1 DEF Min

(* A bounded set of natural numbers has a largest one.                       *)
LEMMA GreatestOf ==
    ASSUME NEW S \in SUBSET Nat, S # {}, NEW b \in Nat, \A x \in S : x <= b
    PROVE  Max(S) \in S /\ \A y \in S : Max(S) >= y
<1> DEFINE D == {b - x : x \in S}
<1>1. D \in SUBSET Nat /\ D # {}
  <2>1. \A x \in S : b - x \in Nat
    OBVIOUS
  <2> QED
    BY <2>1
<1>2. PICK d \in D : \A m \in D : d <= m
  BY <1>1, LeastOf
<1>3. PICK x \in S : d = b - x
  BY <1>2
<1>4. \A y \in S : x >= y
  <2>1. ASSUME NEW y \in S PROVE x >= y
    <3>1. b - y \in D
      OBVIOUS
    <3>2. b - x <= b - y
      BY <1>2, <1>3, <3>1
    <3> QED
      BY <3>2
  <2> QED
    BY <2>1
<1> QED
  BY <1>4 DEF Max

LEMMA MaxGroupAbove ==
    ASSUME WInv
    PROVE  MaxGroup(steps) \in Nat /\ \A i \in DOMAIN steps : steps[i].group <= MaxGroup(steps)
<1> DEFINE S == {0} \union {steps[i].group : i \in DOMAIN steps}
<1>1. \A i \in DOMAIN steps : steps[i] \in StepRec /\ steps[i].group <= groups
  BY DEF WInv, WTypeOK, GroupsOK
<1>2. S \in SUBSET Nat /\ S # {}
  BY <1>1 DEF StepRec
<1>3. groups \in Nat /\ \A x \in S : x <= groups
  BY <1>1 DEF WInv, WTypeOK
<1>4. Max(S) \in S /\ \A y \in S : Max(S) >= y
  BY <1>2, <1>3, GreatestOf
<1>5. MaxGroup(steps) = Max(S)
  BY DEF MaxGroup
<1> HIDE DEF S
<1>6. \A i \in DOMAIN steps : steps[i].group \in S
  BY DEF S
<1> QED
  BY <1>2, <1>4, <1>5, <1>6

(* The hash that Store returns is a sequence of digits.                      *)
LEMMA StoredShortType ==
    ASSUME NEW c, CacheOK(c), NEW full \in Fulls
    PROVE  StoredShort(c, full) \in Seq(Nat)
<1>1. IsShort(StoredShort(c, full), full)
  <2>1. CASE ShortOf(c, full) # {}
    BY <2>1 DEF StoredShort, ShortOf, CacheOK
  <2>2. CASE ShortOf(c, full) = {}
    BY <2>2, AbbreviateFresh DEF StoredShort
  <2> QED
    BY <2>1, <2>2
<1>2. PICK n \in MinAbbrevLen .. HashLen : StoredShort(c, full) = SubSeq(full, 1, n)
  BY <1>1 DEF IsShort
<1>3. full \in Seq(Nat) /\ Len(full) = HashLen /\ n \in Nat /\ n <= HashLen
  BY <1>2, FullLength, HashAssumption
<1>4. SubSeq(full, 1, n) \in Seq(Nat)
  BY <1>3
<1> QED
  BY <1>2, <1>4

LEMMA WindowStarts == Init => WInv
<1> SUFFICES ASSUME Init PROVE WInv
  OBVIOUS
<1>1. steps = <<>> /\ reply = NoReply /\ groups = 0 /\ overhead = 0 /\ cfg \in Configs
  BY DEF Init
<1>2. NoReply \in ReplyRec /\ NoReply.group = 0
  BY DEF NoReply, ReplyRec
<1>3. WTypeOK
  BY <1>1, <1>2, Reserve DEF WTypeOK
<1>4. GroupsOK /\ ReplyOK
  BY <1>1, <1>2 DEF GroupsOK, ReplyOK, ToolIndices
<1> QED
  BY <1>3, <1>4 DEF WInv

(* A step appended to the trajectory.                                        *)
LEMMA Appended ==
    ASSUME WTypeOK, NEW s \in StepRec, steps' = Append(steps, s)
    PROVE  /\ steps' \in Seq(StepRec) /\ Len(steps) \in Nat /\ Len(steps') = Len(steps) + 1
           /\ DOMAIN steps' = DOMAIN steps \union {Len(steps) + 1}
           /\ \A i \in DOMAIN steps : steps'[i] = steps[i] /\ i <= Len(steps) /\ i \in Nat
           /\ steps'[Len(steps) + 1] = s
BY DEF WTypeOK

LEMMA StepAddedStep ==
    ASSUME WInv, reply # NoReply, NEW hash \in Seq(Nat), NEW untrusted \in BOOLEAN, NEW first \in BOOLEAN,
           NEW rest, rest = <<>> \/ rest = Tail(reply.calls), StepAdded(hash, untrusted, first, rest)
    PROVE  WInv'
<1> DEFINE k == Len(steps) + 1
           s == [n |-> k, call |-> TRUE, tool |-> Head(reply.calls), group |-> reply.group,
                 first |-> first, nudge |-> FALSE, untrusted |-> untrusted, hash |-> hash,
                 turn |-> reply.turn]
<1>1. WTypeOK /\ GroupsOK /\ ReplyOK
  BY DEF WInv
<1>2. reply \in ReplyRec /\ reply.calls # <<>> /\ Len(steps) \in Nat
        /\ reply.calls \in Seq(Tools) /\ reply.group \in Nat /\ reply.turn \in Nat
  BY <1>1 DEF WTypeOK, ReplyOK, ReplyRec
<1>3. Head(reply.calls) \in Tools /\ Tail(reply.calls) \in Seq(Tools) /\ Len(Tail(reply.calls)) = Len(reply.calls) - 1
        /\ Len(reply.calls) \in Nat
  BY <1>2
<1>4. s \in StepRec
  BY <1>2, <1>3 DEF StepRec
<1>5. s.call /\ s.group = reply.group /\ s.turn = reply.turn
  OBVIOUS
<1>6. steps' = Append(steps, s) /\ reply' = After(rest) /\ UNCHANGED <<cfg, overhead, groups>>
  BY DEF StepAdded
<1> HIDE DEF s
<1>7. /\ steps' \in Seq(StepRec) /\ Len(steps') = k
      /\ DOMAIN steps' = DOMAIN steps \union {k}
      /\ \A i \in DOMAIN steps : steps'[i] = steps[i] /\ i < k /\ i \in Nat
      /\ steps'[k] = s
  BY <1>1, <1>2, <1>4, <1>6, Appended
<1>8. \/ reply' = NoReply
      \/ /\ rest = Tail(reply.calls) /\ rest # <<>> /\ reply'.calls = rest
         /\ reply'.group = reply.group /\ reply'.turn = reply.turn
         /\ reply' \in ReplyRec
  BY <1>2, <1>3, <1>6 DEF After, ReplyRec
<1>9. NoReply \in ReplyRec /\ NoReply.group = 0
  BY DEF NoReply, ReplyRec
<1>10. WTypeOK'
  <2>1. reply' \in ReplyRec
    BY <1>8, <1>9
  <2> QED
    BY <1>1, <1>6, <1>7, <2>1 DEF WTypeOK, MaxReserve
<1>11. ToolIndices' = ToolIndices \union {k}
  BY <1>5, <1>7 DEF ToolIndices
<1>12. /\ reply.turn <= k /\ reply.group <= groups /\ reply.turn \in Nat /\ reply.group \in Nat
       /\ \A i \in ToolIndices : steps[i].turn = reply.turn => steps[i].group = reply.group
       /\ \A i \in ToolIndices : steps[i].group = reply.group /\ reply.group > 0 => steps[i].turn = reply.turn
  BY <1>1, <1>2 DEF ReplyOK
<1>13. ToolIndices \subseteq DOMAIN steps
  BY DEF ToolIndices
<1>14. GroupsOK'
  <2>1. \A i \in DOMAIN steps' : steps'[i].group <= groups' /\ steps'[i].turn <= i
    BY <1>1, <1>5, <1>6, <1>7, <1>12 DEF GroupsOK
  <2>2. \A i, j \in ToolIndices' : steps'[i].group > 0 /\ steps'[i].group = steps'[j].group =>
           steps'[i].turn = steps'[j].turn
    BY <1>1, <1>5, <1>7, <1>11, <1>12, <1>13 DEF GroupsOK
  <2>3. \A i, j \in ToolIndices' : steps'[i].turn = steps'[j].turn => steps'[i].group = steps'[j].group
    <3>1. \A i \in ToolIndices : steps'[i] = steps[i] /\ i # k
      BY <1>2, <1>7, <1>13
    <3>2. \A i, j \in ToolIndices : steps[i].turn = steps[j].turn => steps[i].group = steps[j].group
      BY <1>1 DEF GroupsOK
    <3>3. \A i \in ToolIndices : steps[i].turn = steps'[k].turn => steps[i].group = steps'[k].group
      BY <1>5, <1>7, <1>12
    <3> QED
      BY <1>11, <3>1, <3>2, <3>3
  <2> QED
    BY <2>1, <2>2, <2>3 DEF GroupsOK
<1>15. ReplyOK'
  <2>1. CASE reply' = NoReply
    BY <1>1, <1>6, <1>9, <2>1 DEF ReplyOK, WTypeOK
  <2>2. CASE reply' # NoReply
    <3>1. rest = Tail(reply.calls) /\ rest # <<>> /\ reply'.calls = rest
            /\ reply'.group = reply.group /\ reply'.turn = reply.turn
      BY <1>8, <2>2
    <3>3. \A i \in ToolIndices' : steps'[i].turn = reply.turn => steps'[i].group = reply.group
      BY <1>5, <1>7, <1>11, <1>12, <1>13
    <3>4. \A i \in ToolIndices' : steps'[i].group = reply.group /\ reply.group > 0 => steps'[i].turn = reply.turn
      BY <1>5, <1>7, <1>11, <1>12, <1>13
    <3>5. reply'.turn <= Len(steps') + 1 /\ reply'.group <= groups'
      BY <1>2, <1>6, <1>7, <1>12, <3>1
    <3> QED
      BY <3>1, <3>3, <3>4, <3>5 DEF ReplyOK
  <2> QED
    BY <2>1, <2>2
<1> QED
  BY <1>10, <1>14, <1>15 DEF WInv

LEMMA TakeReplyStep ==
    ASSUME WInv, NEW r \in ReplyShape, r.calls # <<>>, TakeReply(r)
    PROVE  WInv'
<1> DEFINE g == IF r.several THEN groups + 1 ELSE 0
<1>1. WTypeOK /\ GroupsOK /\ ReplyOK
  BY DEF WInv
<1>2. /\ UNCHANGED <<cfg, steps, overhead>>
      /\ groups' = IF r.several THEN groups + 1 ELSE groups
      /\ reply' = [calls |-> r.calls, group |-> g, turn |-> Len(steps) + 1, batch |-> r.batch]
      /\ r.calls \in Seq(Tools) /\ r.batch \in BOOLEAN
  BY DEF TakeReply, ReplyShape
<1>3. groups \in Nat /\ groups' \in Nat /\ g \in Nat /\ g <= groups' /\ groups <= groups' /\ Len(steps) \in Nat
        /\ (g > 0 => g > groups)
  <2>1. groups \in Nat /\ Len(steps) \in Nat
    BY <1>1 DEF WTypeOK
  <2>2. CASE r.several
    BY <1>2, <2>1, <2>2
  <2>3. CASE ~r.several
    BY <1>2, <2>1, <2>3
  <2> QED
    BY <2>2, <2>3
<1> HIDE DEF g
<1>4. reply' \in ReplyRec /\ reply'.calls = r.calls /\ reply'.group = g
        /\ reply'.turn = Len(steps) + 1
  BY <1>2, <1>3 DEF ReplyRec
<1>5. WTypeOK'
  BY <1>1, <1>2, <1>3, <1>4 DEF WTypeOK, MaxReserve
<1>6. ToolIndices' = ToolIndices /\ ToolIndices \subseteq DOMAIN steps
  BY <1>2 DEF ToolIndices
<1>7. \A i \in DOMAIN steps : steps[i].group \in Nat /\ steps[i].turn \in Nat /\ i \in 1 .. Len(steps)
        /\ steps[i].group <= groups /\ steps[i].turn <= i
  <2>1. \A i \in DOMAIN steps : steps[i] \in StepRec /\ i \in 1 .. Len(steps)
    BY <1>1 DEF WTypeOK
  <2>2. \A s \in StepRec : s.group \in Nat /\ s.turn \in Nat
    BY DEF StepRec
  <2>3. \A i \in DOMAIN steps : steps[i].group <= groups /\ steps[i].turn <= i
    BY <1>1 DEF GroupsOK
  <2> QED
    BY <2>1, <2>2, <2>3
<1>8. GroupsOK'
  <2>1. \A i \in DOMAIN steps' : steps'[i].group <= groups' /\ steps'[i].turn <= i
    BY <1>2, <1>3, <1>7
  <2> QED
    BY <1>1, <1>2, <1>6, <2>1 DEF GroupsOK
<1>9. ReplyOK'
  <2>1. \A i \in ToolIndices : steps[i].turn # Len(steps) + 1 /\ (g > 0 => steps[i].group # g)
    BY <1>3, <1>6, <1>7
  <2>2. /\ reply'.group <= groups' /\ reply'.calls # <<>> /\ reply'.turn <= Len(steps') + 1
    BY <1>2, <1>3, <1>4
  <2> QED
    BY <1>2, <1>4, <1>6, <2>1, <2>2 DEF ReplyOK
<1> QED
  BY <1>5, <1>8, <1>9 DEF WInv

LEMMA NudgeStep == WInv /\ AddNudge => WInv'
<1> SUFFICES ASSUME WInv, AddNudge PROVE WInv'
  OBVIOUS
<1> DEFINE k == Len(steps) + 1
           s == [n |-> k, call |-> FALSE, tool |-> "none", group |-> 0, first |-> FALSE, nudge |-> TRUE,
                 untrusted |-> FALSE, hash |-> NoHash, turn |-> k]
<1>1. WTypeOK /\ GroupsOK /\ ReplyOK
  BY DEF WInv
<1>2. Len(steps) \in Nat /\ groups \in Nat
  BY <1>1 DEF WTypeOK
<1>3. s \in StepRec
  BY <1>2 DEF StepRec, NoHash
<1>4. ~s.call /\ s.group = 0 /\ s.turn = k
  OBVIOUS
<1>5. steps' = Append(steps, s) /\ reply' = NoReply /\ UNCHANGED <<cfg, overhead, groups>>
  BY DEF AddNudge
<1> HIDE DEF s
<1>6. /\ steps' \in Seq(StepRec) /\ DOMAIN steps' = DOMAIN steps \union {k}
      /\ \A i \in DOMAIN steps : steps'[i] = steps[i] /\ i < k /\ i \in Nat
      /\ steps'[k] = s
  BY <1>1, <1>2, <1>3, <1>5, Appended
<1>7. NoReply \in ReplyRec /\ NoReply.group = 0
  BY DEF NoReply, ReplyRec
<1>8. WTypeOK'
  BY <1>1, <1>5, <1>6, <1>7 DEF WTypeOK, MaxReserve
<1>9. ToolIndices' = ToolIndices /\ ToolIndices \subseteq DOMAIN steps
  BY <1>4, <1>6 DEF ToolIndices
<1>10. GroupsOK'
  <2>1. \A i \in DOMAIN steps' : steps'[i].group <= groups' /\ steps'[i].turn <= i
    BY <1>1, <1>2, <1>4, <1>5, <1>6 DEF GroupsOK
  <2> QED
    BY <1>1, <1>6, <1>9, <2>1 DEF GroupsOK
<1>11. ReplyOK'
  BY <1>2, <1>5, <1>7 DEF ReplyOK
<1> QED
  BY <1>8, <1>10, <1>11 DEF WInv

LEMMA SeedStep == WInv /\ (\E same \in BOOLEAN : SeedSteps(same)) => WInv'
<1> SUFFICES ASSUME WInv, NEW same \in BOOLEAN, SeedSteps(same) PROVE WInv'
  OBVIOUS
<1>1. WTypeOK /\ GroupsOK
  BY DEF WInv
<1>2. groups' = MaxGroup(steps) /\ reply' = NoReply /\ UNCHANGED <<cfg, steps, overhead>>
  BY DEF SeedSteps
<1>3. MaxGroup(steps) \in Nat /\ \A i \in DOMAIN steps : steps[i].group <= MaxGroup(steps)
  BY MaxGroupAbove
<1>4. NoReply \in ReplyRec /\ NoReply.group = 0
  BY DEF NoReply, ReplyRec
<1>5. WTypeOK'
  BY <1>1, <1>2, <1>3, <1>4 DEF WTypeOK, MaxReserve
<1>6. GroupsOK'
  BY <1>1, <1>2, <1>3 DEF GroupsOK, ToolIndices
<1>7. ReplyOK'
  BY <1>2, <1>3, <1>4 DEF ReplyOK
<1> QED
  BY <1>5, <1>6, <1>7 DEF WInv

(* A step that touches none of the variables of the invariant but overhead.  *)
LEMMA OtherStep ==
    ASSUME WInv, UNCHANGED <<cfg, steps, groups, reply>>, overhead' \in 0 .. (MaxReserve * 80) \div 100
    PROVE  WInv'
BY DEF WInv, WTypeOK, GroupsOK, ReplyOK, ToolIndices, MaxReserve

LEMMA OverheadStep ==
    ASSUME WInv, NEW tokens \in Overheads, SetToolOverhead(tokens)
    PROVE  WInv'
<1> DEFINE most == (MaxReserve * 80) \div 100
<1>1. UNCHANGED <<cfg, steps, groups, reply>> /\ overhead' = Min({tokens, most})
  BY DEF SetToolOverhead
<1>2. tokens \in Nat /\ most \in Nat
  BY WindowAssumption, Reserve
<1> HIDE DEF most
<1>3. overhead' \in {tokens, most} /\ overhead' <= most
  BY <1>1, <1>2, LessOf
<1>4. overhead' \in 0 .. most
  BY <1>2, <1>3
<1> QED
  BY <1>1, <1>4, OtherStep DEF most

LEMMA WindowSteps == WInv /\ CInv /\ [Next]_vars => WInv'
<1> SUFFICES ASSUME WInv, CInv, [Next]_vars PROVE WInv'
  OBVIOUS
<1>1. WTypeOK /\ overhead \in 0 .. (MaxReserve * 80) \div 100
  BY DEF WInv, WTypeOK
<1>2. ASSUME NEW r \in cfg.replies, TakeReply(r) PROVE WInv'
  <2>1. r \in ReplyShape /\ r.calls # <<>>
    BY <1>1, RepliesAssumption DEF WTypeOK
  <2> QED
    BY <1>2, <2>1, TakeReplyStep
<1>3. CASE AddStep
  <2> DEFINE t == Head(reply.calls)
  <2>1. reply # NoReply /\ t \in Tools
    BY <1>3 DEF AddStep, WInv, WTypeOK, ReplyOK, ReplyRec
  <2> DEFINE f == Len(steps) + 1 = reply.turn
  <2>2. CASE t \in NonCacheable
    <3>1. StepAdded(NoHash, t \in UntrustedTools, f, Tail(reply.calls))
      BY <1>3, <2>2 DEF AddStep
    <3>2. NoHash \in Seq(Nat) /\ (t \in UntrustedTools) \in BOOLEAN /\ f \in BOOLEAN
      BY DEF NoHash
    <3> QED
      BY <2>1, <3>1, <3>2, StepAddedStep
  <2>3. CASE t \notin NonCacheable
    <3>1. PICK full \in Results(t) : StepAdded(StoredShort(cache, full), t \in UntrustedTools, f, Tail(reply.calls))
      BY <1>3, <2>3 DEF AddStep
    <3>2. full \in Fulls
      BY <2>1, <3>1, ResultsFull DEF CInv
    <3>3. StoredShort(cache, full) \in Seq(Nat)
      BY <3>2, StoredShortType DEF CInv
    <3>4. (t \in UntrustedTools) \in BOOLEAN /\ f \in BOOLEAN
      OBVIOUS
    <3> QED
      BY <2>1, <3>1, <3>3, <3>4, StepAddedStep
  <2> QED
    BY <2>2, <2>3
<1>4. CASE Intercept
  <2> DEFINE f == Len(steps) + 1 = reply.turn /\ ~reply.batch
  <2>1. reply # NoReply /\ StepAdded(NoHash, FALSE, f, <<>>) /\ f \in BOOLEAN
    BY <1>4 DEF Intercept
  <2>2. NoHash \in Seq(Nat)
    BY DEF NoHash
  <2> QED
    BY <2>1, <2>2, StepAddedStep
<1>5. ASSUME NEW s \in cfg.strategies, Compact(s) PROVE WInv'
  BY <1>1, <1>5, OtherStep DEF Compact
<1>6. CASE CacheStep \/ UNCHANGED vars
  BY <1>1, <1>6, OtherStep DEF CacheStep, vars, windowVars
<1> QED
  BY <1>2, <1>3, <1>4, <1>5, <1>6, OverheadStep, NudgeStep, SeedStep DEF Next

(* Every step of the window is a step of the cache or leaves it alone.       *)
LEMMA WindowStepIsCacheStep == WInv /\ [Next]_vars => [CacheNext]_cacheVars
<1> SUFFICES ASSUME WInv, [Next]_vars PROVE [CacheNext]_cacheVars
  OBVIOUS
<1>1. CASE AddStep
  <2> DEFINE t == Head(reply.calls)
  <2>1. t \in Tools
    BY <1>1 DEF AddStep, WInv, WTypeOK, ReplyOK, ReplyRec
  <2>2. UNCHANGED cacheVars \/ \E full \in Results(t) : Store(t, full)
    BY <1>1 DEF AddStep
  <2> QED
    BY <2>1, <2>2 DEF CacheNext
<1>2. CASE CacheStep
  BY <1>2 DEF CacheStep, OtherStore, CacheNext
<1>3. ASSUME NEW same \in BOOLEAN, SeedSteps(same) PROVE [CacheNext]_cacheVars
  BY <1>3 DEF SeedSteps, CacheNext
<1>4. CASE (\E tokens \in Overheads : SetToolOverhead(tokens)) \/ (\E r \in cfg.replies : TakeReply(r))
              \/ Intercept \/ AddNudge \/ (\E s \in cfg.strategies : Compact(s)) \/ UNCHANGED vars
  <2>1. UNCHANGED cacheVars
    BY <1>4 DEF SetToolOverhead, TakeReply, Intercept, AddNudge, Compact, vars
  <2> QED
    BY <2>1
<1> QED
  BY <1>1, <1>2, <1>3, <1>4 DEF Next

LEMMA InitStartsCache == Init => CacheInit
BY DEF Init

(* The window, with every resume, reply and read, uses the cache only        *)
(* through the cache's own operations: it implements the cache's             *)
(* specification.                                                            *)
THEOREM WindowUsesCache == Spec => CacheSpec
<1>1. Init => WInv /\ CInv
  BY WindowStarts, InitStartsCache, CacheStarts
<1>2. WInv /\ CInv /\ [Next]_vars => (WInv /\ CInv)' /\ [CacheNext]_cacheVars
  BY WindowSteps, WindowStepIsCacheStep, CacheSteps
<1>3. Init => CacheInit
  BY InitStartsCache
<1> QED
  BY <1>1, <1>2, <1>3, PTL DEF Spec, CacheSpec

(* The short hashes of the results in the trajectory stay honest, in the     *)
(* sense of CacheIsHonest.                                                   *)
THEOREM WindowHashesHonest == Spec => []CacheHonest
BY WindowUsesCache, CacheIsHonest, PTL

LEMMA TogetherFollows == WInv => GroupsNameReplies /\ RepliesProtectedTogether /\ RoomLeft
<1> SUFFICES ASSUME WInv PROVE GroupsNameReplies /\ RepliesProtectedTogether /\ RoomLeft
  OBVIOUS
<1>1. GroupsOK /\ overhead \in 0 .. (MaxReserve * 80) \div 100
  BY DEF WInv, WTypeOK
<1>2. GroupsNameReplies
  BY <1>1 DEF GroupsOK, GroupsNameReplies
<1>3. RepliesProtectedTogether
  <2>1. SUFFICES ASSUME NEW i \in ToolIndices, NEW j \in ToolIndices, steps[i].turn = steps[j].turn,
                        steps[i].group > 0, i \in Protected
                 PROVE  j \in Protected
    <3>1. \A i, j \in ToolIndices : steps[i].turn = steps[j].turn => steps[i].group = steps[j].group
      BY <1>1 DEF GroupsOK
    <3> QED
      BY <3>1 DEF RepliesProtectedTogether
  <2>2. steps[i].group > 0 /\ steps[i].group = steps[j].group /\ steps[j].group > 0 /\ j \in DOMAIN steps
    BY <1>1, <2>1 DEF GroupsOK, ToolIndices
  <2>3. CASE cfg.keepLastN <= 0
    BY <2>1, <2>3 DEF Protected
  <2>4. CASE ~(cfg.keepLastN <= 0) /\ cfg.keepLastN > 0 /\ cfg.threshold > 0 /\ FillBelow(cfg.threshold)
    BY <2>1, <2>4 DEF Protected
  <2>5. CASE ~(cfg.keepLastN <= 0) /\ ~(cfg.keepLastN > 0 /\ cfg.threshold > 0 /\ FillBelow(cfg.threshold))
    <3> DEFINE own == LastTools(cfg.keepLastN) \union {x \in ToolIndices : steps[x].tool \in ProtectedTools}
    <3>1. Protected = own \union {x \in DOMAIN steps : steps[x].group > 0
                                    /\ \E y \in own : steps[y].group = steps[x].group}
      BY <2>5 DEF Protected
    <3> HIDE DEF own
    <3> QED
      BY <2>1, <2>2, <3>1
  <2> QED
    BY <2>3, <2>4, <2>5
<1>4. RoomLeft
  BY <1>1, Reserve DEF RoomLeft, EffectiveMax
<1> QED
  BY <1>2, <1>3, <1>4

(* Results of one reply carry one group id, and a group id other than 0      *)
(* names one reply, across batches, resumes on a new executor, nudges and    *)
(* replies given up half way; protection from pruning therefore covers a     *)
(* whole group or nothing of it; and the tool definitions never use up the   *)
(* window (executor_run.go:812, executor.go:1458, context.go:845).           *)
THEOREM RepliesStayTogether == Spec => []RepliesKept
<1>1. Init => WInv /\ CInv
  BY WindowStarts, InitStartsCache, CacheStarts
<1>2. WInv /\ CInv /\ [Next]_vars => (WInv /\ CInv)'
  BY WindowSteps, WindowStepIsCacheStep, CacheSteps
<1>3. WInv => RepliesKept
  BY TogetherFollows DEF RepliesKept
<1> QED
  BY <1>1, <1>2, <1>3, PTL DEF Spec
=============================================================================
