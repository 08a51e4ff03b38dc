---------------------------- MODULE ToolResultCache ----------------------------
(***************************************************************************)
(* agent/tool_cache.go: the cache of full tool results behind the short      *)
(* hashes that the model sees, and tools/builtins/tool_result_read.go, the   *)
(* tool that reads them back.  One cache serves every agent of the process,  *)
(* so their stores and reads interleave, while entries age and the file      *)
(* behind the file-backed entries changes.                                   *)
(*                                                                           *)
(* A full hash is a sequence of HashLen digits and stands for the content it *)
(* was computed from (SHA-256 taken as injective); a short hash is one of    *)
(* its prefixes.  fullToShort is the inverse of entries and is not kept.     *)
(***************************************************************************)
EXTENDS Naturals, Sequences, FiniteSets

CONSTANTS
    MinAbbrevLen,   \* minAbbrevLen
    HashLen,        \* fullHashLen
    EvictEvery,     \* one Store in EvictEvery sweeps the expired entries (100)
    ResultsOf,      \* tool -> the full hashes of its possible results
    FileTool,       \* the tool whose result is backed by the file
    FileHash,       \* version of the file -> full hash of the file tool's result
    MCPTools,       \* the tools whose entries expire
    Readers,        \* the tool_result_read calls that may be in flight
    EditBound       \* bound of the model on the edits of the file

ASSUME HashAssumption == MinAbbrevLen \in Nat \ {0} /\ HashLen \in Nat /\ MinAbbrevLen <= HashLen
ASSUME EvictAssumption == EvictEvery \in Nat \ {0}

Fulls == [1 .. HashLen -> Nat]

(* Only MCP entries have a TTL, and buildCacheMeta gives those no file.      *)
ASSUME ResultsAssumption ==
    /\ EditBound \in Nat
    /\ \A t \in DOMAIN ResultsOf : ResultsOf[t] \subseteq Fulls
    /\ FileHash \in [0 .. EditBound -> Fulls]
    /\ FileTool \notin MCPTools

VARIABLES
    cache,      \* ToolResultCache: entries, retiredShort and storeCount
    handed,     \* history: the (short, full) pairs Store has returned
    file,       \* the version of the file
    reader      \* each tool_result_read call, or its last answer

cacheVars == <<cache, handed, file, reader>>

-----------------------------------------------------------------------------
(* The operations of the cache, as functions from a cache to a cache         *)

EmptyCache == [entries |-> <<>>, retired |-> {}, stores |-> 0]

Shorts(c) == DOMAIN c.entries

IsPrefixOf(p, full) == Len(p) <= Len(full) /\ SubSeq(full, 1, Len(p)) = p

(* time.Since(CreatedAt) > TTL, for an entry that has a TTL.                 *)
Expired(entry) == entry.ttl /\ entry.old

(* Mutant: a retired hash is given out again.                                *)
AbbreviateReusing(c, full) ==
    LET free == {n \in MinAbbrevLen .. HashLen : SubSeq(full, 1, n) \notin Shorts(c)}
    IN  IF free = {} THEN full
        ELSE SubSeq(full, 1, CHOOSE n \in free : \A m \in free : n <= m)

(* The shortest prefix that names no entry and never named an evicted one.   *)
Abbreviate(c, full) ==
    LET free == {n \in MinAbbrevLen .. HashLen :
                    SubSeq(full, 1, n) \notin Shorts(c) \union c.retired}
    IN  IF free = {} THEN full
        ELSE SubSeq(full, 1, CHOOSE n \in free : \A m \in free : n <= m)

Dropped(c, gone) ==
    [c EXCEPT !.entries = [s \in Shorts(c) \ gone |-> c.entries[s]],
              !.retired = @ \union gone]

EvictExpired(c) == Dropped(c, {s \in Shorts(c) : Expired(c.entries[s])})

Entry(full, ttl, backed) == [full |-> full, ttl |-> ttl, old |-> FALSE, file |-> backed]

ShortOf(c, full) == {s \in Shorts(c) : c.entries[s].full = full}

Counted(c) == [c EXCEPT !.stores = (@ + 1) % EvictEvery]

(* Store: the hash of a content already cached, expired or not, or a new     *)
(* entry and, every EvictEvery stores, a sweep.                              *)
StoredCache(c, full, ttl, backed) ==
    LET d == Counted(c)
        s == Abbreviate(c, full)
        added == [d EXCEPT !.entries = [t \in Shorts(d) \union {s} |->
                                          IF t = s THEN Entry(full, ttl, backed) ELSE d.entries[t]]]
    IN  IF ShortOf(c, full) # {} THEN d
        ELSE IF d.stores = 0 THEN EvictExpired(added) ELSE added

StoredShort(c, full) ==
    IF ShortOf(c, full) # {} THEN CHOOSE s \in ShortOf(c, full) : TRUE
    ELSE Abbreviate(c, full)

NoEntry == <<>>

(* resolveLocked: the short hash of the entry that a hash names.             *)
Resolve(c, hash) ==
    LET matches == {s \in Shorts(c) : IsPrefixOf(hash, c.entries[s].full)}
    IN  IF hash \in Shorts(c) THEN hash
        ELSE IF hash \in c.retired \/ Cardinality(matches) # 1 THEN NoEntry
        ELSE CHOOSE s \in matches : TRUE

-----------------------------------------------------------------------------
(* Store by any agent                                                        *)

Tools == DOMAIN ResultsOf \union {FileTool}

Results(t) == IF t = FileTool THEN {FileHash[file]} ELSE ResultsOf[t]

Store(t, full) ==
    /\ cache' = StoredCache(cache, full, t \in MCPTools, t = FileTool)
    /\ handed' = handed \union {<<StoredShort(cache, full), full>>}
    /\ UNCHANGED <<file, reader>>

-----------------------------------------------------------------------------
(* tool_result_read, concurrent with the stores and with other reads         *)

NoHash == <<>>

(* A call at pc.  meant is a history: the content for which Store had handed *)
(* out the hash when the call began.                                         *)
Read(pc, h, meant, got) ==
    [pc |-> pc, hash |-> h, meant |-> meant, got |-> got, file |-> pc = "check", seen |-> 0]

NoRead == Read("idle", NoHash, {}, NoHash)

(* The call goes on with r.                                                  *)
Reading(rd, r) == reader' = [reader EXCEPT ![rd] = r]

Answer(rd, got) == Reading(rd, Read("idle", reader[rd].hash, reader[rd].meant, got))

(* The entry that Get returned: its content, or its file after a check.      *)
Got(rd, h, meant, entry) ==
    Reading(rd, IF entry.file THEN Read("check", h, meant, NoHash)
                ELSE Read("idle", h, meant, entry.full))

Meant(h) == {p[2] : p \in {q \in handed : q[1] = h}}

(* Get under the read lock.                                                  *)
GetFast(rd, h) ==
    /\ reader[rd].pc = "idle"
    /\ LET short == Resolve(cache, h)
       IN  IF short = NoEntry THEN Reading(rd, Read("idle", h, Meant(h), NoHash))
           ELSE IF Expired(cache.entries[short]) THEN Reading(rd, Read("upgrade", h, Meant(h), NoHash))
           ELSE Got(rd, h, Meant(h), cache.entries[short])
    /\ UNCHANGED <<cache, handed, file>>

(* Get again under the write lock.                                           *)
GetSlow(rd) ==
    /\ reader[rd].pc = "upgrade"
    /\ LET short == Resolve(cache, reader[rd].hash)
       IN  IF short = NoEntry THEN Answer(rd, NoHash) /\ UNCHANGED cache
           ELSE IF Expired(cache.entries[short])
                THEN cache' = Dropped(cache, {short}) /\ Answer(rd, NoHash)
                ELSE Got(rd, reader[rd].hash, reader[rd].meant, cache.entries[short]) /\ UNCHANGED cache
    /\ UNCHANGED <<handed, file>>

(* Mutant: the file is not compared with the entry.                          *)
CheckNothing(rd) ==
    /\ reader[rd].pc = "check"
    /\ Reading(rd, [reader[rd] EXCEPT !.pc = "read", !.seen = file])
    /\ UNCHANGED <<cache, handed, file>>

(* CheckCoherence: the hash is resolved again, and the file still has the    *)
(* recorded time and size.                                                   *)
CheckCoherence(rd) ==
    /\ reader[rd].pc = "check"
    /\ LET short == Resolve(cache, reader[rd].hash)
           entry == cache.entries[short]
       IN  IF short = NoEntry THEN Answer(rd, NoHash)
           ELSE IF Expired(entry) \/ (entry.file /\ entry.full # FileHash[file]) THEN Answer(rd, NoHash)
           ELSE Reading(rd, [reader[rd] EXCEPT !.pc = "read", !.seen = file])
    /\ UNCHANGED <<cache, handed, file>>

(* readFromFileBacked reads the file as it is by now.                        *)
ReadFile(rd) ==
    /\ reader[rd].pc = "read"
    /\ Reading(rd, [reader[rd] EXCEPT !.pc = "idle", !.got = FileHash[file]])
    /\ UNCHANGED <<cache, handed, file>>

EditFile ==
    /\ file < EditBound
    /\ file' = file + 1
    /\ UNCHANGED <<cache, handed, reader>>

(* The TTL of an entry passes.                                               *)
Age(short) ==
    /\ cache.entries[short].ttl /\ ~cache.entries[short].old
    /\ cache' = [cache EXCEPT !.entries[short].old = TRUE]
    /\ UNCHANGED <<handed, file, reader>>

(* A new process: its cache is empty and no call is in flight.               *)
Restart ==
    /\ cache' = EmptyCache /\ handed' = {} /\ reader' = [rd \in Readers |-> NoRead]
    /\ UNCHANGED file

-----------------------------------------------------------------------------
CacheInit == cache = EmptyCache /\ handed = {} /\ file = 0 /\ reader = [rd \in Readers |-> NoRead]

(* What the model may ask for: any prefix of a hash that stands for a result.*)
Hashes == {SubSeq(p[2], 1, k) : p \in handed, k \in MinAbbrevLen .. HashLen}

ReadStep(rd) ==
    \/ \E h \in Hashes : GetFast(rd, h)
    \/ GetSlow(rd)
    \/ CheckCoherence(rd)
    \/ ReadFile(rd)

CacheNext ==
    \/ \E t \in Tools : \E full \in Results(t) : Store(t, full)
    \/ \E rd \in Readers : ReadStep(rd)
    \/ EditFile
    \/ \E short \in Shorts(cache) : Age(short)
    \/ Restart

CacheSpec == CacheInit /\ [][CacheNext]_cacheVars

-----------------------------------------------------------------------------
(* A short hash given to the model never comes to mean another content while *)
(* the cache lives, through expiry, sweeps and new entries with the same     *)
(* prefix; and no lookup of it returns another content.                      *)
HashNeverReused ==
    /\ \A p, q \in handed : p[1] = q[1] => p[2] = q[2]
    /\ \A p \in handed : Resolve(cache, p[1]) # NoEntry => cache.entries[Resolve(cache, p[1])].full = p[2]

(* A read by a short hash returns what was cached under it or nothing; for a *)
(* file-backed entry, what the file was at the coherence check, or a later   *)
(* version when it changed after that check.                                 *)
ReadsWhatWasCached ==
    \A rd \in Readers : reader[rd].pc = "idle" /\ reader[rd].got # NoHash =>
        \A full \in reader[rd].meant :
            reader[rd].got = full \/ (reader[rd].file /\ FileHash[reader[rd].seen] = full)

(* A short hash shown to the model keeps its meaning: through expiry,        *)
(* eviction, new entries, file changes and the stores of other agents it     *)
(* names one content.  A read by it returns that content or nothing, except  *)
(* that a file which changes between the coherence check and the read is     *)
(* read as it is then (tool_result_read.go:96-138).                          *)
CacheHonest ==
    /\ HashNeverReused
    /\ ReadsWhatWasCached
=============================================================================
