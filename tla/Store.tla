------------------------------- MODULE Store -------------------------------
(***************************************************************************)
(* The store, src/src/store.c: one Berkeley DB B-tree opened without an    *)
(* environment, so without a log.  What the process reads and writes is    *)
(* the cache; the file follows on sync, on close, and whenever the library *)
(* evicts a page.  A process that ends without closing loses the cache.    *)
(***************************************************************************)
EXTENDS Integers, Sequences

CONSTANTS
    ReadRoom,   \* the longest value the buffer of zob_store_read takes
    IoMayFail   \* TRUE if the system may refuse the library its file (a full disk)

ASSUME StoreAssumption == ReadRoom \in Nat /\ IoMayFail \in BOOLEAN

VARIABLES
    cache,      \* the map the open handle shows
    disk,       \* the map in the file
    open        \* p_dbh is an open handle

storeVars == <<cache, disk, open>>

Empty == [k \in {} |-> {}]

IsMap(f, K, V) ==
    /\ f = [k \in DOMAIN f |-> f[k]]
    /\ DOMAIN f \subseteq K
    /\ \A k \in DOMAIN f : f[k] \in V

StoreTypeOK(K, V) ==
    /\ IsMap(cache, K, V)
    /\ IsMap(disk, K, V)
    /\ open \in BOOLEAN

Bind(f, k, v) == [x \in DOMAIN f \cup {k} |-> IF x = k THEN v ELSE f[x]]

Unbind(f, k) == [x \in DOMAIN f \ {k} |-> f[x]]

\* f with what g holds, or does not hold, of k.
CopyKey(f, g, k) == IF k \in DOMAIN g THEN Bind(f, k, g[k]) ELSE Unbind(f, k)

StoreInit == cache = Empty /\ disk = Empty /\ open = FALSE

-----------------------------------------------------------------------------
(* An error of the system is a positive number, and CHECK_BDB_INT only     *)
(* looks at negative ones: the call has done nothing and nobody notices,   *)
(* nor that no call can do anything on a handle that could not be opened.  *)

StoreRefuses == (IoMayFail \/ ~open) /\ UNCHANGED storeVars

StoreConnect ==
    /\ ~open
    /\ \/ open' = TRUE /\ cache' = disk
       \/ IoMayFail /\ UNCHANGED <<open, cache>>
    /\ UNCHANGED disk

\* DB->put with or without DB_NOOVERWRITE: put says how it ends.
KeyExists(k, overwrite) == ~overwrite /\ k \in DOMAIN cache

StorePut(k, v) ==
    /\ open
    /\ cache' = Bind(cache, k, v)
    /\ UNCHANGED <<disk, open>>

\* Mutant: no sync.
StoreNoSync == UNCHANGED storeVars

\* DB->sync, whose result zob_store_write ignores.
StoreSync ==
    \/ open /\ disk' = cache /\ UNCHANGED <<cache, open>>
    \/ StoreRefuses

\* DB->get in a buffer of the caller: longer values are an error, which exits.
\* Mutant: a value as long as the buffer is refused.
FitsReadStrictly(k) == Len(cache[k]) < ReadRoom

FitsRead(k) == Len(cache[k]) <= ReadRoom

\* Mutant: deleting one key empties the store.
StoreDeleteAll(k) ==
    /\ open /\ k \in DOMAIN cache
    /\ cache' = Empty
    /\ UNCHANGED <<disk, open>>

\* DB->del, not followed by a sync.
StoreDelete(k) ==
    /\ open
    /\ cache' = Unbind(cache, k)
    /\ UNCHANGED <<disk, open>>

\* DB->close flushes, and its result is ignored too.
StoreClose ==
    /\ IF open THEN disk' = cache \/ (IoMayFail /\ UNCHANGED disk) ELSE UNCHANGED disk
    /\ cache' = Empty
    /\ open' = FALSE

\* The process is gone without DB->close.
StoreLost ==
    /\ cache' = Empty
    /\ open' = FALSE
    /\ UNCHANGED disk

\* The library evicts a dirty page on its own.
WriteBack ==
    /\ open
    /\ \E k \in DOMAIN cache \cup DOMAIN disk : disk' = CopyKey(disk, cache, k)
    /\ UNCHANGED <<cache, open>>

-----------------------------------------------------------------------------
\* The file holds what the cache holds, for every key of the cache but those in lag.
DiskHolds(lag) ==
    \A k \in DOMAIN cache \ lag : k \in DOMAIN disk /\ disk[k] = cache[k]
=============================================================================
