--------------------------- MODULE SessionStorage ---------------------------
(***************************************************************************)
(* The session storages of src/v3/session: InMemoryStorage, and            *)
(* FileStorage over a path it owns ("path", written to a temporary file    *)
(* that is renamed) or over an injected handle ("handle", truncated and    *)
(* rewritten in place).  A FileStorage keeps every session in memory and   *)
(* writes all of them on every change; its methods hold the mutex for all  *)
(* they do, so each is one action here.  Its process may die in the midst  *)
(* of a write.                                                             *)
(***************************************************************************)
EXTENDS Integers, FiniteSets

CONSTANTS
  Id,
  Data,           \* values of a session
  Json,           \* a value as it comes back from its encoding
  Unencodable,    \* values the encoder refuses
  Settable,       \* what handlers put into a session
  Ttl,            \* of the manager; 0: sessions do not expire
  Kept,           \* the id of the session a storage may hold from the start
  Setups,         \* what to consider together: a backend ("memory", "path",
                  \* "handle"), whether it may be closed, and bounds on the
                  \* time, the writes that fail and the processes that die
  NoEntry,
  Torn            \* a file that does not decode

ASSUME JsonIsStable ==
  /\ Json \in [Data -> Data]
  /\ \A d \in Data : Json[Json[d]] = Json[d]

Entry == [data : Data, expiresAt : Nat]

ASSUME SessionAssumption ==
  /\ "empty" \in Data /\ Settable \subseteq Data /\ Ttl \in Nat
  /\ Kept \in Id /\ NoEntry \notin Id \cup Entry
  /\ Torn \notin [Id -> Entry \cup {NoEntry}]
  /\ \A s \in Setups : s.backend \in {"memory", "path", "handle"}

VARIABLES
  setup,
  sessions,       \* sessionById
  file,           \* what the file decodes to
  up,             \* the process runs
  closed,
  now,
  damaged,        \* the last write of a handle failed half way
  faults, crashes

storageVars == <<setup, sessions, file, up, closed, now, damaged, faults, crashes>>

Nothing == [id \in Id |-> NoEntry]

Persistent == setup.backend # "memory"

(* The two storages disagree on the very instant of expiry.                *)
Expired(entry, time) ==
  /\ entry # NoEntry
  /\ entry.expiresAt # 0
  /\ IF Persistent THEN time >= entry.expiresAt ELSE time > entry.expiresAt

Encodable(snapshot) ==
  \A id \in Id : snapshot[id] # NoEntry => snapshot[id].data \notin Unencodable

Encoded(snapshot) ==
  [id \in Id |-> IF snapshot[id] = NoEntry THEN NoEntry
                 ELSE [snapshot[id] EXCEPT !.data = Json[@]]]

(* A new storage, or one that holds a session already.                     *)
StorageInit ==
  /\ setup \in Setups
  /\ sessions \in {Nothing} \cup
       {[Nothing EXCEPT ![Kept] = [data |-> d, expiresAt |-> IF Ttl > 0 THEN 1 + Ttl ELSE 0]] :
          d \in {Json[v] : v \in Settable \ Unencodable}}
  /\ file = IF Persistent THEN sessions ELSE Nothing
  /\ up = TRUE
  /\ closed = FALSE
  /\ now = 1
  /\ damaged = FALSE
  /\ faults = 0
  /\ crashes = 0

(* What the file may hold when a write was begun and not finished: a       *)
(* rename happens or not; in place, the file may be cut to nothing, hold a *)
(* part, or hold all of it although it was not synced.                     *)
Unfinished(snapshot) ==
  IF ~Encodable(snapshot) THEN {file}
  ELSE IF setup.backend = "path" THEN {file, Encoded(snapshot)}
  ELSE {file, Nothing, Torn, Encoded(snapshot)}

(* flushLocked: ok says what it returns.  The rename is the last thing a   *)
(* path does, so a write that fails there leaves the file.                 *)
FlushLocked(snapshot, ok) ==
  IF ok
  THEN /\ Encodable(snapshot)
       /\ file' = Encoded(snapshot)
       /\ damaged' = FALSE
       /\ UNCHANGED faults
  ELSE IF Encodable(snapshot)
  THEN /\ faults < setup.faults
       /\ faults' = faults + 1
       /\ file' \in (IF setup.backend = "path" THEN {file} ELSE Unfinished(snapshot))
       /\ damaged' = (damaged \/ file' # file)
  ELSE UNCHANGED <<file, damaged, faults>>

Saved(id, data) ==
  [sessions EXCEPT ![id] =
     [data |-> data, expiresAt |-> IF Ttl > 0 THEN now + Ttl ELSE 0]]

Deleted(id) == [sessions EXCEPT ![id] = NoEntry]

Unavailable == Persistent /\ closed
-----------------------------------------------------------------------------
(* Load: answer is the data, "missing" or "failed".  The entry of an       *)
(* expired session is deleted first and stays deleted if the flush fails.  *)
(* A storage in memory deletes it in a second step, Purge.                 *)
Load(id, answer) ==
  /\ UNCHANGED <<setup, up, closed, now, crashes>>
  /\ \/ /\ Unavailable
        /\ answer = "failed"
        /\ UNCHANGED <<sessions, file, damaged, faults>>
     \/ /\ ~Unavailable
        /\ ~(Persistent /\ Expired(sessions[id], now))
        /\ answer = IF sessions[id] = NoEntry \/ Expired(sessions[id], now)
                    THEN "missing" ELSE sessions[id].data
        /\ UNCHANGED <<sessions, file, damaged, faults>>
     \/ /\ ~Unavailable
        /\ Persistent /\ Expired(sessions[id], now)
        /\ sessions' = Deleted(id)
        /\ \E ok \in BOOLEAN :
             /\ FlushLocked(Deleted(id), ok)
             /\ answer = IF ok THEN "missing" ELSE "failed"

(* The second half of Load in memory: the entry may be another by now, and *)
(* is judged by the time read at the start.                                *)
Purge(id, time) ==
  /\ sessions' = IF Expired(sessions[id], time)
                 THEN Deleted(id) ELSE sessions
  /\ UNCHANGED <<setup, file, up, closed, now, damaged, faults, crashes>>

(* mutant: a change that could not be flushed stays in memory.             *)
CommitKeepsChange(changed, ok) ==
  /\ UNCHANGED <<setup, up, closed, now, crashes>>
  /\ IF Unavailable
     THEN ~ok /\ UNCHANGED <<sessions, file, damaged, faults>>
     ELSE IF Persistent
     THEN FlushLocked(changed, ok) /\ sessions' = changed
     ELSE ok /\ sessions' = changed /\ UNCHANGED <<file, damaged, faults>>

(* What Save and Delete share: the change to the map is taken back when it *)
(* can not be flushed.                                                     *)
Commit(changed, ok) ==
  /\ UNCHANGED <<setup, up, closed, now, crashes>>
  /\ IF Unavailable
     THEN ~ok /\ UNCHANGED <<sessions, file, damaged, faults>>
     ELSE IF Persistent
     THEN /\ FlushLocked(changed, ok)
          /\ sessions' = IF ok THEN changed ELSE sessions
     ELSE /\ ok
          /\ sessions' = changed
          /\ UNCHANGED <<file, damaged, faults>>

Save(id, data, ok) == Commit(Saved(id, data), ok)

(* Deleting what is not there succeeds without a flush.                    *)
Delete(id, ok) ==
  IF Persistent /\ ~closed /\ sessions[id] = NoEntry
  THEN ok /\ UNCHANGED storageVars
  ELSE Commit(Deleted(id), ok)
-----------------------------------------------------------------------------
(* cleanupExpired of a storage in memory.                                  *)
CleanupExpired ==
  /\ up /\ ~Persistent /\ ~closed
  /\ \E id \in Id : Expired(sessions[id], now)
  /\ sessions' = [id \in Id |-> IF Expired(sessions[id], now) THEN NoEntry
                                ELSE sessions[id]]
  /\ UNCHANGED <<setup, file, up, closed, now, damaged, faults, crashes>>

(* Close: the cleanup ends, or every later call is refused.                *)
CloseStorage ==
  /\ up /\ setup.closes /\ ~closed
  /\ closed' = TRUE
  /\ UNCHANGED <<setup, sessions, file, up, now, damaged, faults, crashes>>

Tick ==
  /\ now < setup.time
  /\ now' = now + 1
  /\ UNCHANGED <<setup, sessions, file, up, closed, damaged, faults, crashes>>

(* The process dies, maybe while it flushes one of the snapshots.          *)
Crash(snapshots) ==
  /\ up /\ crashes < setup.crashes
  /\ crashes' = crashes + 1
  /\ up' = FALSE
  /\ file' \in {file} \cup (IF Persistent /\ ~closed
                            THEN UNION {Unfinished(s) : s \in snapshots} ELSE {})
  /\ UNCHANGED <<setup, sessions, closed, now, damaged, faults>>

(* NewFileStorageFromPath and NewFileStorageFromFile: a file that does not *)
(* decode refuses to start.                                                *)
Restart ==
  /\ ~up /\ file # Torn
  /\ up' = TRUE
  /\ sessions' = file
  /\ closed' = FALSE
  /\ damaged' = FALSE
  /\ UNCHANGED <<setup, file, now, faults, crashes>>
=============================================================================
