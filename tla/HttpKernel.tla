----------------------------- MODULE HttpKernel -----------------------------
(***************************************************************************)
(* Kernel.ServeHttp of src/v3/http: one request through its session, its   *)
(* events, its handler, writeResponse, the recovery from a panic and the   *)
(* deferred calls; several requests of one client at once, over a session  *)
(* storage.                                                                *)
(*                                                                         *)
(* A response is named by who made it.  The dispatcher turns a listener    *)
(* that fails or panics into an error that the kernel only logs, so a      *)
(* listener either set a response or did not.                              *)
(***************************************************************************)
EXTENDS SessionStorage

CONSTANTS
  Request,
  Drawn,          \* the id generateSessionId draws for a request: random,
                  \* so that no two requests draw the same
  NoCookie

ASSUME NoCookieIsNoId == NoCookie \notin Id

ASSUME DrawnIdsDiffer ==
  /\ Drawn \in [Request -> Id \ {Kept}]
  /\ \A r, other \in Request : Drawn[r] = Drawn[other] => r = other

VARIABLES
  request,        \* the requests
  jar             \* the session cookie of the client

vars == <<storageVars, request, jar>>

(* Requests of setup.wild have listeners and handlers that do everything,   *)
(* the others have a handler that returns a response.                      *)
Wild(r) == r \in setup.wild

(* "handler" is whoever answered first: a listener or the handler.         *)
Maker == {"handler", "exception", "listener", "recovery", "relistener"}
NoResponse == "none"

(* Steps at which the kernel holds the request.                            *)
Serving == {"load", "purge", "fresh", "request", "controller", "handle",
            "error", "response", "persist", "write", "recover", "terminate",
            "scope"}

NewRequest ==
  [ at |-> "idle",
    cookie |-> NoCookie,      \* what the client sent
    since |-> 0,              \* when Load read the clock
    id |-> NoEntry, data |-> "empty", modified |-> FALSE, cleared |-> FALSE,
    response |-> NoResponse,  \* finalResponse
    files |-> {},             \* the makers whose response has an open file
    closes |-> {},            \* those whose file was closed
    closedTwice |-> FALSE,
    heads |-> 0,              \* WriteHeader calls that reached the client
    persisted |-> FALSE,      \* SessionPersisted
    wrote |-> "nothing",      \* to the storage: "saved" or "deleted"
    setCookie |-> "none",     \* of the response at hand
    sentCookie |-> "none",    \* of the response the client got
    streamed |-> FALSE,
    recovering |-> FALSE,
    refused |-> FALSE,        \* the storage refused, or an error handler panicked
    aborted |-> FALSE,        \* a panic left ServeHttp
    terminated |-> 0, scopes |-> 0 ]

Init ==
  /\ StorageInit
  /\ request = [r \in Request |-> NewRequest]
  /\ jar \in {NoCookie} \cup {id \in Id : sessions[id] # NoEntry}

At(r, step) == up /\ request[r].at = step
Become(r, new) == request' = [request EXCEPT ![r] = new]
Closed(q, maker) ==
  IF maker \notin q.files THEN q
  ELSE [q EXCEPT !.closes = @ \cup {maker},
                 !.closedTwice = @ \/ maker \in q.closes]
Answered(q, maker, withFile) ==
  [q EXCEPT !.response = maker,
            !.files = IF withFile THEN @ \cup {maker} ELSE @,
            !.setCookie = "none"]

(* A panic below the recovery is answered by it, one inside it leaves.     *)
Panicked(q) ==
  IF q.recovering THEN [q EXCEPT !.aborted = TRUE, !.at = "terminate"]
  ELSE [q EXCEPT !.recovering = TRUE, !.at = "recover"]
-----------------------------------------------------------------------------
Accept(r) ==
  /\ At(r, "idle") /\ r \in setup.serves
  /\ Become(r, [request[r] EXCEPT !.cookie = jar, !.scopes = 1,
                                  !.at = IF jar = NoCookie THEN "fresh" ELSE "load"])
  /\ UNCHANGED <<storageVars, jar>>

(* Manager.Session.  A storage that fails panics before the recovery is in *)
(* place.                                                                  *)
LoadSession(r) ==
  LET q == request[r] IN
  /\ At(r, "load")
  /\ \E answer \in Data \cup {"missing", "failed"} :
       /\ Load(q.cookie, answer)
       /\ Become(r, CASE answer = "failed" ->
                           [q EXCEPT !.aborted = TRUE, !.refused = TRUE, !.at = "scope"]
                      [] answer = "missing" ->
                           IF ~Persistent /\ sessions[q.cookie] # NoEntry
                           THEN [q EXCEPT !.since = now, !.at = "purge"]
                           ELSE [q EXCEPT !.at = "fresh"]
                      [] OTHER ->
                           [q EXCEPT !.id = q.cookie, !.data = answer, !.at = "request"])
  /\ UNCHANGED jar

PurgeSession(r) ==
  /\ At(r, "purge")
  /\ Purge(request[r].cookie, request[r].since)
  /\ Become(r, [request[r] EXCEPT !.since = 0, !.at = "fresh"])
  /\ UNCHANGED jar

(* Manager.NewSession.                                                     *)
NewSession(r) ==
  /\ At(r, "fresh")
  /\ \E answer \in {"missing", "failed"} :
       /\ Load(Drawn[r], answer)
       /\ Become(r, IF answer = "failed"
                    THEN [request[r] EXCEPT !.aborted = TRUE, !.refused = TRUE,
                                            !.at = "scope"]
                    ELSE [request[r] EXCEPT !.id = Drawn[r], !.at = "request"])
  /\ UNCHANGED jar

(* kernel.request and kernel.controller: a listener may answer.            *)
Listen(r, step, next) ==
  /\ At(r, step)
  /\ \/ Become(r, [request[r] EXCEPT !.at = next])
     \/ /\ Wild(r)
        /\ \E withFile \in BOOLEAN :
             Become(r, [Answered(request[r], "handler", withFile) EXCEPT !.at = "response"])
  /\ UNCHANGED <<storageVars, jar>>

OnRequest(r) == Listen(r, "request", "controller")
OnController(r) == Listen(r, "controller", "handle")

(* Session.Set, Session.Delete, Session.Clear, in the handler.             *)
Set(q, d) == [q EXCEPT !.data = d, !.modified = TRUE, !.cleared = FALSE]
Clear(q) == [q EXCEPT !.data = "empty", !.modified = TRUE, !.cleared = TRUE]
DeleteKey(q) == IF q.data = "empty" THEN q ELSE [q EXCEPT !.data = "empty", !.modified = TRUE]
Sessions(q) == {q, Clear(q), DeleteKey(q)} \cup {Set(q, d) : d \in Settable}

(* The handler, with its middlewares or in place of a route that did not   *)
(* match.  It may write to the client itself.  Without a response there is *)
(* no kernel.response.                                                     *)
Handle(r) ==
  /\ At(r, "handle")
  /\ \E q \in Sessions(request[r]), streams, withFile \in BOOLEAN,
        result \in {"response", "nothing", "error", "both", "panic"} :
       /\ Wild(r) \/ (~streams /\ ~withFile /\ result = "response")
       /\ withFile => result \in {"response", "both"}
       /\ LET s == IF streams THEN [q EXCEPT !.streamed = TRUE, !.heads = 1] ELSE q IN
          Become(r, CASE result = "response" ->
                           [Answered(s, "handler", withFile) EXCEPT !.at = "response"]
                      [] result = "nothing" -> [s EXCEPT !.at = "persist"]
                      [] result = "error" -> [s EXCEPT !.at = "error"]
                      [] result = "both" ->
                           [Answered(s, "handler", withFile) EXCEPT !.at = "error"]
                      [] result = "panic" -> Panicked(s))
  /\ UNCHANGED <<storageVars, jar>>

(* kernel.exception, the error handler and the default answer; what the    *)
(* handler returned with its error is discarded.                           *)
OnException(r) ==
  LET q == request[r] IN
  /\ At(r, "error")
  /\ \/ \E withFile \in BOOLEAN :
          Become(r, [Answered(Closed(q, q.response), "exception", withFile)
                       EXCEPT !.at = "response"])
     \/ Become(r, Panicked([q EXCEPT !.refused = TRUE]))
  /\ UNCHANGED <<storageVars, jar>>

(* kernel.response: a listener may put another response in the place of    *)
(* the one at hand, which is then closed, or none.                         *)
OnResponse(r) ==
  LET q == request[r]
      maker == IF q.recovering THEN "relistener" ELSE "listener"
      without == Closed(q, q.response)
  IN
  /\ At(r, "response")
  /\ \/ Become(r, [q EXCEPT !.at = "persist"])
     \/ /\ Wild(r)
        /\ \/ \E withFile \in BOOLEAN :
                Become(r, [Answered(without, maker, withFile) EXCEPT !.at = "persist"])
           \/ Become(r, [without EXCEPT !.response = NoResponse, !.setCookie = "none",
                                        !.at = "persist"])
  /\ UNCHANGED <<storageVars, jar>>

(* mutant: a cleared session is deleted and its cookie stays.              *)
PersistKeepsCookie(r) ==
  LET q == request[r]
      stored(what, cookie) ==
        [q EXCEPT !.persisted = TRUE, !.wrote = what, !.setCookie = cookie, !.at = "write"]
      failed == Panicked([q EXCEPT !.refused = TRUE])
  IN
  /\ At(r, "persist")
  /\ \/ /\ ~q.persisted /\ q.cleared
        /\ \E ok \in BOOLEAN :
             /\ Delete(q.id, ok)
             /\ Become(r, IF ok THEN stored("deleted", "none") ELSE failed)
     \/ /\ ~q.persisted /\ ~q.cleared /\ q.modified
        /\ \E ok \in BOOLEAN :
             /\ Save(q.id, q.data, ok)
             /\ Become(r, IF ok THEN stored("saved", "id") ELSE failed)
     \/ /\ q.persisted \/ (~q.cleared /\ ~q.modified)
        /\ Become(r, [q EXCEPT !.persisted = TRUE, !.at = "write"])
        /\ UNCHANGED storageVars
  /\ UNCHANGED jar

(* writeResponse, first half: the session, at most once for a request.     *)
Persist(r) ==
  LET q == request[r]
      stored(what, cookie) ==
        [q EXCEPT !.persisted = TRUE, !.wrote = what, !.setCookie = cookie, !.at = "write"]
      failed == Panicked([q EXCEPT !.refused = TRUE])
  IN
  /\ At(r, "persist")
  /\ \/ /\ ~q.persisted /\ q.cleared
        /\ \E ok \in BOOLEAN :
             /\ Delete(q.id, ok)
             /\ Become(r, IF ok THEN stored("deleted", "expire") ELSE failed)
     \/ /\ ~q.persisted /\ ~q.cleared /\ q.modified
        /\ \E ok \in BOOLEAN :
             /\ Save(q.id, q.data, ok)
             /\ Become(r, IF ok THEN stored("saved", "id") ELSE failed)
     \/ /\ q.persisted \/ (~q.cleared /\ ~q.modified)
        /\ Become(r, [q EXCEPT !.persisted = TRUE, !.at = "write"])
        /\ UNCHANGED storageVars
  /\ UNCHANGED jar

(* mutant: the response is written over a stream.                          *)
WriteOverStream(r) ==
  LET q == request[r]
      without == Closed(q, q.response)
      sent == [without EXCEPT !.heads = @ + 1, !.sentCookie = q.setCookie]
  IN
  /\ At(r, "write")
  /\ \/ Become(r, [sent EXCEPT !.at = "terminate"])
     \/ Wild(r) /\ q.response # NoResponse /\ Become(r, Panicked(sent))
  /\ UNCHANGED <<storageVars, jar>>

(* mutant: what is not written over a stream is not closed either.         *)
WriteLeavesOpen(r) ==
  LET q == request[r]
      without == Closed(q, q.response)
      sent == [without EXCEPT !.heads = @ + 1, !.sentCookie = q.setCookie]
  IN
  /\ At(r, "write")
  /\ IF q.heads > 0 THEN Become(r, [q EXCEPT !.at = "terminate"])
     ELSE \/ Become(r, [sent EXCEPT !.at = "terminate"])
          \/ Wild(r) /\ q.response # NoResponse /\ Become(r, Panicked(sent))
  /\ UNCHANGED <<storageVars, jar>>

(* writeResponse, second half: nothing over what was committed already, or *)
(* the header and the body, which is closed however the write ends.        *)
Write(r) ==
  LET q == request[r]
      without == Closed(q, q.response)
      sent == [without EXCEPT !.heads = @ + 1, !.sentCookie = q.setCookie]
  IN
  /\ At(r, "write")
  /\ IF q.heads > 0
     THEN /\ Become(r, [without EXCEPT !.at = "terminate"])
          /\ UNCHANGED jar
     ELSE /\ \/ Become(r, [sent EXCEPT !.at = "terminate"])
             \/ Wild(r) /\ q.response # NoResponse /\ Become(r, Panicked(sent))
          /\ jar' = CASE q.setCookie = "id" -> q.id
                      [] q.setCookie = "expire" -> NoCookie
                      [] OTHER -> jar
  /\ UNCHANGED storageVars

(* The deferred recovery, up to its kernel.response.                       *)
Recover(r) ==
  /\ At(r, "recover")
  /\ \/ \E withFile \in BOOLEAN :
          Become(r, [Answered(request[r], "recovery", withFile) EXCEPT !.at = "response"])
     \/ Become(r, Panicked([request[r] EXCEPT !.refused = TRUE]))
  /\ UNCHANGED <<storageVars, jar>>

(* The other deferred calls: kernel.terminate, then the scope; nothing of  *)
(* the request is used after that.                                         *)
Finish(r) ==
  LET q == request[r] IN
  /\ At(r, "terminate") \/ At(r, "scope")
  /\ Become(r, [NewRequest EXCEPT
       !.at = "done", !.id = q.id, !.files = q.files, !.closes = q.closes,
       !.closedTwice = q.closedTwice, !.heads = q.heads, !.wrote = q.wrote,
       !.sentCookie = q.sentCookie, !.streamed = q.streamed, !.refused = q.refused,
       !.aborted = q.aborted, !.scopes = q.scopes - 1,
       !.terminated = IF q.at = "terminate" THEN q.terminated + 1 ELSE q.terminated])
  /\ UNCHANGED <<storageVars, jar>>

Step(r) ==
  \/ Accept(r) \/ LoadSession(r) \/ PurgeSession(r) \/ NewSession(r)
  \/ OnRequest(r) \/ OnController(r) \/ Handle(r) \/ OnException(r)
  \/ OnResponse(r) \/ Persist(r) \/ Write(r) \/ Recover(r)
  \/ Finish(r)
-----------------------------------------------------------------------------
(* What a request may be flushing when the process dies.                   *)
Snapshots(q) ==
  CASE q.at = "persist" /\ ~q.persisted /\ q.cleared -> {Deleted(q.id)}
    [] q.at = "persist" /\ ~q.persisted /\ q.modified -> {Saved(q.id, q.data)}
    [] q.at = "load" /\ Expired(sessions[q.cookie], now) -> {Deleted(q.cookie)}
    [] OTHER -> {}

Flushing == UNION {Snapshots(request[r]) : r \in Request}

Die ==
  /\ Crash(Flushing)
  /\ request' = [r \in Request |-> IF request[r].at \in Serving
                                   THEN [NewRequest EXCEPT !.at = "dead", !.wrote = request[r].wrote]
                                   ELSE request[r]]
  /\ UNCHANGED jar

Around ==
  /\ CleanupExpired \/ CloseStorage \/ Tick \/ Restart
  /\ UNCHANGED <<request, jar>>

Next == (\E r \in Request : Step(r)) \/ Die \/ Around

Spec == Init /\ [][Next]_vars
-----------------------------------------------------------------------------
(* Every session storage, with the kernel that writes to it, is the store  *)
(* of SessionStore: a session changes only by the one write of a request   *)
(* that was acknowledged, a refused write is not seen by anyone, and a     *)
(* process that dies takes at most its unfinished write with it.  Only a   *)
(* storage in memory, and a handle while or after a write fails half way,  *)
(* lose more.                                                              *)
Live(snapshot) ==
  [id \in Id |-> IF Expired(snapshot[id], now) THEN NoEntry ELSE snapshot[id]]

Store == INSTANCE SessionStore WITH
  Caller <- Request,
  store <- Live(IF up THEN IF Persistent THEN Encoded(sessions) ELSE sessions
                ELSE IF file = Torn THEN Nothing ELSE file),
  acked <- {r \in Request : request[r].wrote # "nothing"},
  running <- up,
  fragile <- ~Persistent \/ damaged \/ (setup.backend = "handle" /\ Flushing # {})

ImplementsStore == Store!Spec

(* No file behind a response is closed twice, and unless the storage or an *)
(* error handler failed none is left open when the request ends.           *)
BodiesClosedOnce ==
  \A r \in Request : LET q == request[r] IN
    ~q.closedTwice /\ (q.at = "done" /\ ~q.refused => q.closes = q.files)

(* However a request ends, the file behind a response that is given up is  *)
(* closed: "so a file-backed body (an open *os.File from                   *)
(* FileResponse/ServeReader) is not leaked" (kernel.go).                   *)
NoFileLeaks ==
  \A r \in Request : LET q == request[r] IN q.at = "done" => q.closes = q.files

(* The client gets one header at most, and one for certain unless the      *)
(* storage or an error handler failed; a request that has a session        *)
(* terminates once, and every scope is closed.                             *)
OneAnswer ==
  \A r \in Request : LET q == request[r] IN
    /\ q.heads <= 1
    /\ q.at = "done" =>
         /\ q.heads = 1 \/ q.refused
         /\ q.terminated = IF q.id = NoEntry THEN 0 ELSE 1
         /\ q.scopes = 0

(* The cookie a client is sent tells what became of its session: the id if *)
(* it was saved, an expired one if it was deleted, none if neither.  (A    *)
(* handler that streams has sent its header before.)                       *)
CookieTellsTheStore ==
  \A r \in Request : LET q == request[r] IN
    q.at = "done" /\ q.heads = 1 /\ ~q.streamed =>
      q.sentCookie = CASE q.wrote = "saved" -> "id"
                       [] q.wrote = "deleted" -> "expire"
                       [] OTHER -> "none"
=============================================================================
