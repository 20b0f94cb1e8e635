--------------------------- MODULE HttpKernelProofs ---------------------------
(* What the kernel keeps of every request, for any requests, data and      *)
(* storages.                                                               *)
EXTENDS HttpKernel, TLAPS

USE SessionAssumption, JsonIsStable, NoCookieIsNoId, DrawnIdsDiffer

(* Steps at which nothing has answered yet.                                *)
Asking == {"idle", "load", "purge", "fresh", "request", "controller", "handle"}

Place == Serving \cup {"idle", "done", "dead"}

RequestRecord ==
  [ at : Place,
    cookie : Id \cup {NoCookie}, since : Nat,
    id : Id \cup {NoEntry}, data : Data, modified : BOOLEAN, cleared : BOOLEAN,
    response : Maker \cup {NoResponse},
    files : SUBSET Maker, closes : SUBSET Maker, closedTwice : BOOLEAN,
    heads : 0 .. 1,
    persisted : BOOLEAN,
    wrote : {"nothing", "saved", "deleted"},
    setCookie : {"none", "id", "expire"}, sentCookie : {"none", "id", "expire"},
    streamed : BOOLEAN, recovering : BOOLEAN, refused : BOOLEAN, aborted : BOOLEAN,
    terminated : 0 .. 1, scopes : 0 .. 1 ]

(* Who may have answered by now: each of the makers answers once.          *)
Before(q) ==
  CASE q.at \in Asking -> {}
    [] q.at = "error" -> {"handler"}
    [] q.at = "response" /\ ~q.recovering -> {"handler", "exception"}
    [] q.at = "response" /\ q.recovering -> {"handler", "exception", "listener", "recovery"}
    [] q.at \in {"persist", "write"} /\ ~q.recovering -> {"handler", "exception", "listener"}
    [] q.at = "recover" -> {"handler", "exception", "listener"}
    [] OTHER -> Maker

(* The response at hand is not closed, and all that were given up are.     *)
KeepsFiles(q) ==
  /\ ~q.closedTwice /\ q.closes \subseteq q.files /\ q.files \subseteq Before(q)
  /\ q.at \in Asking => q.response = NoResponse /\ ~q.recovering
  /\ q.at = "error" => q.response \in {NoResponse, "handler"} /\ ~q.recovering
  /\ q.at = "response" =>
       IF q.recovering THEN q.response = "recovery" ELSE q.response \in {"handler", "exception"}
  /\ q.at = "recover" => q.recovering
  /\ q.at \in {"error", "response", "persist", "write"} =>
       q.response \notin q.closes /\ (q.files \ q.closes \subseteq {q.response} \/ q.refused)
  /\ q.at \in {"recover", "terminate", "scope", "done"} => q.files = q.closes \/ q.refused

(* One header, one terminate for who has a session, and one scope.         *)
Ends(q) ==
  /\ q.at \in Asking => q.heads = 0
  /\ q.at \in {"terminate", "scope", "done"} => q.heads = 1 \/ q.refused
  /\ q.at \in {"idle", "load", "purge", "fresh", "scope"} => q.id = NoEntry
  /\ q.at \in Serving \ {"load", "purge", "fresh", "scope"} => q.id \in Id
  /\ q.at \in {"load", "purge"} => q.cookie \in Id
  /\ q.at \in Serving => q.scopes = 1
  /\ q.at \in Serving \cup {"idle"} => q.terminated = 0
  /\ q.at = "done" => q.scopes = 0 /\ q.terminated = IF q.id = NoEntry THEN 0 ELSE 1

Told(q) == CASE q.wrote = "saved" -> "id" [] q.wrote = "deleted" -> "expire" [] OTHER -> "none"

(* The storage is written once, before the header, which tells of it.      *)
Tells(q) ==
  /\ q.at \in Serving \cup {"idle"} => (q.persisted \/ q.wrote = "nothing")
  /\ q.at \in Asking \cup {"error", "response", "persist", "recover"} /\ q.heads = 0 =>
       ~q.persisted /\ q.setCookie = "none"
  /\ q.at = "write" => q.persisted /\ (q.heads = 0 => q.setCookie = Told(q))
  /\ q.at # "dead" /\ q.heads = 1 /\ ~q.streamed =>
       (q.persisted \/ q.at = "done") /\ q.sentCookie = Told(q)

Sound(q) == q \in RequestRecord /\ KeepsFiles(q) /\ Ends(q) /\ Tells(q)

(* Of a request between its session and its header.                        *)
Underway(q) ==
  /\ q \in RequestRecord /\ q.id \in Id /\ q.scopes = 1 /\ q.terminated = 0
  /\ ~q.closedTwice /\ q.closes \subseteq q.files
  /\ q.persisted \/ q.wrote = "nothing"
  /\ q.heads = 0 => ~q.persisted /\ q.setCookie = "none"
  /\ q.heads = 1 /\ ~q.streamed => q.persisted /\ q.sentCookie = Told(q)

Inv ==
  /\ now \in Nat /\ jar \in Id \cup {NoCookie}
  /\ DOMAIN request = Request
  /\ \A r \in Request : Sound(request[r])
-----------------------------------------------------------------------------
LEMMA BecomeKeeps ==
  ASSUME Inv, NEW r \in Request, NEW new, Sound(new), Become(r, new), UNCHANGED now, jar' \in Id \cup {NoCookie}
  PROVE  Inv'
BY DEF Inv, Become

LEMMA NewRequestSound == Sound(NewRequest)
BY DEF Sound, RequestRecord, Place, KeepsFiles, Ends, Tells, Before, Told, NewRequest, NoResponse, Maker,
       Asking, Serving

(* What the kernel does to a request, as one change of its record.         *)
LEMMA ClosedIs ==
  ASSUME NEW q \in RequestRecord, NEW m, m \notin q.closes, q.closes \subseteq q.files
  PROVE  Closed(q, m) = [q EXCEPT !.closes = q.closes \cup ({m} \cap q.files)]
<1>1. CASE m \in q.files
  <2>1. {m} \cap q.files = {m}
    BY <1>1
  <2>2. Closed(q, m) = [q EXCEPT !.closes = q.closes \cup {m}, !.closedTwice = q.closedTwice]
    BY <1>1 DEF Closed, RequestRecord
  <2> QED BY <2>1, <2>2 DEF RequestRecord
<1>2. CASE m \notin q.files
  <2>1. q.closes \cup ({m} \cap q.files) = q.closes
    BY <1>2
  <2> QED BY <1>2, <2>1 DEF Closed, RequestRecord
<1> QED BY <1>1, <1>2

LEMMA SoundUnderway ==
  ASSUME NEW q, Sound(q), q.at \in {"request", "controller", "handle", "error", "response", "persist", "recover"}
  PROVE  Underway(q)
BY DEF Sound, KeepsFiles, Ends, Tells, Underway, Asking, Serving

(* Panics before the header, and after it.                                 *)
LEMMA PanickedSound ==
  ASSUME NEW q, Underway(q),
         ~q.recovering => q.files \subseteq {"handler", "exception", "listener"},
         q.files = q.closes \/ q.refused,
         q.recovering => q.heads = 1 \/ q.refused
  PROVE  Sound(Panicked(q))
<1>0. q \in RequestRecord
  BY DEF Underway
<1>1. CASE q.recovering
  <2> DEFINE new == [q EXCEPT !.aborted = TRUE, !.at = "terminate"]
  <2>1. new \in RequestRecord
    <3>1. "terminate" \in Place
      BY DEF Place, Serving
    <3> QED BY <1>0, <3>1 DEF RequestRecord
  <2>2. KeepsFiles(new)
    BY <1>0 DEF Underway, RequestRecord, KeepsFiles, Before, Asking
  <2>3. Ends(new)
    BY <1>0, <1>1 DEF Underway, RequestRecord, Ends, Asking, Serving
  <2>4. Tells(new)
    BY <1>0 DEF Underway, RequestRecord, Tells, Told, Asking, Serving
  <2> QED BY <1>1, <2>1, <2>2, <2>3, <2>4 DEF Sound, Panicked
<1>2. CASE ~q.recovering
  <2> DEFINE new == [q EXCEPT !.recovering = TRUE, !.at = "recover"]
  <2>1. new \in RequestRecord
    <3>1. "recover" \in Place
      BY DEF Place, Serving
    <3> QED BY <1>0, <3>1 DEF RequestRecord
  <2>2. KeepsFiles(new)
    BY <1>0, <1>2 DEF Underway, RequestRecord, KeepsFiles, Before, Asking
  <2>3. Ends(new)
    BY <1>0 DEF Underway, RequestRecord, Ends, Asking, Serving
  <2>4. Tells(new)
    BY <1>0 DEF Underway, RequestRecord, Tells, Told, Asking, Serving
  <2> QED BY <1>2, <2>1, <2>2, <2>3, <2>4 DEF Sound, Panicked
<1> QED BY <1>1, <1>2
-----------------------------------------------------------------------------
LEMMA AcceptKeeps ==
  ASSUME Inv, NEW r \in Request, Accept(r)
  PROVE  Inv'
<1> DEFINE q == request[r]
           step == IF jar = NoCookie THEN "fresh" ELSE "load"
           new == [q EXCEPT !.cookie = jar, !.scopes = 1, !.at = step]
<1>1. /\ Sound(q) /\ q.at = "idle" /\ jar \in Id \cup {NoCookie}
      /\ Become(r, new) /\ UNCHANGED <<now, jar>>
  BY DEF Accept, At, Inv, storageVars
<1>2. step \in {"fresh", "load"} /\ (step = "load" => jar \in Id)
  BY <1>1
<1> HIDE DEF q, step
<1>3. Sound(new)
  <2>0. q \in RequestRecord
    BY <1>1 DEF Sound
  <2>1. new \in RequestRecord
    <3>1. step \in Place /\ 1 \in 0 .. 1
      BY <1>2 DEF Place, Serving
    <3> QED BY <1>1, <3>1, <2>0 DEF RequestRecord
  <2>2. KeepsFiles(new)
    BY <1>1, <1>2, <2>0 DEF Sound, RequestRecord, KeepsFiles, Before, Asking
  <2>3. Ends(new)
    BY <1>1, <1>2, <2>0 DEF Sound, RequestRecord, Ends, Asking, Serving
  <2>4. Tells(new)
    BY <1>1, <1>2, <2>0 DEF Sound, RequestRecord, Tells, Told, Asking, Serving
  <2> QED BY <2>1, <2>2, <2>3, <2>4 DEF Sound
<1> QED BY <1>1, <1>3, BecomeKeeps

LEMMA LoadSessionKeeps ==
  ASSUME Inv, NEW r \in Request, LoadSession(r)
  PROVE  Inv'
<1> DEFINE q == request[r]
<1>1. /\ Sound(q) /\ q.at = "load" /\ jar \in Id \cup {NoCookie} /\ now \in Nat
      /\ UNCHANGED <<now, jar>>
      /\ \/ Become(r, [q EXCEPT !.aborted = TRUE, !.refused = TRUE, !.at = "scope"])
         \/ Become(r, [q EXCEPT !.since = now, !.at = "purge"])
         \/ Become(r, [q EXCEPT !.at = "fresh"])
         \/ \E answer \in Data :
              Become(r, [q EXCEPT !.id = q.cookie, !.data = answer, !.at = "request"])
  BY DEF LoadSession, Load, At, Inv
<1> HIDE DEF q
<1>2. q \in RequestRecord
  BY <1>1 DEF Sound
<1>3. CASE Become(r, [q EXCEPT !.aborted = TRUE, !.refused = TRUE, !.at = "scope"])
  <2> DEFINE new == [q EXCEPT !.aborted = TRUE, !.refused = TRUE, !.at = "scope"]
  <2>1. new \in RequestRecord
    <3>1. "scope" \in Place
      BY DEF Place, Serving
    <3> QED BY <1>2, <3>1 DEF RequestRecord
  <2>2. KeepsFiles(new)
    BY <1>1, <1>2 DEF Sound, RequestRecord, KeepsFiles, Before, Asking
  <2>3. Ends(new)
    BY <1>1, <1>2 DEF Sound, RequestRecord, Ends, Asking, Serving
  <2>4. Tells(new)
    BY <1>1, <1>2 DEF Sound, RequestRecord, Tells, Ends, Told, Asking, Serving
  <2>5. Sound(new)
    BY <2>1, <2>2, <2>3, <2>4 DEF Sound
  <2> QED BY <1>1, <1>3, <2>5, BecomeKeeps
<1>4. ASSUME NEW since \in Nat, NEW place \in {"purge", "fresh"},
             Become(r, [q EXCEPT !.since = since, !.at = place])
      PROVE  Inv'
  <2> DEFINE new == [q EXCEPT !.since = since, !.at = place]
  <2>1. new \in RequestRecord
    <3>1. place \in Place
      BY DEF Place, Serving
    <3> QED BY <1>2, <3>1 DEF RequestRecord
  <2>2. KeepsFiles(new)
    BY <1>1, <1>2 DEF Sound, RequestRecord, KeepsFiles, Before, Asking
  <2>3. Ends(new)
    BY <1>1, <1>2 DEF Sound, RequestRecord, Ends, Asking, Serving
  <2>4. Tells(new)
    BY <1>1, <1>2 DEF Sound, RequestRecord, Tells, Told, Asking, Serving
  <2>5. Sound(new)
    BY <2>1, <2>2, <2>3, <2>4 DEF Sound
  <2> QED BY <1>1, <1>4, <2>5, BecomeKeeps
<1>5. CASE Become(r, [q EXCEPT !.at = "fresh"])
  <2>1. [q EXCEPT !.at = "fresh"] = [q EXCEPT !.since = q.since, !.at = "fresh"] /\ q.since \in Nat
    BY <1>2 DEF RequestRecord
  <2> QED BY <1>4, <1>5, <2>1
<1>6. ASSUME NEW answer \in Data,
             Become(r, [q EXCEPT !.id = q.cookie, !.data = answer, !.at = "request"])
      PROVE  Inv'
  <2> DEFINE new == [q EXCEPT !.id = q.cookie, !.data = answer, !.at = "request"]
  <2>0. q.cookie \in Id
    BY <1>1 DEF Sound, Ends
  <2>1. new \in RequestRecord
    <3>1. "request" \in Place
      BY DEF Place, Serving
    <3> QED BY <1>2, <2>0, <3>1 DEF RequestRecord
  <2>2. KeepsFiles(new)
    BY <1>1, <1>2 DEF Sound, RequestRecord, KeepsFiles, Before, Asking
  <2>3. Ends(new)
    BY <1>1, <1>2, <2>0 DEF Sound, RequestRecord, Ends, Asking, Serving
  <2>4. Tells(new)
    BY <1>1, <1>2 DEF Sound, RequestRecord, Tells, Told, Asking, Serving
  <2>5. Sound(new)
    BY <2>1, <2>2, <2>3, <2>4 DEF Sound
  <2> QED BY <1>1, <1>6, <2>5, BecomeKeeps
<1> QED BY <1>1, <1>3, <1>4, <1>5, <1>6

LEMMA FreshKeeps ==
  ASSUME Inv, NEW r \in Request, PurgeSession(r) \/ NewSession(r)
  PROVE  Inv'
<1> DEFINE q == request[r]
<1>1. /\ Sound(q) /\ jar \in Id \cup {NoCookie} /\ Drawn[r] \in Id
      /\ UNCHANGED <<now, jar>>
      /\ \/ q.at = "purge" /\ Become(r, [q EXCEPT !.since = 0, !.at = "fresh"])
         \/ /\ q.at = "fresh"
            /\ Become(r, [q EXCEPT !.aborted = TRUE, !.refused = TRUE, !.at = "scope"])
         \/ q.at = "fresh" /\ Become(r, [q EXCEPT !.id = Drawn[r], !.at = "request"])
  BY DEF PurgeSession, NewSession, Load, Purge, At, Inv
<1> HIDE DEF q
<1>2. q \in RequestRecord
  BY <1>1 DEF Sound
<1>3. CASE q.at = "purge" /\ Become(r, [q EXCEPT !.since = 0, !.at = "fresh"])
  <2> DEFINE new == [q EXCEPT !.since = 0, !.at = "fresh"]
  <2>1. new \in RequestRecord
    <3>1. "fresh" \in Place
      BY DEF Place, Serving
    <3> QED BY <1>2, <3>1 DEF RequestRecord
  <2>2. KeepsFiles(new)
    BY <1>1, <1>2, <1>3 DEF Sound, RequestRecord, KeepsFiles, Before, Asking
  <2>3. Ends(new)
    BY <1>1, <1>2, <1>3 DEF Sound, RequestRecord, Ends, Asking, Serving
  <2>4. Tells(new)
    BY <1>1, <1>2, <1>3 DEF Sound, RequestRecord, Tells, Told, Asking, Serving
  <2>5. Sound(new)
    BY <2>1, <2>2, <2>3, <2>4 DEF Sound
  <2> QED BY <1>1, <1>3, <2>5, BecomeKeeps
<1>4. CASE q.at = "fresh" /\ Become(r, [q EXCEPT !.aborted = TRUE, !.refused = TRUE, !.at = "scope"])
  <2> DEFINE new == [q EXCEPT !.aborted = TRUE, !.refused = TRUE, !.at = "scope"]
  <2>1. new \in RequestRecord
    <3>1. "scope" \in Place
      BY DEF Place, Serving
    <3> QED BY <1>2, <3>1 DEF RequestRecord
  <2>2. KeepsFiles(new)
    BY <1>1, <1>2, <1>4 DEF Sound, RequestRecord, KeepsFiles, Before, Asking
  <2>3. Ends(new)
    BY <1>1, <1>2, <1>4 DEF Sound, RequestRecord, Ends, Asking, Serving
  <2>4. Tells(new)
    BY <1>1, <1>2, <1>4 DEF Sound, RequestRecord, Tells, Ends, Told, Asking, Serving
  <2>5. Sound(new)
    BY <2>1, <2>2, <2>3, <2>4 DEF Sound
  <2> QED BY <1>1, <1>4, <2>5, BecomeKeeps
<1>5. CASE q.at = "fresh" /\ Become(r, [q EXCEPT !.id = Drawn[r], !.at = "request"])
  <2> DEFINE new == [q EXCEPT !.id = Drawn[r], !.at = "request"]
  <2>1. new \in RequestRecord
    <3>1. "request" \in Place
      BY DEF Place, Serving
    <3> QED BY <1>1, <1>2, <3>1 DEF RequestRecord
  <2>2. KeepsFiles(new)
    BY <1>1, <1>2, <1>5 DEF Sound, RequestRecord, KeepsFiles, Before, Asking
  <2>3. Ends(new)
    BY <1>1, <1>2, <1>5 DEF Sound, RequestRecord, Ends, Asking, Serving
  <2>4. Tells(new)
    BY <1>1, <1>2, <1>5 DEF Sound, RequestRecord, Tells, Told, Asking, Serving
  <2>5. Sound(new)
    BY <2>1, <2>2, <2>3, <2>4 DEF Sound
  <2> QED BY <1>1, <1>5, <2>5, BecomeKeeps
<1> QED BY <1>1, <1>3, <1>4, <1>5

(* A maker that has not answered does.                                     *)
LEMMA AnswerSound ==
  ASSUME NEW q, Underway(q),
         NEW m \in Maker, NEW withFile \in BOOLEAN, NEW place \in {"response", "error", "persist"},
         m \notin q.files, q.files = q.closes \/ q.refused,
         q.files \cup {m} \subseteq Before([q EXCEPT !.at = place]),
         place = "error" => m = "handler" /\ ~q.recovering,
         place = "response" => IF q.recovering THEN m = "recovery" ELSE m \in {"handler", "exception"}
  PROVE  Sound([Answered(q, m, withFile) EXCEPT !.at = place])
<1>0. q \in RequestRecord
  BY DEF Underway
<1> DEFINE files == IF withFile THEN q.files \cup {m} ELSE q.files
<1>1. Answered(q, m, withFile) = [q EXCEPT !.response = m, !.files = files, !.setCookie = "none"]
  BY DEF Answered
<1> DEFINE new == [[q EXCEPT !.response = m, !.files = files, !.setCookie = "none"] EXCEPT !.at = place]
<1>2. files \in SUBSET Maker /\ files \subseteq q.files \cup {m} /\ q.files \subseteq files
  BY <1>0 DEF RequestRecord
<1> HIDE DEF files
<1>3. new \in RequestRecord
  <2>1. place \in Place
    BY DEF Place, Serving
  <2> QED BY <1>0, <1>2, <2>1 DEF RequestRecord
<1>4. KeepsFiles(new)
  <2>1. Before([q EXCEPT !.at = place]) = Before(new)
    BY <1>0 DEF Underway, RequestRecord, Before
  <2>2. new.files \subseteq Before(new)
    BY <1>0, <1>2, <2>1 DEF RequestRecord
  <2> QED BY <1>0, <1>2, <2>2 DEF Underway, RequestRecord, KeepsFiles, Asking
<1>5. Ends(new)
  BY <1>0 DEF Underway, RequestRecord, Ends, Asking, Serving
<1>6. Tells(new)
  BY <1>0 DEF Underway, RequestRecord, Tells, Told, Asking, Serving
<1> QED BY <1>1, <1>3, <1>4, <1>5, <1>6 DEF Sound

(* None answers, now or any more.                                          *)
LEMMA MoveSound ==
  ASSUME NEW q, Underway(q), NEW place \in {"controller", "handle", "error", "persist"},
         q.files \subseteq Before([q EXCEPT !.at = place]),
         q.response \notin q.closes, q.files \ q.closes \subseteq {q.response} \/ q.refused,
         place \in {"controller", "handle"} => q.heads = 0,
         place # "persist" => q.response = NoResponse /\ ~q.recovering
  PROVE  Sound([q EXCEPT !.at = place])
<1>0. q \in RequestRecord
  BY DEF Underway
<1> DEFINE new == [q EXCEPT !.at = place]
<1>1. new \in RequestRecord
  <2>1. place \in Place
    BY DEF Place, Serving
  <2> QED BY <1>0, <2>1 DEF RequestRecord
<1>2. KeepsFiles(new)
  BY <1>0 DEF Underway, RequestRecord, KeepsFiles, Asking
<1>3. Ends(new)
  BY <1>0 DEF Underway, RequestRecord, Ends, Asking, Serving
<1>4. Tells(new)
  BY <1>0 DEF Underway, RequestRecord, Tells, Told, Asking, Serving
<1> QED BY <1>1, <1>2, <1>3, <1>4 DEF Sound

LEMMA ListenKeeps ==
  ASSUME Inv, NEW r \in Request, OnRequest(r) \/ OnController(r)
  PROVE  Inv'
<1> DEFINE q == request[r]
<1>1. PICK place \in {"controller", "handle"} :
        /\ q.at \in {"request", "controller"} /\ UNCHANGED <<now, jar>>
        /\ \/ Become(r, [q EXCEPT !.at = place])
           \/ \E withFile \in BOOLEAN :
                Become(r, [Answered(q, "handler", withFile) EXCEPT !.at = "response"])
  BY DEF OnRequest, OnController, Listen, At, storageVars
<1>2. Sound(q) /\ jar \in Id \cup {NoCookie}
  BY DEF Inv
<1> HIDE DEF q
<1>3. Underway(q)
  BY <1>1, <1>2, SoundUnderway
<1>4. /\ q.files = {} /\ q.closes = {} /\ q.response = NoResponse /\ ~q.recovering /\ q.heads = 0
      /\ q \in RequestRecord
  BY <1>1, <1>2 DEF Sound, KeepsFiles, Before, Ends, Asking
<1>5. CASE Become(r, [q EXCEPT !.at = place])
  <2>1. Sound([q EXCEPT !.at = place])
    BY <1>3, <1>4, MoveSound
  <2> QED BY <1>1, <1>2, <1>5, <2>1, BecomeKeeps
<1>6. ASSUME NEW withFile \in BOOLEAN,
             Become(r, [Answered(q, "handler", withFile) EXCEPT !.at = "response"])
      PROVE  Inv'
  <2>1. {"handler"} \subseteq Before([q EXCEPT !.at = "response"]) /\ "handler" \in Maker
    BY <1>4 DEF Before, RequestRecord, Asking, Maker
  <2>2. Sound([Answered(q, "handler", withFile) EXCEPT !.at = "response"])
    BY <1>3, <1>4, <2>1, AnswerSound
  <2> QED BY <1>1, <1>2, <1>6, <2>2, BecomeKeeps
<1> QED BY <1>1, <1>5, <1>6

(* What a handler does to the session and the client.                      *)
LEMMA HandledUnderway ==
  ASSUME NEW q, Sound(q), q.at = "handle", NEW d \in Sessions(q), NEW streams \in BOOLEAN,
         NEW s, s = IF streams THEN [d EXCEPT !.streamed = TRUE, !.heads = 1] ELSE d
  PROVE  /\ Underway(s) /\ s.files = {} /\ s.closes = {} /\ s.response = NoResponse
         /\ ~s.recovering /\ s.at = "handle"
<1>1. /\ Underway(q) /\ q.files = {} /\ q.closes = {} /\ q.response = NoResponse /\ ~q.recovering
  <2>1. Underway(q)
    BY SoundUnderway
  <2> QED BY <2>1 DEF Sound, KeepsFiles, Before, Asking
<1>2. q \in RequestRecord
  BY <1>1 DEF Underway
<1>3. /\ Underway(d) /\ d.files = {} /\ d.closes = {} /\ d.response = NoResponse
      /\ ~d.recovering /\ d.at = "handle"
  <2>1. CASE d = q
    BY <1>1, <2>1
  <2>2. ASSUME NEW data \in Data, NEW cleared \in BOOLEAN, NEW modified \in BOOLEAN,
               d = [q EXCEPT !.data = data, !.modified = modified, !.cleared = cleared]
        PROVE  /\ Underway(d) /\ d.files = {} /\ d.closes = {} /\ d.response = NoResponse
               /\ ~d.recovering /\ d.at = "handle"
    <3>1. [q EXCEPT !.data = data, !.modified = modified, !.cleared = cleared] \in RequestRecord
      <4> DEFINE given == [q EXCEPT !.data = data]
                 changed == [given EXCEPT !.modified = modified]
      <4>1. given \in RequestRecord
        BY <1>2, SMTT(20) DEF RequestRecord
      <4> HIDE DEF given
      <4>2. changed \in RequestRecord
        BY <4>1, SMTT(20) DEF RequestRecord
      <4> HIDE DEF changed
      <4>3. [changed EXCEPT !.cleared = cleared] \in RequestRecord
        BY <4>2, SMTT(20) DEF RequestRecord
      <4> QED BY <4>3, Zenon DEF changed, given
    <3> QED BY <1>1, <1>2, <2>2, <3>1 DEF Underway, RequestRecord, Told
  <2>3. CASE d = Clear(q)
    BY <2>2, <2>3 DEF Clear
  <2>4. CASE d = DeleteKey(q)
    <3>1. q.cleared \in BOOLEAN /\ [q EXCEPT !.data = "empty", !.modified = TRUE]
                                = [q EXCEPT !.data = "empty", !.modified = TRUE, !.cleared = q.cleared]
      BY <1>2 DEF RequestRecord
    <3> QED BY <2>1, <2>2, <2>4, <3>1 DEF DeleteKey
  <2>5. ASSUME NEW v \in Settable, d = Set(q, v)
        PROVE  /\ Underway(d) /\ d.files = {} /\ d.closes = {} /\ d.response = NoResponse
               /\ ~d.recovering /\ d.at = "handle"
    BY <2>2, <2>5 DEF Set
  <2> QED BY <2>1, <2>3, <2>4, <2>5 DEF Sessions
<1>4. d \in RequestRecord
  BY <1>3 DEF Underway
<1>5. CASE streams
  <2>1. s = [d EXCEPT !.streamed = TRUE, !.heads = 1]
    BY <1>5
  <2>0. 1 \in 0 .. 1
    OBVIOUS
  <2>2. [d EXCEPT !.streamed = TRUE, !.heads = 1] \in RequestRecord
    BY <1>4, <2>0 DEF RequestRecord
  <2> QED BY <1>3, <1>4, <2>1, <2>2 DEF Underway, RequestRecord
<1> QED BY <1>3, <1>5

LEMMA HandleKeeps ==
  ASSUME Inv, NEW r \in Request, Handle(r)
  PROVE  Inv'
<1> DEFINE q == request[r]
<1>0. /\ Sound(q) /\ q.at = "handle" /\ UNCHANGED <<now, jar>> /\ jar \in Id \cup {NoCookie}
  BY DEF Handle, At, Inv, storageVars
<1>1. PICK d \in Sessions(q), streams, withFile \in BOOLEAN,
           result \in {"response", "nothing", "error", "both", "panic"} :
        /\ Wild(r) \/ (~streams /\ ~withFile /\ result = "response")
        /\ withFile => result \in {"response", "both"}
        /\ LET s == IF streams THEN [d EXCEPT !.streamed = TRUE, !.heads = 1] ELSE d IN
           Become(r, CASE result = "response" -> [Answered(s, "handler", withFile) EXCEPT !.at = "response"]
                       [] result = "nothing" -> [s EXCEPT !.at = "persist"]
                       [] result = "error" -> [s EXCEPT !.at = "error"]
                       [] result = "both" -> [Answered(s, "handler", withFile) EXCEPT !.at = "error"]
                       [] result = "panic" -> Panicked(s))
  BY Zenon DEF Handle
<1> DEFINE s == IF streams THEN [d EXCEPT !.streamed = TRUE, !.heads = 1] ELSE d
<1>2. /\ \/ \E place \in {"response", "error"} :
              Become(r, [Answered(s, "handler", withFile) EXCEPT !.at = place])
         \/ \E place \in {"persist", "error"} : Become(r, [s EXCEPT !.at = place])
         \/ Become(r, Panicked(s))
  <2> HIDE DEF q
  <2>1. Become(r, CASE result = "response" -> [Answered(s, "handler", withFile) EXCEPT !.at = "response"]
                    [] result = "nothing" -> [s EXCEPT !.at = "persist"]
                    [] result = "error" -> [s EXCEPT !.at = "error"]
                    [] result = "both" -> [Answered(s, "handler", withFile) EXCEPT !.at = "error"]
                    [] result = "panic" -> Panicked(s))
    BY <1>1
  <2> HIDE DEF s
  <2>2. CASE result = "response"
    BY <2>1, <2>2
  <2>3. CASE result = "nothing"
    BY <2>1, <2>3
  <2>4. CASE result = "error"
    BY <2>1, <2>4
  <2>5. CASE result = "both"
    BY <2>1, <2>5
  <2>6. CASE result = "panic"
    BY <2>1, <2>6
  <2> QED BY <2>2, <2>3, <2>4, <2>5, <2>6
<1> HIDE DEF q
<1>3. /\ Underway(s) /\ s.files = {} /\ s.closes = {} /\ s.response = NoResponse
      /\ ~s.recovering /\ s.at = "handle"
  BY <1>0, HandledUnderway
<1> HIDE DEF s
<1>4. s \in RequestRecord
  BY <1>3 DEF Underway
<1>5. ASSUME NEW place \in {"response", "error"},
             Become(r, [Answered(s, "handler", withFile) EXCEPT !.at = place])
      PROVE  Inv'
  <2>1. {"handler"} \subseteq Before([s EXCEPT !.at = place]) /\ "handler" \in Maker
    BY <1>3, <1>4 DEF Before, RequestRecord, Asking, Maker
  <2>2. Sound([Answered(s, "handler", withFile) EXCEPT !.at = place])
    BY <1>3, <2>1, AnswerSound
  <2> QED BY <1>0, <1>5, <2>2, BecomeKeeps
<1>6. ASSUME NEW place \in {"persist", "error"}, Become(r, [s EXCEPT !.at = place])
      PROVE  Inv'
  <2>1. Sound([s EXCEPT !.at = place])
    BY <1>3, MoveSound
  <2> QED BY <1>0, <1>6, <2>1, BecomeKeeps
<1>7. CASE Become(r, Panicked(s))
  <2>1. Sound(Panicked(s))
    BY <1>3, PanickedSound
  <2> QED BY <1>0, <1>7, <2>1, BecomeKeeps
<1> QED BY <1>2, <1>5, <1>6, <1>7

(* The response at hand is given up, and closed.                           *)
LEMMA ClosedUnderway ==
  ASSUME NEW q, Underway(q), q.response \notin q.closes, q.files \ q.closes \subseteq {q.response} \/ q.refused,
         NEW s, s = Closed(q, q.response)
  PROVE  /\ Underway(s) /\ s.files = q.files /\ (s.files = s.closes \/ s.refused)
         /\ s.recovering = q.recovering /\ s.at = q.at /\ s.response = q.response
         /\ s.heads = q.heads /\ s.setCookie = q.setCookie /\ s.wrote = q.wrote
         /\ s.persisted = q.persisted /\ s.refused = q.refused
<1>1. q \in RequestRecord
  BY DEF Underway
<1> DEFINE closes == q.closes \cup ({q.response} \cap q.files)
<1>2. s = [q EXCEPT !.closes = closes]
  BY <1>1, ClosedIs DEF Underway
<1>3. /\ closes \subseteq q.files /\ (q.files = closes \/ q.refused)
      /\ q.files \in SUBSET Maker
  BY <1>1 DEF Underway, RequestRecord
<1> HIDE DEF closes
<1>4. s \in RequestRecord
  BY <1>1, <1>2, <1>3 DEF RequestRecord
<1> QED BY <1>1, <1>2, <1>3, <1>4 DEF Underway, RequestRecord, Told

LEMMA OnExceptionKeeps ==
  ASSUME Inv, NEW r \in Request, OnException(r)
  PROVE  Inv'
<1> DEFINE q == request[r]
<1>1. /\ Sound(q) /\ q.at = "error" /\ UNCHANGED <<now, jar>> /\ jar \in Id \cup {NoCookie}
      /\ \/ \E withFile \in BOOLEAN :
              Become(r, [Answered(Closed(q, q.response), "exception", withFile) EXCEPT !.at = "response"])
         \/ Become(r, Panicked([q EXCEPT !.refused = TRUE]))
  BY DEF OnException, At, Inv, storageVars
<1> HIDE DEF q
<1>2. Underway(q) /\ q \in RequestRecord
  BY <1>1, SoundUnderway DEF Sound
<1>3. /\ q.files \subseteq {"handler"} /\ ~q.recovering /\ q.response \notin q.closes
      /\ q.files \ q.closes \subseteq {q.response} \/ q.refused
  BY <1>1 DEF Sound, KeepsFiles, Before, Asking
<1>4. ASSUME NEW withFile \in BOOLEAN,
             Become(r, [Answered(Closed(q, q.response), "exception", withFile) EXCEPT !.at = "response"])
      PROVE  Inv'
  <2> DEFINE s == Closed(q, q.response)
  <2>1. /\ Underway(s) /\ s.files = q.files /\ (s.files = s.closes \/ s.refused)
        /\ s.recovering = q.recovering
    BY <1>2, <1>3, ClosedUnderway
  <2>2. Become(r, [Answered(s, "exception", withFile) EXCEPT !.at = "response"])
    BY <1>4
  <2> HIDE DEF s
  <2>3. s \in RequestRecord
    BY <2>1 DEF Underway
  <2>4. /\ s.files \cup {"exception"} \subseteq Before([s EXCEPT !.at = "response"])
        /\ "exception" \in Maker /\ "exception" \notin s.files
    BY <1>3, <2>1, <2>3 DEF Before, RequestRecord, Asking, Maker
  <2>5. Sound([Answered(s, "exception", withFile) EXCEPT !.at = "response"])
    BY <1>3, <2>1, <2>4, AnswerSound
  <2> QED BY <1>1, <2>2, <2>5, BecomeKeeps
<1>5. CASE Become(r, Panicked([q EXCEPT !.refused = TRUE]))
  <2> DEFINE s == [q EXCEPT !.refused = TRUE]
  <2>1. /\ s \in RequestRecord /\ s.refused /\ s.files = q.files /\ s.recovering = q.recovering
    BY <1>2 DEF RequestRecord
  <2>2. Underway(s)
    BY <1>2, <2>1 DEF Underway, RequestRecord, Told
  <2>3. Sound(Panicked(s))
    BY <1>3, <2>1, <2>2, PanickedSound
  <2> QED BY <1>1, <1>5, <2>3, BecomeKeeps
<1> QED BY <1>1, <1>4, <1>5

LEMMA OnResponseKeeps ==
  ASSUME Inv, NEW r \in Request, OnResponse(r)
  PROVE  Inv'
<1> DEFINE q == request[r]
           maker == IF q.recovering THEN "relistener" ELSE "listener"
           without == Closed(q, q.response)
<1>1. /\ Sound(q) /\ q.at = "response" /\ UNCHANGED <<now, jar>> /\ jar \in Id \cup {NoCookie}
      /\ \/ Become(r, [q EXCEPT !.at = "persist"])
         \/ \E withFile \in BOOLEAN :
              Become(r, [Answered(without, maker, withFile) EXCEPT !.at = "persist"])
         \/ Become(r, [without EXCEPT !.response = NoResponse, !.setCookie = "none", !.at = "persist"])
  BY DEF OnResponse, At, Inv, storageVars
<1> HIDE DEF q
<1>2. Underway(q) /\ q \in RequestRecord
  BY <1>1, SoundUnderway DEF Sound
<1>3. /\ q.files \subseteq IF q.recovering THEN {"handler", "exception", "listener", "recovery"}
                                         ELSE {"handler", "exception"}
      /\ q.response \notin q.closes /\ (q.files \ q.closes \subseteq {q.response} \/ q.refused)
  BY <1>1 DEF Sound, KeepsFiles, Before, Asking
<1>4. /\ Underway(without) /\ without.files = q.files /\ (without.files = without.closes \/ without.refused)
      /\ without.recovering = q.recovering
  BY <1>2, <1>3, ClosedUnderway
<1> HIDE DEF without
<1>5. CASE Become(r, [q EXCEPT !.at = "persist"])
  <2>1. q.files \subseteq Before([q EXCEPT !.at = "persist"])
    BY <1>2, <1>3 DEF Before, RequestRecord, Asking, Maker
  <2>2. Sound([q EXCEPT !.at = "persist"])
    BY <1>2, <1>3, <2>1, MoveSound
  <2> QED BY <1>1, <1>5, <2>2, BecomeKeeps
<1>6. without \in RequestRecord
  BY <1>4 DEF Underway
<1>7. ASSUME NEW withFile \in BOOLEAN,
             Become(r, [Answered(without, maker, withFile) EXCEPT !.at = "persist"])
      PROVE  Inv'
  <2>1. /\ without.files \cup {maker} \subseteq Before([without EXCEPT !.at = "persist"])
        /\ maker \in Maker /\ maker \notin without.files
    BY <1>3, <1>4, <1>6 DEF Before, RequestRecord, Asking, Maker
  <2> HIDE DEF maker
  <2>2. Sound([Answered(without, maker, withFile) EXCEPT !.at = "persist"])
    BY <1>4, <2>1, AnswerSound
  <2> QED BY <1>1, <1>7, <2>2, BecomeKeeps
<1>8. CASE Become(r, [without EXCEPT !.response = NoResponse, !.setCookie = "none", !.at = "persist"])
  <2> DEFINE new == [without EXCEPT !.response = NoResponse, !.setCookie = "none", !.at = "persist"]
  <2>1. new \in RequestRecord
    <3>1. "persist" \in Place
      BY DEF Place, Serving
    <3> QED BY <1>6, <3>1 DEF RequestRecord
  <2>2. without.files \subseteq Before(new) /\ NoResponse \notin without.closes
    BY <1>3, <1>4, <1>6 DEF Before, RequestRecord, Asking, Maker, Underway, NoResponse
  <2>3. KeepsFiles(new)
    BY <1>4, <1>6, <2>2 DEF Underway, KeepsFiles, RequestRecord, Asking
  <2>4. Ends(new)
    BY <1>4, <1>6 DEF Underway, RequestRecord, Ends, Asking, Serving
  <2>5. Tells(new)
    BY <1>4, <1>6 DEF Underway, RequestRecord, Tells, Told, Asking, Serving
  <2>6. Sound(new)
    BY <2>1, <2>3, <2>4, <2>5 DEF Sound
  <2> QED BY <1>1, <1>8, <2>6, BecomeKeeps
<1> QED BY <1>1, <1>5, <1>7, <1>8

LEMMA PersistKeeps ==
  ASSUME Inv, NEW r \in Request, Persist(r)
  PROVE  Inv'
<1> DEFINE q == request[r]
           failed == [q EXCEPT !.refused = TRUE]
<1>1. /\ Sound(q) /\ q.at = "persist" /\ UNCHANGED <<now, jar>> /\ jar \in Id \cup {NoCookie}
      /\ \/ /\ ~q.persisted
            /\ Become(r, [q EXCEPT !.persisted = TRUE, !.wrote = "deleted", !.setCookie = "expire", !.at = "write"])
         \/ /\ ~q.persisted
            /\ Become(r, [q EXCEPT !.persisted = TRUE, !.wrote = "saved", !.setCookie = "id", !.at = "write"])
         \/ Become(r, Panicked(failed))
         \/ Become(r, [q EXCEPT !.persisted = TRUE, !.at = "write"])
  BY DEF Persist, Delete, Save, Commit, At, Inv, storageVars
<1> HIDE DEF q
<1>2. Underway(q) /\ q \in RequestRecord
  BY <1>1, SoundUnderway DEF Sound
<1>3. /\ q.files \subseteq Maker /\ (~q.recovering => q.files \subseteq {"handler", "exception", "listener"})
      /\ q.response \notin q.closes /\ (q.files \ q.closes \subseteq {q.response} \/ q.refused)
  BY <1>1, <1>2 DEF Sound, KeepsFiles, Before, Asking, RequestRecord
<1>4. ASSUME NEW wrote \in {"nothing", "saved", "deleted"}, NEW cookie \in {"none", "id", "expire"},
             \/ ~q.persisted /\ wrote = "saved" /\ cookie = "id"
             \/ ~q.persisted /\ wrote = "deleted" /\ cookie = "expire"
             \/ wrote = q.wrote /\ cookie = q.setCookie,
             Become(r, [q EXCEPT !.persisted = TRUE, !.wrote = wrote, !.setCookie = cookie, !.at = "write"])
      PROVE  Inv'
  <2> DEFINE new == [q EXCEPT !.persisted = TRUE, !.wrote = wrote, !.setCookie = cookie, !.at = "write"]
  <2>1. new \in RequestRecord
    <3>1. "write" \in Place
      BY DEF Place, Serving
    <3> QED BY <1>2, <3>1 DEF RequestRecord
  <2>2. q.files \subseteq Before(new)
    BY <1>2, <1>3 DEF RequestRecord, Before, Asking
  <2>3. KeepsFiles(new)
    BY <1>2, <1>3, <2>2 DEF Underway, RequestRecord, KeepsFiles, Asking
  <2>4. Ends(new)
    BY <1>2 DEF Underway, RequestRecord, Ends, Asking, Serving
  <2>5. Tells(new)
    BY <1>2, <1>4 DEF Underway, RequestRecord, Tells, Told, Asking, Serving
  <2>6. Sound(new)
    BY <2>1, <2>3, <2>4, <2>5 DEF Sound
  <2> QED BY <1>1, <1>4, <2>6, BecomeKeeps
<1>5. CASE Become(r, [q EXCEPT !.persisted = TRUE, !.at = "write"])
  <2>1. /\ q.wrote \in {"nothing", "saved", "deleted"} /\ q.setCookie \in {"none", "id", "expire"}
        /\ [q EXCEPT !.persisted = TRUE, !.at = "write"]
             = [q EXCEPT !.persisted = TRUE, !.wrote = q.wrote, !.setCookie = q.setCookie, !.at = "write"]
    BY <1>2 DEF RequestRecord
  <2> QED BY <1>4, <1>5, <2>1
<1>6. CASE Become(r, Panicked(failed))
  <2>1. /\ failed \in RequestRecord /\ failed.refused /\ failed.files = q.files
        /\ failed.recovering = q.recovering
    BY <1>2 DEF RequestRecord
  <2>2. Underway(failed)
    BY <1>2, <2>1 DEF Underway, RequestRecord, Told
  <2> HIDE DEF failed
  <2>3. Sound(Panicked(failed))
    BY <1>3, <2>1, <2>2, PanickedSound
  <2> QED BY <1>1, <1>6, <2>3, BecomeKeeps
<1> QED BY <1>1, <1>4, <1>5, <1>6

LEMMA WriteKeeps ==
  ASSUME Inv, NEW r \in Request, Write(r)
  PROVE  Inv'
<1> DEFINE q == request[r]
           closes == q.closes \cup ({q.response} \cap q.files)
           without == Closed(q, q.response)
           sent == [without EXCEPT !.heads = q.heads + 1, !.sentCookie = q.setCookie]
<1>1. /\ Sound(q) /\ q.at = "write" /\ UNCHANGED now /\ jar \in Id \cup {NoCookie}
      /\ jar' \in {q.id, NoCookie, jar}
  BY DEF Write, At, Inv, storageVars
<1>2. /\ q \in RequestRecord /\ q.response \notin q.closes /\ q.closes \subseteq q.files /\ q.id \in Id
      /\ q.files = closes \/ q.refused
      /\ closes \subseteq q.files /\ ~q.closedTwice
  <2> HIDE DEF q
  <2> QED BY <1>1 DEF Sound, KeepsFiles, Ends, Serving
<1>3. without = [q EXCEPT !.closes = closes]
  <2> HIDE DEF q
  <2> QED BY <1>2, ClosedIs
<1>4. \/ q.heads > 0 /\ Become(r, [without EXCEPT !.at = "terminate"])
      \/ ~(q.heads > 0) /\ Become(r, [sent EXCEPT !.at = "terminate"])
      \/ ~(q.heads > 0) /\ Become(r, Panicked(sent))
  <2>1. q.heads \in 0 .. 1 /\ without.heads = q.heads
    <3> HIDE DEF q
    <3> QED BY <1>2, <1>3 DEF RequestRecord
  <2>2. sent = [without EXCEPT !.heads = @ + 1, !.sentCookie = q.setCookie]
    BY <2>1
  <2> QED BY <2>2 DEF Write
<1> HIDE DEF q
<1>5. /\ q.files \in SUBSET Maker /\ q.heads \in 0 .. 1
      /\ ~q.recovering => q.files \subseteq {"handler", "exception", "listener"}
  BY <1>1, <1>2 DEF Sound, KeepsFiles, Before, Asking, RequestRecord
<1> HIDE DEF closes
<1>6. without \in RequestRecord
  BY <1>2, <1>3, <1>5 DEF RequestRecord
<1>7. CASE q.heads > 0 /\ Become(r, [without EXCEPT !.at = "terminate"])
  <2> DEFINE new == [without EXCEPT !.at = "terminate"]
  <2>0. q.heads = 1
    BY <1>5, <1>7
  <2>1. new \in RequestRecord
    <3>1. "terminate" \in Place
      BY DEF Place, Serving
    <3> QED BY <1>6, <3>1 DEF RequestRecord
  <2>2. KeepsFiles(new)
    BY <1>2, <1>3, <1>5, <1>6 DEF RequestRecord, KeepsFiles, Before, Asking
  <2>3. Ends(new)
    BY <1>1, <1>2, <1>3, <1>6, <2>0 DEF Sound, RequestRecord, Ends, Asking, Serving
  <2>4. Tells(new)
    BY <1>1, <1>2, <1>3, <1>6, <2>0 DEF Sound, RequestRecord, Tells, Told, Asking, Serving
  <2>5. Sound(new)
    BY <2>1, <2>2, <2>3, <2>4 DEF Sound
  <2> QED BY <1>1, <1>2, <1>7, <2>5, BecomeKeeps
<1>8. ASSUME q.heads = 0
      PROVE  /\ sent \in RequestRecord /\ Underway(sent) /\ sent.heads = 1 /\ sent.files = q.files
             /\ sent.closes = closes /\ sent.refused = q.refused /\ sent.recovering = q.recovering
             /\ sent.persisted
  <2>1. 1 \in 0 .. 1 /\ q.heads + 1 = 1 /\ q.setCookie \in {"none", "id", "expire"}
    BY <1>2, <1>8 DEF RequestRecord
  <2>2. sent \in RequestRecord
    BY <1>6, <2>1 DEF RequestRecord
  <2>3. Underway(sent)
    BY <1>1, <1>2, <1>3, <1>8, <2>1, <2>2 DEF Underway, Sound, RequestRecord, Ends, Tells, Told, Asking, Serving
  <2> QED BY <1>1, <1>2, <1>3, <2>1, <2>2, <2>3 DEF RequestRecord, Sound, Tells
<1> HIDE DEF sent, without
<1>9. CASE q.heads = 0 /\ Become(r, [sent EXCEPT !.at = "terminate"])
  <2> DEFINE new == [sent EXCEPT !.at = "terminate"]
  <2>1. new \in RequestRecord
    <3>1. "terminate" \in Place
      BY DEF Place, Serving
    <3> QED BY <1>8, <1>9, <3>1 DEF RequestRecord
  <2>2. KeepsFiles(new)
    BY <1>2, <1>5, <1>8, <1>9 DEF Underway, RequestRecord, KeepsFiles, Before, Asking
  <2>3. Ends(new)
    BY <1>8, <1>9 DEF Underway, RequestRecord, Ends, Asking, Serving
  <2>4. Tells(new)
    BY <1>8, <1>9 DEF Underway, RequestRecord, Tells, Told, Asking, Serving
  <2>5. Sound(new)
    BY <2>1, <2>2, <2>3, <2>4 DEF Sound
  <2> QED BY <1>1, <1>2, <1>9, <2>5, BecomeKeeps
<1>10. CASE q.heads = 0 /\ Become(r, Panicked(sent))
  <2>1. Sound(Panicked(sent))
    BY <1>2, <1>5, <1>8, <1>10, PanickedSound
  <2> QED BY <1>1, <1>2, <1>10, <2>1, BecomeKeeps
<1> QED BY <1>4, <1>5, <1>7, <1>9, <1>10

LEMMA RecoverKeeps ==
  ASSUME Inv, NEW r \in Request, Recover(r)
  PROVE  Inv'
<1> DEFINE q == request[r]
           failed == [q EXCEPT !.refused = TRUE]
<1>1. /\ Sound(q) /\ q.at = "recover" /\ UNCHANGED <<now, jar>> /\ jar \in Id \cup {NoCookie}
      /\ \/ \E withFile \in BOOLEAN :
              Become(r, [Answered(q, "recovery", withFile) EXCEPT !.at = "response"])
         \/ Become(r, Panicked(failed))
  BY DEF Recover, At, Inv, storageVars
<1> HIDE DEF q
<1>2. Underway(q) /\ q \in RequestRecord
  BY <1>1, SoundUnderway DEF Sound
<1>3. q.recovering /\ q.files \subseteq {"handler", "exception", "listener"} /\ (q.files = q.closes \/ q.refused)
  BY <1>1 DEF Sound, KeepsFiles, Before, Asking
<1>4. ASSUME NEW withFile \in BOOLEAN,
             Become(r, [Answered(q, "recovery", withFile) EXCEPT !.at = "response"])
      PROVE  Inv'
  <2>1. /\ q.files \cup {"recovery"} \subseteq Before([q EXCEPT !.at = "response"])
        /\ "recovery" \in Maker /\ "recovery" \notin q.files
    BY <1>2, <1>3 DEF Before, RequestRecord, Asking, Maker
  <2>2. Sound([Answered(q, "recovery", withFile) EXCEPT !.at = "response"])
    BY <1>2, <1>3, <2>1, AnswerSound
  <2> QED BY <1>1, <1>4, <2>2, BecomeKeeps
<1>5. CASE Become(r, Panicked(failed))
  <2>1. /\ failed \in RequestRecord /\ failed.refused /\ failed.files = q.files
        /\ failed.recovering = q.recovering
    BY <1>2 DEF RequestRecord
  <2>2. Underway(failed)
    BY <1>2, <2>1 DEF Underway, RequestRecord, Told
  <2> HIDE DEF failed
  <2>3. Sound(Panicked(failed))
    BY <1>3, <2>1, <2>2, PanickedSound
  <2> QED BY <1>1, <1>5, <2>3, BecomeKeeps
<1> QED BY <1>1, <1>4, <1>5

LEMMA FinishKeeps ==
  ASSUME Inv, NEW r \in Request, Finish(r)
  PROVE  Inv'
<1> DEFINE q == request[r]
           terminated == IF q.at = "terminate" THEN q.terminated + 1 ELSE q.terminated
           scopes == q.scopes - 1
           new == [NewRequest EXCEPT
                     !.at = "done", !.id = q.id, !.files = q.files, !.closes = q.closes,
                     !.closedTwice = q.closedTwice, !.heads = q.heads, !.wrote = q.wrote,
                     !.sentCookie = q.sentCookie, !.streamed = q.streamed, !.refused = q.refused,
                     !.aborted = q.aborted, !.scopes = scopes, !.terminated = terminated]
<1>1. /\ Sound(q) /\ q.at \in {"terminate", "scope"} /\ UNCHANGED <<now, jar>> /\ jar \in Id \cup {NoCookie}
      /\ Become(r, new)
  BY DEF Finish, At, Inv, storageVars
<1> HIDE DEF q
<1>2. q \in RequestRecord
  BY <1>1 DEF Sound
<1>3. /\ scopes = 0 /\ terminated \in 0 .. 1
      /\ terminated = IF q.id = NoEntry THEN 0 ELSE 1
      /\ q.heads = 1 \/ q.refused
  BY <1>1 DEF Sound, Ends, Serving
<1> HIDE DEF scopes, terminated
<1>4. new \in RequestRecord
  <2> DEFINE n == NewRequest
  <2>1. n \in RequestRecord
    BY NewRequestSound DEF Sound
  <2>2. /\ q.id \in Id \cup {NoEntry} /\ q.files \in SUBSET Maker /\ q.closes \in SUBSET Maker
        /\ q.closedTwice \in BOOLEAN /\ q.heads \in 0 .. 1 /\ q.wrote \in {"nothing", "saved", "deleted"}
        /\ q.sentCookie \in {"none", "id", "expire"} /\ q.streamed \in BOOLEAN
        /\ q.refused \in BOOLEAN /\ q.aborted \in BOOLEAN
    BY <1>2 DEF RequestRecord
  <2>3. "done" \in Place
    BY DEF Place
  <2>4. scopes \in 0 .. 1 /\ terminated \in 0 .. 1
    BY <1>3
  <2> DEFINE former == [n EXCEPT !.at = "done", !.id = q.id, !.files = q.files, !.closes = q.closes,
                                 !.closedTwice = q.closedTwice, !.heads = q.heads]
             middle == [former EXCEPT !.wrote = q.wrote, !.sentCookie = q.sentCookie,
                                      !.streamed = q.streamed, !.refused = q.refused]
             latter == [middle EXCEPT !.aborted = q.aborted, !.scopes = scopes,
                                      !.terminated = terminated]
  <2>5. new = latter
    BY Zenon
  <2> HIDE DEF n
  <2>6. former \in RequestRecord
    BY <2>1, <2>2, <2>3 DEF RequestRecord
  <2> HIDE DEF former
  <2>7. middle \in RequestRecord
    BY <2>2, <2>6 DEF RequestRecord
  <2> HIDE DEF middle
  <2>8. latter \in RequestRecord
    BY <2>2, <2>4, <2>7 DEF RequestRecord
  <2> QED BY <2>5, <2>8, Zenon
<1>5. KeepsFiles(new)
  BY <1>1, <1>2 DEF Sound, NewRequest, RequestRecord, KeepsFiles, Before, Asking
<1>6. Ends(new)
  BY <1>3 DEF NewRequest, Ends, Asking, Serving
<1>7. Tells(new)
  BY <1>1 DEF Sound, NewRequest, Tells, Told, Asking, Serving
<1>8. Sound(new)
  BY <1>4, <1>5, <1>6, <1>7 DEF Sound
<1> QED BY <1>1, <1>8, BecomeKeeps

LEMMA DieKeeps ==
  ASSUME Inv, Die
  PROVE  Inv'
<1>1. /\ UNCHANGED <<now, jar>>
      /\ request' = [r \in Request |-> IF request[r].at \in Serving
                                       THEN [NewRequest EXCEPT !.at = "dead", !.wrote = request[r].wrote]
                                       ELSE request[r]]
  BY DEF Die, Crash
<1>2. ASSUME NEW q, Sound(q)
      PROVE  Sound([NewRequest EXCEPT !.at = "dead", !.wrote = q.wrote])
  <2> DEFINE new == [NewRequest EXCEPT !.at = "dead", !.wrote = q.wrote]
  <2>1. q.wrote \in {"nothing", "saved", "deleted"} /\ 0 \in 0 .. 1
    BY <1>2 DEF Sound, RequestRecord
  <2>2. new \in RequestRecord
    BY <2>1 DEF NewRequest, RequestRecord, Place
  <2>3. KeepsFiles(new)
    BY DEF NewRequest, KeepsFiles, Before, Asking
  <2>4. Ends(new)
    BY DEF NewRequest, Ends, Asking, Serving
  <2>5. Tells(new)
    BY DEF NewRequest, Tells, Asking, Serving
  <2> QED BY <2>2, <2>3, <2>4, <2>5 DEF Sound
<1>3. \A r \in Request : Sound(request'[r])
  BY <1>1, <1>2 DEF Inv
<1> QED BY <1>1, <1>3 DEF Inv
-----------------------------------------------------------------------------
LEMMA InvInit == Init => Inv
BY NewRequestSound DEF Init, StorageInit, Inv

LEMMA InvNext == Inv /\ [Next]_vars => Inv'
<1> SUFFICES ASSUME Inv, [Next]_vars PROVE Inv'
  OBVIOUS
<1>1. ASSUME NEW r \in Request, Step(r) PROVE Inv'
  BY <1>1, AcceptKeeps, LoadSessionKeeps, FreshKeeps, ListenKeeps, HandleKeeps, OnExceptionKeeps,
     OnResponseKeeps, PersistKeeps, WriteKeeps, RecoverKeeps, FinishKeeps DEF Step
<1>2. CASE Die
  BY <1>2, DieKeeps
<1>3. CASE Around
  <2>1. now' \in Nat /\ UNCHANGED <<request, jar>>
    BY <1>3 DEF Inv, Around, CleanupExpired, CloseStorage, Tick, Restart
  <2> QED BY <2>1 DEF Inv
<1>4. CASE UNCHANGED vars
  BY <1>4 DEF Inv, vars, storageVars
<1> QED BY <1>1, <1>2, <1>3, <1>4 DEF Next

THEOREM InvInvariance == Spec => []Inv
BY InvInit, InvNext, PTL DEF Spec

(* Whatever listeners and handlers replace, return or panic with, no file  *)
(* behind a response is closed twice or, without a failure, left open.     *)
THEOREM BodiesClosedOnceHolds == Spec => []BodiesClosedOnce
<1>1. Inv => BodiesClosedOnce
  BY DEF Inv, Sound, KeepsFiles, BodiesClosedOnce
<1> QED BY <1>1, InvInvariance, PTL

(* One header at most, and one for certain unless something failed; one    *)
(* terminate; no scope is left.                                            *)
THEOREM OneAnswerHolds == Spec => []OneAnswer
<1>1. Inv => OneAnswer
  <2>1. ASSUME NEW q, Sound(q) PROVE q.heads <= 1
    BY <2>1 DEF Sound, RequestRecord
  <2> QED BY <2>1 DEF Inv, Sound, Ends, OneAnswer
<1> QED BY <1>1, InvInvariance, PTL

(* The cookie tells what became of the session.                            *)
THEOREM CookieTellsTheStoreHolds == Spec => []CookieTellsTheStore
<1>1. Inv => CookieTellsTheStore
  BY DEF Inv, Sound, Tells, Told, CookieTellsTheStore
<1> QED BY <1>1, InvInvariance, PTL
-----------------------------------------------------------------------------
(* The promise of SessionStore.  The file of a handle that was not damaged *)
(* shows what the map shows: the map may lack an expired entry of the file *)
(* that a failed flush left there.  What was decoded encodes to itself,    *)
(* and a purge judges by a time that has been.                             *)
Snapshot == [Id -> Entry \cup {NoEntry}]

Readable == file \in Snapshot \cup {Torn} /\ (file # Torn => Encoded(file) = file)

FileShowsSessions ==
  up /\ Persistent /\ ~damaged => file # Torn /\ Live(file) = Live(Encoded(sessions))

Stored ==
  /\ setup \in Setups /\ {up, damaged} \subseteq BOOLEAN /\ sessions \in Snapshot
  /\ Readable /\ FileShowsSessions

PurgesInTime == \A r \in Request : request[r].at = "purge" => request[r].since <= now

(* What the callers see, and whose write was acknowledged.                 *)
Shown ==
  Live(IF up THEN IF Persistent THEN Encoded(sessions) ELSE sessions
       ELSE IF file = Torn THEN Nothing ELSE file)

Acked == {r \in Request : request[r].wrote # "nothing"}

(* An entry as it comes back from the file.                                *)
Coded(e) == IF e = NoEntry THEN NoEntry ELSE [e EXCEPT !.data = Json[@]]

LEMMA CodedEntry ==
  ASSUME NEW e \in Entry \cup {NoEntry}
  PROVE  /\ Coded(e) \in Entry \cup {NoEntry} /\ Coded(Coded(e)) = Coded(e)
         /\ Coded(e) = NoEntry <=> e = NoEntry
         /\ e # NoEntry => Coded(e).expiresAt = e.expiresAt
<1>1. CASE e = NoEntry
  BY <1>1 DEF Coded
<1>2. CASE e # NoEntry
  <2> DEFINE f == [data |-> Json[e.data], expiresAt |-> e.expiresAt]
  <2>1. e \in Entry /\ e.data \in Data /\ e.expiresAt \in Nat
    BY <1>2 DEF Entry
  <2>2. Json[e.data] \in Data /\ Json[Json[e.data]] = Json[e.data]
    BY <2>1, JsonIsStable
  <2>3. f \in Entry
    BY <2>1, <2>2 DEF Entry
  <2>4. Coded(e) = f
    BY <1>2, <2>1 DEF Coded, Entry
  <2>5. f # NoEntry
    BY <2>3, SessionAssumption
  <2>6. [f EXCEPT !.data = Json[f.data]] = f
    BY <2>2
  <2>7. Coded(f) = f
    BY <2>5, <2>6 DEF Coded
  <2> HIDE DEF f
  <2>8. f.expiresAt = e.expiresAt
    BY DEF f
  <2> QED BY <1>2, <2>3, <2>4, <2>5, <2>7, <2>8
<1> QED BY <1>1, <1>2

LEMMA EncodedIs == ASSUME NEW s PROVE Encoded(s) = [id \in Id |-> Coded(s[id])]
BY Zenon DEF Encoded, Coded

LEMMA EncodedSnapshot ==
  ASSUME NEW s \in Snapshot
  PROVE  /\ Encoded(s) \in Snapshot /\ Encoded(Encoded(s)) = Encoded(s)
         /\ \A id \in Id :
              /\ Encoded(s)[id] = NoEntry <=> s[id] = NoEntry
              /\ s[id] # NoEntry => Encoded(s)[id].expiresAt = s[id].expiresAt
<1>1. \A id \in Id : s[id] \in Entry \cup {NoEntry}
  BY DEF Snapshot
<1>2. Encoded(s) = [id \in Id |-> Coded(s[id])]
  BY EncodedIs
<1>3. Encoded(Encoded(s)) = [id \in Id |-> Coded(Encoded(s)[id])]
  BY EncodedIs
<1> QED BY <1>1, <1>2, <1>3, CodedEntry DEF Snapshot

LEMMA NothingSnapshot == Nothing \in Snapshot /\ Encoded(Nothing) = Nothing
BY DEF Nothing, Snapshot, Encoded

(* An entry that is replaced changes only itself, and one that has expired *)
(* is not missed.                                                          *)
LEMMA OneEntry ==
  ASSUME NEW s \in Snapshot, NEW t \in Snapshot, NEW id \in Id,
         \A i \in Id \ {id} : t[i] = s[i]
  PROVE  \A i \in Id \ {id} : /\ Live(t)[i] = Live(s)[i]
                              /\ Live(Encoded(t))[i] = Live(Encoded(s))[i]
<1>1. \A i \in Id \ {id} : Encoded(t)[i] = Encoded(s)[i]
  BY DEF Encoded
<1> QED BY <1>1 DEF Live

LEMMA ExpiredUnseen ==
  ASSUME NEW s \in Snapshot, NEW t \in Snapshot,
         \A id \in Id : t[id] = s[id] \/ (t[id] = NoEntry /\ Expired(s[id], now))
  PROVE  Live(t) = Live(s) /\ Live(Encoded(t)) = Live(Encoded(s))
<1>1. \A id \in Id : Expired(Encoded(s)[id], now) <=> Expired(s[id], now)
  BY EncodedSnapshot DEF Expired
<1>2. ~Expired(NoEntry, now)
  BY DEF Expired
<1>3. \A id \in Id : Live(t)[id] = Live(s)[id]
  BY <1>2 DEF Live
<1>4. \A id \in Id : Encoded(t)[id] = Encoded(s)[id] \/ (Encoded(t)[id] = NoEntry /\ Expired(s[id], now))
  BY DEF Encoded
<1>5. \A id \in Id : Live(Encoded(t))[id] = Live(Encoded(s))[id]
  BY <1>1, <1>2, <1>4 DEF Live
<1> QED BY <1>3, <1>5 DEF Live

LEMMA DeletedSnapshot ==
  ASSUME sessions \in Snapshot, NEW id \in Id
  PROVE  /\ Deleted(id) \in Snapshot
         /\ Expired(sessions[id], now) => /\ Live(Deleted(id)) = Live(sessions)
                                          /\ Live(Encoded(Deleted(id))) = Live(Encoded(sessions))
<1>1. Deleted(id) \in Snapshot /\ Deleted(id)[id] = NoEntry
      /\ \A i \in Id \ {id} : Deleted(id)[i] = sessions[i]
  BY DEF Deleted, Snapshot
<1> QED BY <1>1, ExpiredUnseen

(* A flush: what it stores is what the map shows then.                     *)
LEMMA FlushKeeps ==
  ASSUME Stored, up, Persistent, NEW changed \in Snapshot, NEW ok \in BOOLEAN,
         FlushLocked(changed, ok), UNCHANGED <<setup, up, now>>,
         ok => sessions' = changed,
         ~ok => Live(Encoded(sessions')) = Live(Encoded(sessions))
  PROVE  Readable' /\ FileShowsSessions'
<1>1. Encoded(changed) \in Snapshot /\ Encoded(Encoded(changed)) = Encoded(changed)
      /\ Torn \notin Snapshot /\ damaged \in BOOLEAN
  BY EncodedSnapshot, SessionAssumption DEF Snapshot, Stored
<1>0. Live(file)' = Live(file') /\ Live(Encoded(sessions))' = Live(Encoded(sessions'))
  BY DEF Live, Expired, Persistent, Encoded
<1>2. CASE ok
  <2>1. file' = Encoded(changed) /\ sessions' = changed
    BY <1>2 DEF FlushLocked
  <2>2. Encoded(file') = file'
    BY <1>1, <2>1
  <2>3. Encoded(sessions') = file'
    BY <2>1
  <2>4. Readable'
    BY <1>1, <2>1, <2>2 DEF Readable
  <2> QED BY <1>0, <1>1, <2>1, <2>3, <2>4 DEF FileShowsSessions
<1>3. CASE ~ok /\ file' = file /\ damaged' = damaged
  <2>1. Readable' /\ Live(Encoded(sessions')) = Live(Encoded(sessions))
    BY <1>3 DEF Stored, Readable
  <2> QED BY <1>0, <1>3, <2>1 DEF Stored, FileShowsSessions, Persistent
<1>4. CASE ~ok /\ file' \in {Nothing, Torn, Encoded(changed)} /\ damaged'
  <2>1. Readable'
    BY <1>1, <1>4, NothingSnapshot DEF Readable
  <2> QED BY <1>4, <2>1 DEF FileShowsSessions
<1>5. CASE ~ok /\ file' # file
  <2>1. damaged' /\ file' \in Unfinished(changed) /\ Encodable(changed)
    BY <1>5 DEF FlushLocked
  <2>2. file' \in {Nothing, Torn, Encoded(changed)}
    BY <1>5, <2>1 DEF Unfinished
  <2> QED BY <1>4, <1>5, <2>1, <2>2
<1>6. CASE ~ok /\ file' = file
  <2>1. damaged' = damaged
    BY <1>1, <1>6 DEF FlushLocked
  <2> QED BY <1>3, <1>6, <2>1
<1> QED BY <1>2, <1>5, <1>6

LEMMA ShownUp ==
  ASSUME up, UNCHANGED <<setup, up, now>>
  PROVE  /\ Shown = Live(IF Persistent THEN Encoded(sessions) ELSE sessions)
         /\ Shown' = Live(IF Persistent THEN Encoded(sessions') ELSE sessions')
<1>1. Shown' = Live(IF Persistent' THEN Encoded(sessions') ELSE sessions')
  BY DEF Shown, Live, Expired, Persistent, Encoded
<1>2. Persistent' <=> Persistent
  BY DEF Persistent
<1> QED BY <1>1, <1>2 DEF Shown

LEMMA StillStored ==
  ASSUME Stored, UNCHANGED <<setup, sessions, file, up, now, damaged>>
  PROVE  Stored' /\ Shown' = Shown
<1>1. Live(file)' = Live(file) /\ Live(Encoded(sessions))' = Live(Encoded(sessions))
  BY DEF Live, Expired, Persistent, Encoded
<1>2. Shown' = Shown
  BY DEF Shown, Live, Expired, Persistent, Encoded, Nothing
<1> QED BY <1>1, <1>2 DEF Stored, Readable, FileShowsSessions, Persistent

LEMMA LoadQuiet ==
  ASSUME Stored, up, NEW id \in Id, NEW answer, Load(id, answer)
  PROVE  Stored' /\ UNCHANGED <<up, now>> /\ Shown' = Shown
<1>1. UNCHANGED <<setup, up, now>> /\ sessions \in Snapshot
  BY DEF Load, Stored
<1>2. CASE UNCHANGED <<sessions, file, damaged>>
  BY <1>1, <1>2, StillStored
<1>3. CASE Persistent /\ Expired(sessions[id], now) /\ sessions' = Deleted(id)
             /\ \E ok \in BOOLEAN : FlushLocked(Deleted(id), ok)
  <2>1. PICK ok \in BOOLEAN : FlushLocked(Deleted(id), ok)
    BY <1>3
  <2>2. /\ sessions' \in Snapshot /\ Deleted(id) \in Snapshot
        /\ Live(Encoded(sessions')) = Live(Encoded(sessions))
    BY <1>1, <1>3, DeletedSnapshot
  <2>3. Readable' /\ FileShowsSessions' /\ damaged' \in BOOLEAN
    <3>1. damaged' \in BOOLEAN
      BY <2>1 DEF FlushLocked, Stored
    <3> QED BY <1>1, <1>3, <2>1, <2>2, <3>1, FlushKeeps
  <2>4. Shown' = Shown
    BY <1>1, <1>3, <2>2, ShownUp
  <2> QED BY <1>1, <2>2, <2>3, <2>4 DEF Stored
<1> QED BY <1>2, <1>3 DEF Load

LEMMA PurgeQuiet ==
  ASSUME Stored, up, now \in Nat, NEW id \in Id, NEW time \in Nat, time <= now, Purge(id, time)
  PROVE  Stored' /\ UNCHANGED <<up, now>> /\ Shown' = Shown
<1>1. UNCHANGED <<setup, file, up, now, damaged>> /\ sessions \in Snapshot
  BY DEF Purge, Stored
<1>2. CASE sessions' = sessions
  BY <1>1, <1>2, StillStored
<1>3. CASE Expired(sessions[id], time) /\ sessions' = Deleted(id)
  <2>1. sessions[id] \in Entry
    BY <1>1, <1>3 DEF Snapshot, Expired
  <2>2. sessions[id].expiresAt \in Nat
    BY <2>1 DEF Entry
  <2>3. Expired(sessions[id], now)
    BY <1>3, <2>2 DEF Expired
  <2>4. /\ sessions' \in Snapshot /\ Live(sessions') = Live(sessions)
        /\ Live(Encoded(sessions')) = Live(Encoded(sessions))
    BY <1>1, <1>3, <2>3, DeletedSnapshot
  <2>5. Shown' = Shown
    BY <1>1, <2>4, ShownUp
  <2>6. Readable' /\ FileShowsSessions'
    <3>1. Live(file)' = Live(file) /\ Live(Encoded(sessions))' = Live(Encoded(sessions'))
      BY <1>1 DEF Live, Expired, Persistent, Encoded
    <3> QED BY <1>1, <2>4, <3>1 DEF Stored, Readable, FileShowsSessions, Persistent
  <2> QED BY <1>1, <2>4, <2>5, <2>6 DEF Stored
<1> QED BY <1>2, <1>3 DEF Purge

LEMMA CommitWrites ==
  ASSUME Stored, up, NEW id \in Id, NEW changed \in Snapshot, NEW ok \in BOOLEAN,
         \A i \in Id \ {id} : changed[i] = sessions[i], Commit(changed, ok)
  PROVE  /\ Stored' /\ UNCHANGED <<up, now>>
         /\ ~ok => Shown' = Shown
         /\ \A i \in Id \ {id} : Shown'[i] = Shown[i]
<1>1. UNCHANGED <<setup, up, now>> /\ sessions \in Snapshot
  BY DEF Commit, Stored
<1>2. \A i \in Id \ {id} : /\ Live(changed)[i] = Live(sessions)[i]
                           /\ Live(Encoded(changed))[i] = Live(Encoded(sessions))[i]
  BY <1>1, OneEntry
<1>3. CASE ~ok /\ UNCHANGED <<sessions, file, damaged>>
  BY <1>1, <1>3, StillStored
<1>4. CASE Persistent /\ FlushLocked(changed, ok) /\ sessions' = IF ok THEN changed ELSE sessions
  <2>1. damaged' \in BOOLEAN
    BY <1>4 DEF FlushLocked, Stored
  <2>2. Readable' /\ FileShowsSessions'
    BY <1>1, <1>4, FlushKeeps
  <2>3. (~ok => Shown' = Shown) /\ \A i \in Id \ {id} : Shown'[i] = Shown[i]
    BY <1>1, <1>2, <1>4, ShownUp
  <2> QED BY <1>1, <1>4, <2>1, <2>2, <2>3 DEF Stored
<1>5. CASE ~Persistent /\ ok /\ sessions' = changed /\ UNCHANGED <<file, damaged>>
  <2>1. \A i \in Id \ {id} : Shown'[i] = Shown[i]
    BY <1>1, <1>2, <1>5, ShownUp
  <2>2. Readable' /\ FileShowsSessions'
    BY <1>1, <1>5 DEF Stored, Readable, FileShowsSessions, Persistent
  <2> QED BY <1>1, <1>5, <2>1, <2>2 DEF Stored
<1> QED BY <1>3, <1>4, <1>5 DEF Commit
-----------------------------------------------------------------------------
Promise == Stored /\ PurgesInTime

(* A step of a request that writes nothing, or what callers do not see.    *)
LEMMA QuietRequest ==
  ASSUME Inv, Promise, up, NEW r \in Request, NEW new, Become(r, new),
         new.wrote = request[r].wrote, new.at = "purge" => new.since <= now,
         Stored', UNCHANGED <<up, now>>, Shown' = Shown
  PROVE  Promise' /\ Store!Refuse
<1>1. DOMAIN request = Request /\ request' = [request EXCEPT ![r] = new]
  BY DEF Inv, Become
<1>2. Acked' = Acked
  BY <1>1 DEF Acked
<1>3. PurgesInTime'
  BY <1>1 DEF Promise, PurgesInTime
<1> QED BY <1>2, <1>3 DEF Promise, Shown, Acked, Store!Refuse

LEMMA RequestAlone ==
  ASSUME Inv, Promise, up, NEW r \in Request, NEW new, Become(r, new), UNCHANGED storageVars,
         new.wrote = request[r].wrote, new.at # "purge"
  PROVE  Promise' /\ Store!Refuse
<1>1. Stored' /\ UNCHANGED <<up, now>> /\ Shown' = Shown
  BY StillStored DEF Promise, storageVars
<1> QED BY <1>1, QuietRequest

(* What was written is not touched by what becomes of the response.        *)
Written(q) == q = [f \in DOMAIN q |-> q[f]] /\ {"at", "wrote"} \subseteq DOMAIN q

LEMMA RecordWritten == ASSUME NEW q \in RequestRecord PROVE Written(q)
BY DEF Written, RequestRecord

LEMMA SessionWritten ==
  ASSUME NEW q, Written(q), NEW s \in Sessions(q)
  PROVE  Written(s) /\ s.wrote = q.wrote
<1>1. CASE s = q
  BY <1>1
<1>2. CASE s = Clear(q)
  BY <1>2 DEF Clear, Written
<1>3. CASE s = DeleteKey(q)
  BY <1>3 DEF DeleteKey, Written
<1>4. ASSUME NEW d, s = Set(q, d) PROVE Written(s) /\ s.wrote = q.wrote
  BY <1>4 DEF Set, Written
<1> QED BY <1>1, <1>2, <1>3, <1>4 DEF Sessions

LEMMA PanickedWritten ==
  ASSUME NEW q, Written(q)
  PROVE  Panicked(q).wrote = q.wrote /\ Panicked(q).at # "purge"
BY DEF Written, Panicked

LEMMA ClosedWritten ==
  ASSUME NEW q, Written(q), NEW m
  PROVE  Written(Closed(q, m)) /\ Closed(q, m).wrote = q.wrote
BY DEF Written, Closed

LEMMA AnsweredWritten ==
  ASSUME NEW q, Written(q), NEW m, NEW withFile
  PROVE  Written(Answered(q, m, withFile)) /\ Answered(q, m, withFile).wrote = q.wrote
BY DEF Written, Answered

(* A request that goes to another step, or panics, and writes nothing.     *)
Moves(r) == \E new : Become(r, new) /\ new.wrote = request[r].wrote /\ new.at # "purge"

LEMMA GoesOn ==
  ASSUME NEW r, NEW p, Written(p), p.wrote = request[r].wrote, NEW place, place # "purge",
         Become(r, [p EXCEPT !.at = place])
  PROVE  Moves(r)
<1> DEFINE new == [p EXCEPT !.at = place]
<1>1. new.wrote = request[r].wrote /\ new.at # "purge"
  BY DEF Written
<1>2. Become(r, new)
  OBVIOUS
<1> HIDE DEF new
<1> QED BY <1>1, <1>2, Zenon DEF Moves

LEMMA Panics ==
  ASSUME NEW r, NEW p, Written(p), p.wrote = request[r].wrote, Become(r, Panicked(p))
  PROVE  Moves(r)
<1>1. Panicked(p).wrote = request[r].wrote /\ Panicked(p).at # "purge"
  BY PanickedWritten
<1> QED BY <1>1, Zenon DEF Moves

(* All that the kernel does but for its session.                           *)
LEMMA HandleMoves ==
  ASSUME NEW r \in Request, Written(request[r]), Handle(r)
  PROVE  Moves(r)
<1>1. PICK s \in Sessions(request[r]), streams \in BOOLEAN, withFile \in BOOLEAN,
           result \in {"response", "nothing", "error", "both", "panic"} :
        /\ Wild(r) \/ (~streams /\ ~withFile /\ result = "response")
        /\ withFile => result \in {"response", "both"}
        /\ LET t == IF streams THEN [s EXCEPT !.streamed = TRUE, !.heads = 1] ELSE s IN
           Become(r, CASE result = "response" ->
                            [Answered(t, "handler", withFile) EXCEPT !.at = "response"]
                       [] result = "nothing" -> [t EXCEPT !.at = "persist"]
                       [] result = "error" -> [t EXCEPT !.at = "error"]
                       [] result = "both" ->
                            [Answered(t, "handler", withFile) EXCEPT !.at = "error"]
                       [] result = "panic" -> Panicked(t))
  BY Zenon DEF Handle
<1> DEFINE t == IF streams THEN [s EXCEPT !.streamed = TRUE, !.heads = 1] ELSE s
           a == Answered(t, "handler", withFile)
<1>2. Written(s) /\ s.wrote = request[r].wrote
  BY SessionWritten
<1>3. Written(t) /\ t.wrote = request[r].wrote
  BY <1>2 DEF Written
<1>4. Become(r, CASE result = "response" -> [a EXCEPT !.at = "response"]
                  [] result = "nothing" -> [t EXCEPT !.at = "persist"]
                  [] result = "error" -> [t EXCEPT !.at = "error"]
                  [] result = "both" -> [a EXCEPT !.at = "error"]
                  [] result = "panic" -> Panicked(t))
  BY <1>1
<1> HIDE DEF t
<1>5. Written(a) /\ a.wrote = request[r].wrote
  BY <1>3, AnsweredWritten
<1> HIDE DEF a
<1>6. CASE Become(r, [a EXCEPT !.at = "response"])
  BY <1>5, <1>6, GoesOn, Zenon
<1>7. CASE Become(r, [t EXCEPT !.at = "persist"])
  BY <1>3, <1>7, GoesOn, Zenon
<1>8. CASE Become(r, [t EXCEPT !.at = "error"])
  BY <1>3, <1>8, GoesOn, Zenon
<1>9. CASE Become(r, [a EXCEPT !.at = "error"])
  BY <1>5, <1>9, GoesOn, Zenon
<1>10. CASE Become(r, Panicked(t))
  BY <1>3, <1>10, Panics
<1> QED BY <1>4, <1>6, <1>7, <1>8, <1>9, <1>10

LEMMA ListenMoves ==
  ASSUME NEW r \in Request, Written(request[r]), OnRequest(r) \/ OnController(r)
  PROVE  Moves(r)
<1>1. PICK next \in {"controller", "handle"} :
        \/ Become(r, [request[r] EXCEPT !.at = next])
        \/ \E withFile \in BOOLEAN :
             Become(r, [Answered(request[r], "handler", withFile) EXCEPT !.at = "response"])
  BY Zenon DEF OnRequest, OnController, Listen
<1>2. CASE Become(r, [request[r] EXCEPT !.at = next])
  <2>1. next # "purge"
    OBVIOUS
  <2> QED BY <1>2, <2>1, GoesOn, Zenon
<1>3. ASSUME NEW withFile,
             Become(r, [Answered(request[r], "handler", withFile) EXCEPT !.at = "response"])
      PROVE  Moves(r)
  <2>1. Written(Answered(request[r], "handler", withFile))
        /\ Answered(request[r], "handler", withFile).wrote = request[r].wrote
    BY AnsweredWritten
  <2> QED BY <1>3, <2>1, GoesOn, Zenon
<1> QED BY <1>1, <1>2, <1>3, Zenon

LEMMA ExceptionMoves ==
  ASSUME NEW r \in Request, Written(request[r]), OnException(r) \/ Recover(r)
  PROVE  Moves(r)
<1> DEFINE q == request[r]
           failed == [q EXCEPT !.refused = TRUE]
           without == Closed(q, q.response)
<1>1. Written(failed) /\ failed.wrote = q.wrote
  BY DEF Written
<1>2. Written(without) /\ without.wrote = q.wrote
  BY ClosedWritten, Zenon
<1>3. \/ Become(r, Panicked(failed))
      \/ \E withFile \in BOOLEAN :
           Become(r, [Answered(without, "exception", withFile) EXCEPT !.at = "response"])
      \/ \E withFile \in BOOLEAN :
           Become(r, [Answered(q, "recovery", withFile) EXCEPT !.at = "response"])
  BY Zenon DEF OnException, Recover
<1> HIDE DEF failed, without
<1>4. CASE Become(r, Panicked(failed))
  BY <1>1, <1>4, Panics
<1>5. ASSUME NEW withFile,
             Become(r, [Answered(without, "exception", withFile) EXCEPT !.at = "response"])
      PROVE  Moves(r)
  <2>1. Written(Answered(without, "exception", withFile))
        /\ Answered(without, "exception", withFile).wrote = q.wrote
    BY <1>2, AnsweredWritten
  <2> QED BY <1>5, <2>1, GoesOn, Zenon
<1>6. ASSUME NEW withFile, Become(r, [Answered(q, "recovery", withFile) EXCEPT !.at = "response"])
      PROVE  Moves(r)
  <2>1. Written(Answered(q, "recovery", withFile)) /\ Answered(q, "recovery", withFile).wrote = q.wrote
    BY AnsweredWritten
  <2> QED BY <1>6, <2>1, GoesOn, Zenon
<1> QED BY <1>3, <1>4, <1>5, <1>6, Zenon

LEMMA ResponseMoves ==
  ASSUME NEW r \in Request, Written(request[r]), OnResponse(r)
  PROVE  Moves(r)
<1> DEFINE q == request[r]
           maker == IF q.recovering THEN "relistener" ELSE "listener"
           without == Closed(q, q.response)
           given == [without EXCEPT !.response = NoResponse, !.setCookie = "none"]
<1>1. Written(without) /\ without.wrote = q.wrote
  BY ClosedWritten, Zenon
<1>2. \/ Become(r, [q EXCEPT !.at = "persist"])
      \/ \E withFile \in BOOLEAN :
           Become(r, [Answered(without, maker, withFile) EXCEPT !.at = "persist"])
      \/ Become(r, [without EXCEPT !.response = NoResponse, !.setCookie = "none", !.at = "persist"])
  BY Zenon DEF OnResponse
<1> HIDE DEF without, maker
<1>3. CASE Become(r, [q EXCEPT !.at = "persist"])
  BY <1>3, GoesOn, Zenon
<1>4. ASSUME NEW withFile, Become(r, [Answered(without, maker, withFile) EXCEPT !.at = "persist"])
      PROVE  Moves(r)
  <2>1. Written(Answered(without, maker, withFile))
        /\ Answered(without, maker, withFile).wrote = q.wrote
    BY <1>1, AnsweredWritten
  <2> QED BY <1>4, <2>1, GoesOn, Zenon
<1>5. CASE Become(r, [without EXCEPT !.response = NoResponse, !.setCookie = "none", !.at = "persist"])
  <2>1. Written(given) /\ given.wrote = q.wrote
    BY <1>1 DEF Written
  <2>2. Become(r, [given EXCEPT !.at = "persist"])
    BY <1>5, Zenon
  <2> HIDE DEF given
  <2> QED BY <2>1, <2>2, GoesOn, Zenon
<1> QED BY <1>2, <1>3, <1>4, <1>5, Zenon

LEMMA WriteMoves ==
  ASSUME NEW r \in Request, Written(request[r]), Write(r)
  PROVE  Moves(r)
<1> DEFINE q == request[r]
           without == Closed(q, q.response)
           sent == [without EXCEPT !.heads = @ + 1, !.sentCookie = q.setCookie]
<1>1. Written(without) /\ without.wrote = q.wrote
  BY ClosedWritten, Zenon
<1>2. \/ Become(r, [without EXCEPT !.at = "terminate"])
      \/ Become(r, [sent EXCEPT !.at = "terminate"])
      \/ Become(r, Panicked(sent))
  BY Zenon DEF Write
<1> HIDE DEF without
<1>3. Written(sent) /\ sent.wrote = q.wrote
  BY <1>1 DEF Written
<1> HIDE DEF sent
<1>4. CASE Become(r, [without EXCEPT !.at = "terminate"])
  BY <1>1, <1>4, GoesOn, Zenon
<1>5. CASE Become(r, [sent EXCEPT !.at = "terminate"])
  BY <1>3, <1>5, GoesOn, Zenon
<1>6. CASE Become(r, Panicked(sent))
  BY <1>3, <1>6, Panics
<1> QED BY <1>2, <1>4, <1>5, <1>6

LEMMA EndMoves ==
  ASSUME NEW r \in Request, Written(request[r]), Accept(r) \/ Finish(r)
  PROVE  Moves(r)
<1> DEFINE q == request[r]
<1>1. CASE Accept(r)
  <2> DEFINE p == [q EXCEPT !.cookie = jar, !.scopes = 1]
             place == IF jar = NoCookie THEN "fresh" ELSE "load"
  <2>1. Written(p) /\ p.wrote = q.wrote
    BY DEF Written
  <2>2. Become(r, [p EXCEPT !.at = place])
    BY <1>1, Zenon DEF Accept
  <2>3. place # "purge"
    OBVIOUS
  <2> HIDE DEF p, place
  <2> QED BY <2>1, <2>2, <2>3, GoesOn, Zenon
<1>2. CASE Finish(r)
  <2> DEFINE new == [NewRequest EXCEPT
                       !.at = "done", !.id = q.id, !.files = q.files, !.closes = q.closes,
                       !.closedTwice = q.closedTwice, !.heads = q.heads, !.wrote = q.wrote,
                       !.sentCookie = q.sentCookie, !.streamed = q.streamed, !.refused = q.refused,
                       !.aborted = q.aborted, !.scopes = q.scopes - 1,
                       !.terminated = IF q.at = "terminate" THEN q.terminated + 1 ELSE q.terminated]
  <2>1. new.wrote = q.wrote /\ new.at = "done"
    BY DEF NewRequest
  <2>2. Become(r, new)
    BY <1>2, Zenon DEF Finish
  <2>3. new.at # "purge"
    BY <2>1
  <2> HIDE DEF new
  <2> QED BY <2>1, <2>2, <2>3, Zenon DEF Moves
<1> QED BY <1>1, <1>2

LEMMA Unwritten ==
  ASSUME Inv, Promise, NEW r \in Request,
         \/ Accept(r) \/ OnRequest(r) \/ OnController(r) \/ Handle(r) \/ OnException(r)
         \/ OnResponse(r) \/ Write(r) \/ Recover(r) \/ Finish(r)
  PROVE  Promise' /\ Store!Refuse
<1>1. Written(request[r])
  BY RecordWritten DEF Inv, Sound
<1>2. up /\ UNCHANGED storageVars
  BY Zenon DEF Accept, OnRequest, OnController, Listen, Handle, OnException, OnResponse, Write, Recover, Finish, At
<1>3. Moves(r)
  BY <1>1, HandleMoves, ListenMoves, ExceptionMoves, ResponseMoves, WriteMoves, EndMoves, Zenon
<1>4. PICK new : Become(r, new) /\ new.wrote = request[r].wrote /\ new.at # "purge"
  BY <1>3, Zenon DEF Moves
<1> QED BY <1>2, <1>4, RequestAlone

(* The session at the start of a request.                                  *)
LEMMA LoadSessionKeepsPromise ==
  ASSUME Inv, Promise, NEW r \in Request, LoadSession(r)
  PROVE  Promise' /\ Store!Refuse
<1> DEFINE q == request[r]
<1>1. up /\ q.cookie \in Id /\ Written(q) /\ now <= now
  BY RecordWritten DEF LoadSession, At, Inv, Sound, Ends
<1>2. PICK answer \in Data \cup {"missing", "failed"} :
        /\ Load(q.cookie, answer)
        /\ Become(r, CASE answer = "failed" ->
                            [q EXCEPT !.aborted = TRUE, !.refused = TRUE, !.at = "scope"]
                       [] answer = "missing" ->
                            IF ~Persistent /\ sessions[q.cookie] # NoEntry
                            THEN [q EXCEPT !.since = now, !.at = "purge"]
                            ELSE [q EXCEPT !.at = "fresh"]
                       [] OTHER ->
                            [q EXCEPT !.id = q.cookie, !.data = answer, !.at = "request"])
  BY Zenon DEF LoadSession
<1>3. Stored' /\ UNCHANGED <<up, now>> /\ Shown' = Shown
  BY <1>1, <1>2, LoadQuiet DEF Promise
<1> DEFINE new == CASE answer = "failed" ->
                         [q EXCEPT !.aborted = TRUE, !.refused = TRUE, !.at = "scope"]
                    [] answer = "missing" ->
                         IF ~Persistent /\ sessions[q.cookie] # NoEntry
                         THEN [q EXCEPT !.since = now, !.at = "purge"]
                         ELSE [q EXCEPT !.at = "fresh"]
                    [] OTHER ->
                         [q EXCEPT !.id = q.cookie, !.data = answer, !.at = "request"]
<1>4. new \in {[q EXCEPT !.aborted = TRUE, !.refused = TRUE, !.at = "scope"],
               [q EXCEPT !.since = now, !.at = "purge"], [q EXCEPT !.at = "fresh"],
               [q EXCEPT !.id = q.cookie, !.data = answer, !.at = "request"]}
  OBVIOUS
<1>5. Become(r, new)
  BY <1>2
<1> HIDE DEF new
<1>6. new.wrote = q.wrote /\ (new.at = "purge" => new.since <= now)
  <2>1. CASE new = [q EXCEPT !.since = now, !.at = "purge"]
    <3>1. new.wrote = q.wrote
      BY <1>1, <2>1 DEF Written
    <3>2. "since" \in DOMAIN q
      BY DEF Inv, Sound, RequestRecord
    <3>3. new.since = now
      BY <2>1, <3>2
    <3> QED BY <1>1, <3>1, <3>3
  <2>2. CASE new = [q EXCEPT !.aborted = TRUE, !.refused = TRUE, !.at = "scope"]
    BY <1>1, <2>2 DEF Written
  <2>3. CASE new = [q EXCEPT !.at = "fresh"]
    BY <1>1, <2>3 DEF Written
  <2>4. CASE new = [q EXCEPT !.id = q.cookie, !.data = answer, !.at = "request"]
    BY <1>1, <2>4 DEF Written
  <2> QED BY <1>4, <2>1, <2>2, <2>3, <2>4
<1> QED BY <1>1, <1>3, <1>5, <1>6, QuietRequest

LEMMA PurgeSessionKeepsPromise ==
  ASSUME Inv, Promise, NEW r \in Request, PurgeSession(r)
  PROVE  Promise' /\ Store!Refuse
<1> DEFINE q == request[r]
           new == [q EXCEPT !.since = 0, !.at = "fresh"]
<1>1. up /\ q.cookie \in Id /\ Written(q) /\ q.since \in Nat /\ q.since <= now /\ now \in Nat
  <2>1. q \in RequestRecord /\ At(r, "purge") /\ Ends(q)
    BY DEF PurgeSession, Inv, Sound
  <2>2. q.cookie \in Id
    BY <2>1 DEF Ends, At
  <2>3. q.since \in Nat /\ Written(q)
    BY <2>1, RecordWritten DEF RequestRecord
  <2> QED BY <2>1, <2>2, <2>3 DEF At, Inv, Promise, PurgesInTime
<1>2. Purge(q.cookie, q.since) /\ Become(r, new)
  BY DEF PurgeSession
<1>3. Stored' /\ UNCHANGED <<up, now>> /\ Shown' = Shown
  BY <1>1, <1>2, PurgeQuiet DEF Promise
<1>4. new.wrote = q.wrote /\ new.at # "purge"
  BY <1>1 DEF Written
<1> HIDE DEF new
<1> QED BY <1>1, <1>2, <1>3, <1>4, QuietRequest

LEMMA NewSessionKeepsPromise ==
  ASSUME Inv, Promise, NEW r \in Request, NewSession(r)
  PROVE  Promise' /\ Store!Refuse
<1> DEFINE q == request[r]
<1>1. up /\ Drawn[r] \in Id /\ Written(q)
  BY RecordWritten DEF NewSession, At, Inv, Sound
<1>2. PICK answer \in {"missing", "failed"} :
        /\ Load(Drawn[r], answer)
        /\ Become(r, IF answer = "failed"
                     THEN [q EXCEPT !.aborted = TRUE, !.refused = TRUE, !.at = "scope"]
                     ELSE [q EXCEPT !.id = Drawn[r], !.at = "request"])
  BY Zenon DEF NewSession
<1>3. Stored' /\ UNCHANGED <<up, now>> /\ Shown' = Shown
  BY <1>1, <1>2, LoadQuiet DEF Promise
<1> DEFINE new == IF answer = "failed"
                  THEN [q EXCEPT !.aborted = TRUE, !.refused = TRUE, !.at = "scope"]
                  ELSE [q EXCEPT !.id = Drawn[r], !.at = "request"]
<1>4. new.wrote = q.wrote /\ new.at # "purge"
  BY <1>1 DEF Written
<1>5. Become(r, new)
  BY <1>2
<1> HIDE DEF new
<1> QED BY <1>1, <1>3, <1>4, <1>5, QuietRequest

(* The one write of a request: it is acknowledged by that very change.     *)
LEMMA Acknowledges ==
  ASSUME Inv, Promise, up, NEW r \in Request, NEW new, Become(r, new),
         request[r].wrote = "nothing", new.wrote # "nothing", new.at # "purge",
         Stored', UNCHANGED <<up, now>>,
         NEW id \in Id, \A i \in Id \ {id} : Shown'[i] = Shown[i]
  PROVE  Promise' /\ Store!Write(r)
<1>1. DOMAIN request = Request /\ request' = [request EXCEPT ![r] = new]
  BY DEF Inv, Become
<1>2. Acked' = Acked \cup {r} /\ r \notin Acked
  BY <1>1 DEF Acked
<1>3. PurgesInTime'
  BY <1>1 DEF Promise, PurgesInTime
<1>4. up /\ UNCHANGED <<up, now>> /\ \E i \in Id : \A other \in Id \ {i} : Shown'[other] = Shown[other]
  OBVIOUS
<1> QED BY <1>2, <1>3, <1>4 DEF Promise, Shown, Acked, Store!Write, Store!OneChange

LEMMA PersistKeepsPromise ==
  ASSUME Inv, Promise, NEW r \in Request, Persist(r)
  PROVE  Promise' /\ (Store!Refuse \/ Store!Write(r))
<1> DEFINE q == request[r]
           stored(what, cookie) ==
             [q EXCEPT !.persisted = TRUE, !.wrote = what, !.setCookie = cookie, !.at = "write"]
           failed == [q EXCEPT !.refused = TRUE]
           skipped == [q EXCEPT !.persisted = TRUE, !.at = "write"]
<1>1. q \in RequestRecord /\ Written(q) /\ up /\ q.at = "persist" /\ q.id \in Id /\ q.data \in Data
  <2>1. Sound(q) /\ At(r, "persist")
    BY DEF Inv, Persist
  <2>2. q \in RequestRecord /\ Ends(q) /\ q.at \in Serving \ {"load", "purge", "fresh", "scope"}
    BY <2>1 DEF Sound, At, Serving
  <2>3. q.id \in Id
    BY <2>2 DEF Ends
  <2>4. q.data \in Data
    BY <2>2 DEF RequestRecord
  <2> QED BY <2>1, <2>2, <2>3, <2>4, RecordWritten DEF At
<1>2. ~q.persisted => q.wrote = "nothing"
  BY <1>1 DEF Inv, Sound, Tells, Serving
<1>3. Panicked(failed).wrote = q.wrote /\ Panicked(failed).at # "purge"
  <2>1. Written(failed) /\ failed.wrote = q.wrote
    BY <1>1 DEF Written
  <2> QED BY <2>1, PanickedWritten
<1>4. \A what \in {"saved", "deleted"} : \A cookie :
        stored(what, cookie).wrote = what /\ stored(what, cookie).at # "purge"
  BY <1>1 DEF Written
<1>5. skipped.wrote = q.wrote /\ skipped.at # "purge"
  BY <1>1 DEF Written
<1>6. ASSUME NEW ok \in BOOLEAN, NEW changed \in Snapshot, NEW what \in {"saved", "deleted"},
             NEW cookie, ~q.persisted, \A i \in Id \ {q.id} : changed[i] = sessions[i],
             Commit(changed, ok), Become(r, IF ok THEN stored(what, cookie) ELSE Panicked(failed))
      PROVE  Promise' /\ (Store!Refuse \/ Store!Write(r))
  <2>1. /\ Stored' /\ UNCHANGED <<up, now>>
        /\ ~ok => Shown' = Shown
        /\ \A i \in Id \ {q.id} : Shown'[i] = Shown[i]
    BY <1>1, <1>6, CommitWrites DEF Promise
  <2> HIDE DEF failed
  <2>2. CASE ok
    <3> DEFINE new == stored(what, cookie)
    <3>1. Become(r, new) /\ new.wrote # "nothing" /\ new.at # "purge"
      BY <1>4, <1>6, <2>2
    <3> HIDE DEF new
    <3> QED BY <1>1, <1>2, <1>6, <2>1, <3>1, Acknowledges
  <2>3. CASE ~ok
    <3>1. Become(r, Panicked(failed))
      BY <1>6, <2>3
    <3> QED BY <1>1, <1>3, <2>1, <2>3, <3>1, QuietRequest
  <2> QED BY <2>2, <2>3
<1>7. \/ ~q.persisted /\ q.cleared /\ \E ok \in BOOLEAN :
           Delete(q.id, ok) /\ Become(r, IF ok THEN stored("deleted", "expire") ELSE Panicked(failed))
      \/ ~q.persisted /\ \E ok \in BOOLEAN :
           Save(q.id, q.data, ok) /\ Become(r, IF ok THEN stored("saved", "id") ELSE Panicked(failed))
      \/ Become(r, skipped) /\ UNCHANGED storageVars
  BY Zenon DEF Persist
<1>8. ASSUME NEW ok \in BOOLEAN, ~q.persisted, Delete(q.id, ok),
             Become(r, IF ok THEN stored("deleted", "expire") ELSE Panicked(failed))
      PROVE  Promise' /\ (Store!Refuse \/ Store!Write(r))
  <2>1. CASE ok /\ UNCHANGED storageVars
    <3> DEFINE new == stored("deleted", "expire")
    <3>1. Become(r, new) /\ new.wrote # "nothing" /\ new.at # "purge"
      BY <1>4, <1>8, <2>1
    <3> HIDE DEF new
    <3>2. Stored' /\ UNCHANGED <<up, now>> /\ Shown' = Shown
      BY <2>1, StillStored DEF Promise, storageVars
    <3> QED BY <1>1, <1>2, <1>8, <3>1, <3>2, Acknowledges
  <2>2. CASE Commit(Deleted(q.id), ok)
    <3>1. "deleted" \in {"saved", "deleted"}
      OBVIOUS
    <3>2. Deleted(q.id) \in Snapshot /\ \A i \in Id \ {q.id} : Deleted(q.id)[i] = sessions[i]
      BY <1>1 DEF Deleted, Snapshot, Promise, Stored
    <3> HIDE DEF stored, failed
    <3> QED BY <1>6, <1>8, <2>2, <3>1, <3>2, Zenon
  <2> QED BY <1>8, <2>1, <2>2, Zenon DEF Delete
<1>9. ASSUME NEW ok \in BOOLEAN, ~q.persisted, Save(q.id, q.data, ok),
             Become(r, IF ok THEN stored("saved", "id") ELSE Panicked(failed))
      PROVE  Promise' /\ (Store!Refuse \/ Store!Write(r))
  <2> DEFINE e == [data |-> q.data, expiresAt |-> IF Ttl > 0 THEN now + Ttl ELSE 0]
  <2>1. e \in Entry \cup {NoEntry}
    BY <1>1 DEF Entry, Inv
  <2>2. Saved(q.id, q.data) = [sessions EXCEPT ![q.id] = e]
    BY Zenon DEF Saved
  <2>3. "saved" \in {"saved", "deleted"}
    OBVIOUS
  <2> HIDE DEF e, stored, failed
  <2>4. /\ Saved(q.id, q.data) \in Snapshot
        /\ \A i \in Id \ {q.id} : Saved(q.id, q.data)[i] = sessions[i]
    BY <1>1, <2>1, <2>2 DEF Snapshot, Promise, Stored
  <2>5. Commit(Saved(q.id, q.data), ok)
    BY <1>9 DEF Save
  <2> QED BY <1>6, <1>9, <2>3, <2>4, <2>5, Zenon
<1>10. CASE Become(r, skipped) /\ UNCHANGED storageVars
  <2> HIDE DEF skipped
  <2> QED BY <1>1, <1>5, <1>10, RequestAlone
<1> HIDE DEF stored, failed, skipped
<1> QED BY <1>7, <1>8, <1>9, <1>10, Zenon
-----------------------------------------------------------------------------
(* What a process that dies may have been flushing differs from the map in *)
(* one entry.                                                              *)
LEMMA FlushesOne ==
  ASSUME Inv, Stored, NEW r \in Request, NEW s \in Snapshots(request[r])
  PROVE  s \in Snapshot /\ \E id \in Id : \A i \in Id \ {id} : s[i] = sessions[i]
<1> DEFINE q == request[r]
<1>1. /\ q.at = "persist" => q.id \in Id
      /\ q.at = "load" => q.cookie \in Id
      /\ q.data \in Data /\ sessions \in Snapshot
  BY DEF Inv, Sound, Ends, RequestRecord, Serving, Stored
<1>2. \/ q.at = "persist" /\ s = Deleted(q.id)
      \/ q.at = "persist" /\ s = Saved(q.id, q.data)
      \/ q.at = "load" /\ s = Deleted(q.cookie)
  BY DEF Snapshots
<1> HIDE DEF q
<1>3. ASSUME NEW id \in Id, NEW e \in Entry \cup {NoEntry}, s = [sessions EXCEPT ![id] = e]
      PROVE  s \in Snapshot /\ \E i \in Id : \A other \in Id \ {i} : s[other] = sessions[other]
  <2>1. s \in Snapshot /\ \A other \in Id \ {id} : s[other] = sessions[other]
    BY <1>1, <1>3 DEF Snapshot
  <2> QED BY <2>1
<1>4. ASSUME NEW id \in Id, s = Deleted(id)
      PROVE  s \in Snapshot /\ \E i \in Id : \A other \in Id \ {i} : s[other] = sessions[other]
  <2>1. NoEntry \in Entry \cup {NoEntry} /\ s = [sessions EXCEPT ![id] = NoEntry]
    BY <1>4 DEF Deleted
  <2> QED BY <1>3, <2>1, Zenon
<1>5. CASE q.at = "persist" /\ s = Saved(q.id, q.data)
  <2> DEFINE e == [data |-> q.data, expiresAt |-> IF Ttl > 0 THEN now + Ttl ELSE 0]
  <2>1. e \in Entry \cup {NoEntry}
    BY <1>1 DEF Entry, Inv
  <2>2. s = [sessions EXCEPT ![q.id] = e]
    BY <1>5, Zenon DEF Saved
  <2> HIDE DEF e
  <2> QED BY <1>1, <1>3, <1>5, <2>1, <2>2, Zenon
<1> QED BY <1>1, <1>2, <1>4, <1>5, Zenon

LEMMA DieKeepsPromise ==
  ASSUME Inv, Promise, Die
  PROVE  Promise' /\ Store!Die
<1>1. /\ up /\ ~up' /\ up' \in BOOLEAN /\ UNCHANGED <<setup, sessions, now, damaged>>
      /\ \/ file' = file
         \/ Persistent /\ \E s \in Flushing : file' \in Unfinished(s)
  <2>1. /\ up /\ up' = FALSE /\ UNCHANGED <<setup, sessions, now, damaged>>
        /\ file' \in {file} \cup (IF Persistent /\ ~closed
                                  THEN UNION {Unfinished(s) : s \in Flushing} ELSE {})
    BY Zenon DEF Die, Crash
  <2>2. file' = file \/ (Persistent /\ file' \in UNION {Unfinished(s) : s \in Flushing})
    BY <2>1
  <2>3. file' = file \/ (Persistent /\ \E s \in Flushing : file' \in Unfinished(s))
    BY <2>2
  <2> QED BY <2>1, <2>3
<1>2. \A r \in Request : request'[r].wrote = request[r].wrote /\ request'[r].at # "purge"
  <2>1. ASSUME NEW r \in Request PROVE request'[r].wrote = request[r].wrote /\ request'[r].at # "purge"
    <3> DEFINE new == [NewRequest EXCEPT !.at = "dead", !.wrote = request[r].wrote]
    <3>1. new.wrote = request[r].wrote /\ new.at # "purge"
      BY DEF NewRequest
    <3>2. request'[r] = IF request[r].at \in Serving THEN new ELSE request[r]
      BY Zenon DEF Die
    <3> HIDE DEF new
    <3> QED BY <3>1, <3>2 DEF Serving
  <2> QED BY <2>1
<1>3. ASSUME NEW s \in Flushing
      PROVE  s \in Snapshot /\ \E id \in Id : \A i \in Id \ {id} : s[i] = sessions[i]
  <2>1. PICK r \in Request : s \in Snapshots(request[r])
    BY DEF Flushing
  <2> QED BY <2>1, FlushesOne DEF Promise
<1>4. sessions \in Snapshot /\ Nothing \in Snapshot /\ Encoded(Nothing) = Nothing /\ setup \in Setups
  BY NothingSnapshot DEF Promise, Stored
<1>5. ASSUME NEW s \in Flushing
      PROVE  s \in Snapshot /\ Encoded(s) \in Snapshot /\ Encoded(Encoded(s)) = Encoded(s)
  BY <1>3, EncodedSnapshot
<1>6. Stored'
  <2>1. Torn \notin Snapshot
    BY DEF Snapshot
  <2>2. CASE file' = file
    BY <1>1, <2>2 DEF Promise, Stored, Readable, FileShowsSessions
  <2>3. ASSUME NEW s \in Flushing, file' \in Unfinished(s) PROVE Readable'
    <3>1. file' \in {file, Nothing, Torn, Encoded(s)}
      BY <2>3 DEF Unfinished
    <3> QED BY <1>4, <1>5, <3>1 DEF Promise, Stored, Readable
  <2>4. Readable'
    BY <1>1, <2>2, <2>3 DEF Stored
  <2> QED BY <1>1, <2>4 DEF Promise, Stored, FileShowsSessions
<1>7. ~(~Persistent \/ damaged \/ (setup.backend = "handle" /\ Flushing # {}))
      => \E id \in Id : \A i \in Id \ {id} : Shown'[i] = Shown[i]
  <2>1. SUFFICES ASSUME Persistent, ~damaged, setup.backend = "handle" => Flushing = {}
                 PROVE  \E id \in Id : \A i \in Id \ {id} : Shown'[i] = Shown[i]
    OBVIOUS
  <2>2. file # Torn /\ Live(file) = Live(Encoded(sessions)) /\ Shown = Live(Encoded(sessions))
    BY <1>1, <2>1 DEF Promise, Stored, FileShowsSessions, Shown
  <2>3. Shown' = IF file' = Torn THEN Live(Nothing) ELSE Live(file')
    BY <1>1 DEF Shown, Live, Expired, Persistent, Nothing
  <2>4. CASE file' = file
    BY <2>2, <2>3, <2>4
  <2>5. ASSUME NEW s \in Flushing, file' \in Unfinished(s), file' # file
        PROVE  \E id \in Id : \A i \in Id \ {id} : Shown'[i] = Shown[i]
    <3>1. setup.backend = "path"
      BY <1>4, <2>1, <2>5 DEF Persistent
    <3>2. file' = Encoded(s)
      BY <2>5, <3>1 DEF Unfinished
    <3>3. PICK id \in Id : \A i \in Id \ {id} : s[i] = sessions[i]
      BY <1>3
    <3>4. \A i \in Id \ {id} : Live(Encoded(s))[i] = Live(Encoded(sessions))[i]
      BY <1>4, <1>5, <3>3, OneEntry
    <3>5. file' # Torn
      BY <1>5, <3>2 DEF Snapshot
    <3> QED BY <2>2, <2>3, <3>2, <3>4, <3>5
  <2> QED BY <1>1, <2>4, <2>5
<1>8. Acked' = Acked /\ PurgesInTime'
  BY <1>2 DEF Acked, PurgesInTime
<1> QED BY <1>1, <1>6, <1>7, <1>8 DEF Promise, Shown, Acked, Store!Die, Store!OneChange

LEMMA StorageRefuses ==
  ASSUME Inv, Promise, CleanupExpired \/ CloseStorage, UNCHANGED <<request, jar>>
  PROVE  Promise' /\ Store!Refuse
<1>1. up /\ UNCHANGED <<setup, up, now>>
  BY DEF CleanupExpired, CloseStorage
<1>2. Stored' /\ Shown' = Shown
  <2>1. CASE CloseStorage
    <3>1. UNCHANGED <<setup, sessions, file, up, now, damaged>>
      BY <2>1 DEF CloseStorage
    <3> QED BY <3>1, StillStored DEF Promise
  <2>2. CASE CleanupExpired
    <3>1. /\ ~Persistent /\ UNCHANGED <<file, damaged>>
          /\ sessions' = [id \in Id |-> IF Expired(sessions[id], now) THEN NoEntry ELSE sessions[id]]
      BY <2>2, Zenon DEF CleanupExpired
    <3>2. sessions \in Snapshot
      BY DEF Promise, Stored
    <3>3. sessions' \in Snapshot
      BY <3>1, <3>2 DEF Snapshot
    <3>4. \A id \in Id : sessions'[id] = sessions[id]
                         \/ (sessions'[id] = NoEntry /\ Expired(sessions[id], now))
      BY <3>1
    <3>5. Live(sessions') = Live(sessions)
      BY <3>2, <3>3, <3>4, ExpiredUnseen
    <3>6. Shown' = Shown
      BY <1>1, <3>1, <3>5, ShownUp
    <3>7. Readable' /\ FileShowsSessions'
      BY <1>1, <3>1 DEF Promise, Stored, Readable, FileShowsSessions, Persistent
    <3> QED BY <1>1, <3>1, <3>3, <3>6, <3>7 DEF Promise, Stored
  <2> QED BY <2>1, <2>2
<1>3. Acked' = Acked /\ PurgesInTime'
  BY <1>1 DEF Acked, Promise, PurgesInTime
<1> QED BY <1>1, <1>2, <1>3 DEF Promise, Shown, Acked, Store!Refuse

(* What is seen, one tick later: what has not expired by then.             *)
Behind ==
  IF up THEN IF Persistent THEN Encoded(sessions) ELSE sessions
  ELSE IF file = Torn THEN Nothing ELSE file

LiveAt(s, time) == [id \in Id |-> IF Expired(s[id], time) THEN NoEntry ELSE s[id]]

LEMMA LiveLater ==
  ASSUME now \in Nat, NEW s \in Snapshot
  PROVE  LiveAt(s, now + 1) = LiveAt(Live(s), now + 1)
<1>1. ASSUME NEW id \in Id
      PROVE  (IF Expired(s[id], now + 1) THEN NoEntry ELSE s[id])
             = (IF Expired(Live(s)[id], now + 1) THEN NoEntry ELSE Live(s)[id])
  <2>1. Live(s)[id] = IF Expired(s[id], now) THEN NoEntry ELSE s[id]
    BY DEF Live
  <2>2. CASE Expired(s[id], now)
    <3>1. s[id] \in Entry
      BY <2>2 DEF Expired, Snapshot
    <3>2. s[id].expiresAt \in Nat
      BY <3>1 DEF Entry
    <3>3. Expired(s[id], now + 1)
      BY <2>2, <3>2 DEF Expired
    <3> QED BY <2>1, <2>2, <3>3
  <2>3. CASE ~Expired(s[id], now)
    BY <2>1, <2>3
  <2> QED BY <2>2, <2>3
<1> QED BY <1>1 DEF LiveAt

LEMMA TickKeepsPromise ==
  ASSUME Inv, Promise, Tick, UNCHANGED <<request, jar>>
  PROVE  Promise' /\ Store!Pass
<1>1. now \in Nat /\ now' = now + 1 /\ UNCHANGED <<setup, sessions, file, up, damaged>>
  BY DEF Tick, Inv
<1>2. sessions \in Snapshot /\ Encoded(sessions) \in Snapshot /\ Nothing \in Snapshot
  BY EncodedSnapshot, NothingSnapshot DEF Promise, Stored
<1>3. Behind \in Snapshot
  BY <1>2 DEF Behind, Promise, Stored, Readable
<1>4. Live(file)' = LiveAt(file, now + 1) /\ Live(Encoded(sessions))' = LiveAt(Encoded(sessions), now + 1)
  BY <1>1 DEF Live, LiveAt, Expired, Persistent, Encoded
<1>5. Shown = Live(Behind) /\ Shown' = LiveAt(Behind, now + 1)
  BY <1>1 DEF Shown, Behind, Live, LiveAt, Expired, Persistent, Encoded, Nothing
<1>6. Shown' = LiveAt(Shown, now + 1)
  BY <1>1, <1>3, <1>5, LiveLater
<1>7. Stored'
  <2>1. ASSUME up, Persistent, ~damaged
        PROVE  file # Torn /\ Live(file)' = Live(Encoded(sessions))'
    <3>1. file \in Snapshot /\ Live(file) = Live(Encoded(sessions)) /\ file # Torn
      BY <2>1 DEF Promise, Stored, Readable, FileShowsSessions
    <3>2. LiveAt(file, now + 1) = LiveAt(Encoded(sessions), now + 1)
      BY <1>1, <1>2, <3>1, LiveLater
    <3> QED BY <1>4, <3>1, <3>2
  <2>2. FileShowsSessions'
    BY <1>1, <2>1 DEF FileShowsSessions, Persistent
  <2>3. Readable'
    BY <1>1 DEF Promise, Stored, Readable, Encoded
  <2> QED BY <1>1, <2>2, <2>3 DEF Promise, Stored
<1>8. Acked' = Acked /\ PurgesInTime'
  <2>1. \A r \in Request : request[r].at = "purge" => request[r].since \in Nat
    BY DEF Inv, Sound, RequestRecord
  <2> QED BY <1>1, <2>1 DEF Acked, Promise, PurgesInTime
<1>9. \A id \in Id : Shown[id] \in Entry \cup {NoEntry}
  BY <1>3, <1>5 DEF Live, Snapshot
<1>10. ASSUME NEW id \in Id
       PROVE  /\ Shown'[id] \in {Shown[id], NoEntry}
              /\ (Shown[id] # NoEntry => Shown[id].expiresAt \notin 1 .. now') => Shown'[id] = Shown[id]
  <2>1. Shown'[id] = IF Expired(Shown[id], now + 1) THEN NoEntry ELSE Shown[id]
    BY <1>6 DEF LiveAt
  <2>2. CASE ~Expired(Shown[id], now + 1)
    BY <2>1, <2>2
  <2>3. CASE Expired(Shown[id], now + 1)
    <3>1. Shown[id] # NoEntry /\ Shown[id] \in Entry
      BY <1>9, <2>3 DEF Expired
    <3>2. Shown[id].expiresAt \in Nat
      BY <3>1 DEF Entry
    <3>3. Shown[id].expiresAt \in 1 .. now'
      BY <1>1, <2>3, <3>2 DEF Expired
    <3> QED BY <2>1, <2>3, <3>1, <3>3
  <2> QED BY <2>2, <2>3
<1>11. now' > now /\ UNCHANGED <<up>>
  BY <1>1
<1> QED BY <1>7, <1>8, <1>10, <1>11 DEF Promise, Shown, Acked, Store!Pass

LEMMA RestartKeepsPromise ==
  ASSUME Inv, Promise, Restart, UNCHANGED <<request, jar>>
  PROVE  Promise' /\ Store!Return
<1>1. /\ ~up /\ up' /\ up' \in BOOLEAN /\ UNCHANGED <<setup, file, now>>
      /\ sessions' = file /\ damaged' \in BOOLEAN /\ file # Torn
  BY DEF Restart
<1>2. file \in Snapshot /\ Encoded(file) = file
  BY <1>1 DEF Promise, Stored, Readable
<1>3. Stored'
  <2>1. Readable'
    BY <1>1, <1>2 DEF Readable
  <2>2. Live(file') = Live(Encoded(sessions'))
    BY <1>1, <1>2
  <2>3. FileShowsSessions'
    <3>1. Live(file)' = Live(Encoded(sessions))'
      BY <1>1, <1>2 DEF Live, Expired, Persistent, Encoded
    <3> QED BY <1>1, <3>1 DEF FileShowsSessions
  <2> QED BY <1>1, <1>2, <2>1, <2>3 DEF Promise, Stored
<1>4. Shown' = Shown
  <2>1. Shown = Live(file)
    BY <1>1 DEF Shown
  <2>2. (IF Persistent' THEN Encoded(sessions') ELSE sessions') = file
    BY <1>1, <1>2
  <2>3. Shown' = Live(file)
    BY <1>1, <2>2 DEF Shown, Live, Expired, Persistent, Encoded
  <2> QED BY <2>1, <2>3
<1>5. Acked' = Acked /\ PurgesInTime'
  BY <1>1 DEF Acked, Promise, PurgesInTime
<1> QED BY <1>1, <1>3, <1>4, <1>5 DEF Promise, Shown, Acked, Store!Return

LEMMA PromiseInit == Init => Promise /\ Store!Init
<1> SUFFICES ASSUME Init PROVE Promise /\ Store!Init
  OBVIOUS
<1>1. /\ setup \in Setups /\ up = TRUE /\ damaged = FALSE /\ now = 1
      /\ request = [r \in Request |-> NewRequest]
      /\ file = IF Persistent THEN sessions ELSE Nothing
  BY DEF Init, StorageInit
<1>2. sessions \in Snapshot /\ Encoded(sessions) = sessions
  <2>1. CASE sessions = Nothing
    BY <2>1, NothingSnapshot
  <2>2. CASE sessions # Nothing
    <3>1. PICK v \in Settable : sessions = [Nothing EXCEPT ![Kept] =
                [data |-> Json[v], expiresAt |-> IF Ttl > 0 THEN 1 + Ttl ELSE 0]]
      BY <2>2 DEF Init, StorageInit
    <3> DEFINE d == [data |-> Json[v], expiresAt |-> IF Ttl > 0 THEN 1 + Ttl ELSE 0]
    <3>2. Json[v] \in Data /\ Json[Json[v]] = Json[v]
      BY JsonIsStable
    <3>3. d \in Entry /\ d # NoEntry
      BY <3>2 DEF Entry
    <3>4. Coded(d) = d
      <4>1. [d EXCEPT !.data = Json[d.data]] = d
        BY <3>2
      <4> QED BY <3>3, <4>1 DEF Coded
    <3>5. sessions = [Nothing EXCEPT ![Kept] = d]
      BY <3>1
    <3> HIDE DEF d
    <3>6. sessions = [id \in Id |-> IF id = Kept THEN d ELSE NoEntry]
      BY <3>5 DEF Nothing
    <3>7. \A id \in Id : Coded(sessions[id]) = sessions[id]
      BY <3>4, <3>6 DEF Coded
    <3>8. sessions \in Snapshot
      BY <3>3, <3>6 DEF Snapshot
    <3>9. Encoded(sessions) = [id \in Id |-> Coded(sessions[id])]
      BY EncodedIs
    <3> QED BY <3>6, <3>7, <3>8, <3>9
  <2> QED BY <2>1, <2>2
<1>3. file \in Snapshot /\ Encoded(file) = file /\ file # Torn
  BY <1>1, <1>2, NothingSnapshot DEF Snapshot
<1>4. Stored
  BY <1>1, <1>2, <1>3 DEF Stored, Readable, FileShowsSessions
<1>5. \A r \in Request : request[r].wrote = "nothing" /\ request[r].at = "idle"
  BY <1>1 DEF NewRequest
<1>6. PurgesInTime /\ Acked = {}
  BY <1>5 DEF PurgesInTime, Acked
<1>7. Shown = Live(sessions)
  BY <1>1, <1>2 DEF Shown
<1>8. Shown \in [Id -> Store!Entry \cup {NoEntry}]
  BY <1>2, <1>7 DEF Live, Snapshot, Store!Entry, Entry
<1> QED BY <1>1, <1>4, <1>6, <1>8 DEF Promise, Shown, Acked, Store!Init

LEMMA PromiseStutter ==
  ASSUME Promise, UNCHANGED vars
  PROVE  Promise' /\ UNCHANGED Store!vars
<1>1. UNCHANGED storageVars /\ UNCHANGED <<setup, sessions, file, up, now, damaged>> /\ request' = request
  BY DEF vars, storageVars
<1>2. Stored' /\ Shown' = Shown
  BY <1>1, StillStored DEF Promise
<1>3. Acked' = Acked /\ PurgesInTime'
  BY <1>1 DEF Acked, Promise, PurgesInTime
<1>4. Flushing' = Flushing /\ Persistent' = Persistent
  <2>1. ASSUME NEW r \in Request PROVE Snapshots(request[r])' = Snapshots(request[r])
    BY <1>1 DEF Snapshots, Deleted, Saved, Expired, Persistent
  <2> QED BY <1>1, <2>1 DEF Flushing, Persistent
<1> QED BY <1>1, <1>2, <1>3, <1>4 DEF Promise, Shown, Acked, Store!vars

LEMMA PromiseNext ==
  ASSUME Inv, Promise, [Next]_vars
  PROVE  Promise' /\ [Store!Next]_(Store!vars)
<1>1. ASSUME NEW r \in Request, Step(r) PROVE Promise' /\ Store!Next
  <2>1. Promise' /\ (Store!Refuse \/ Store!Write(r))
    BY <1>1, Unwritten, LoadSessionKeepsPromise, PurgeSessionKeepsPromise, NewSessionKeepsPromise,
       PersistKeepsPromise, Zenon DEF Step
  <2> QED BY <2>1, Zenon DEF Store!Next
<1>2. CASE Die
  BY <1>2, DieKeepsPromise, Zenon DEF Store!Next
<1>3. CASE Around
  <2>1. CASE CleanupExpired \/ CloseStorage
    BY <1>3, <2>1, StorageRefuses, Zenon DEF Around, Store!Next
  <2>2. CASE Tick
    BY <1>3, <2>2, TickKeepsPromise, Zenon DEF Around, Store!Next
  <2>3. CASE Restart
    BY <1>3, <2>3, RestartKeepsPromise, Zenon DEF Around, Store!Next
  <2> QED BY <1>3, <2>1, <2>2, <2>3, Zenon DEF Around
<1>4. CASE UNCHANGED vars
  BY <1>4, PromiseStutter, Zenon
<1> QED BY <1>1, <1>2, <1>3, <1>4, Zenon DEF Next

(* Every session storage, with the kernel that writes to it, is the store  *)
(* SessionStore describes, for any requests, data, times to live, faults   *)
(* and crashes.                                                            *)
THEOREM KernelImplementsStore == Spec => ImplementsStore
<1>1. Inv /\ Promise /\ [Next]_vars => Promise' /\ [Store!Next]_(Store!vars)
  BY PromiseNext
<1> QED
  BY PromiseInit, InvInvariance, <1>1, PTL DEF Spec, ImplementsStore, Store!Spec
=============================================================================
