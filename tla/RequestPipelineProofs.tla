----------------------- MODULE RequestPipelineProofs -----------------------
(***************************************************************************)
(* Proofs about RequestPipeline, for any number of request slots, any pool *)
(* size, any schema and anything their clients may send.                   *)
(***************************************************************************)
EXTENDS RequestPipeline, SequenceLemmas

Waiting == {"wait_own", "wait_peek", "wait_store"}

\* What a request that succeeds has committed.
Expected(r) == IF shape[r].endpoint \in Writes THEN 1 ELSE 0

Typed ==
    /\ pc \in [Requests -> Stages]
    /\ lease \in [Requests -> [request : {"unforced", "held", "failed"}, own : BOOLEAN]]
    /\ idle \in Nat
    /\ commits \in [Requests -> Nat]
    /\ DOMAIN shape = Requests /\ DOMAIN context = Requests
    /\ DOMAIN result = Requests /\ DOMAIN answer = Requests

\* Where a request is tells which handles it has: it waits only for a handle
\* it lacks, works only with one, and keeps none once it is answered.
LeaseFits(r) ==
    /\ pc[r] \in {"idle", "wrap"} \cup Waiting => lease[r].request = "unforced"
    /\ pc[r] \in {"idle", "wrap", "wait_own", "wait_peek"} => ~lease[r].own
    /\ pc[r] \in {"load", "execute", "render"} => lease[r].request = "held"
    /\ pc[r] = "answered" => lease[r].request # "held" /\ ~lease[r].own
    /\ lease[r].request = "failed" => pc[r] \in {"enter", "check", "settle", "answered"}

\* Where a request is tells what it has committed: nothing before its store
\* operation, and afterwards only the server's own faults are still possible.
CommitsFit(r) ==
    /\ pc[r] \notin {"render", "settle", "answered"} => commits[r] = 0
    /\ lease[r].request = "failed" => commits[r] = 0
    /\ pc[r] = "render" => commits[r] = Expected(r)
    /\ pc[r] = "settle" /\ result[r] = Ok => commits[r] = Expected(r)
    /\ pc[r] = "settle" /\ commits[r] > 0 /\ result[r] # Ok =>
           result[r] \in SerialisationErrors

\* Only two middlewares of the primary tier fail to the embedder.
WrapFits(r) ==
    /\ pc[r] = "wait_own" => shape[r].wrap = "own"
    /\ pc[r] = "escape" => shape[r].wrap \in {"own", "probes"}

\* What was answered, for one request.
AnswerFits(r) ==
    Answered(r) =>
        /\ commits[r] > 0 /\ ~Succeeded(r) => answer[r].kind = "escaped" \/ answer[r].status = 500
        /\ Succeeded(r) => commits[r] = Expected(r)
        /\ answer[r].kind = "escaped" => \/ answer[r].code = "Unserialisable"
                                         \/ shape[r].wrap \in {"own", "probes"}
        /\ answer[r].status >= 500 => /\ answer[r].code = "InternalServerError"
                                      /\ answer[r].source = NoSource

Fits(r) == LeaseFits(r) /\ CommitsFit(r) /\ WrapFits(r) /\ AnswerFits(r)

\* The strengthening of the properties proved here.
PipelineInv ==
    /\ Typed
    /\ \A r \in Requests : Fits(r)
    /\ idle + Cardinality(HeldHandles) = PoolSize

-----------------------------------------------------------------------------
(* What an error answers.                                                  *)

\* Whatever a request ended with, it is answered with a client or a server
\* error, and with the latter for a fault of the document or its headers.
LEMMA ErrorsAreErrors ==
    ASSUME NEW code
    PROVE  /\ Status(code) \in {400, 403, 404, 406, 409, 415, 422, 500}
           /\ code \in SerialisationErrors \cup {"GeneratedInvalidHeader"} => Status(code) = 500
<1>1. DatabaseStatus(code) \in {400, 404, 409, 422, 500}
  BY DEF DatabaseStatus
<1>2. RoutingStatus(code) \in {400, 403, 406, 409, 415, 422, 500}
  BY DEF RoutingStatus
<1>3. Status(code) \in {400, 403, 404, 406, 409, 415, 422, 500}
  BY <1>1, <1>2 DEF Status, SerialisationStatus
<1>4. ASSUME code \in SerialisationErrors PROVE Status(code) = 500
  BY <1>4 DEF Status, SerialisationStatus, SerialisationErrors, DatabaseErrors
<1>5. ASSUME code = "GeneratedInvalidHeader" PROVE Status(code) = 500
  <2>1. RoutingStatus(code) = 500
    BY <1>5 DEF RoutingStatus, BadRequest, Forbidden, NotAcceptable, Conflict,
                UnsupportedMediaType, Unprocessable
  <2>2. code \notin DatabaseErrors
    BY <1>5 DEF DatabaseErrors
  <2>. QED BY <2>1, <2>2 DEF Status, SerialisationStatus
<1>. QED BY <1>3, <1>4, <1>5

\* The document of an error has its status, and a 5xx shows nothing else.
LEMMA ErrorDocuments ==
    ASSUME NEW code
    PROVE  /\ ErrorDocument(code).kind = "document"
           /\ ErrorDocument(code).status = Status(code)
           /\ Status(code) >= 500 => /\ ErrorDocument(code).code = "InternalServerError"
                                     /\ ErrorDocument(code).source = NoSource
BY DEF ErrorDocument, Funnelled, Redacted

\* No store operation fails with "ok".
LEMMA StoreFaultsAreFaults ==
    ASSUME NEW s PROVE Ok \notin StoreFaults(s)
BY DEF StoreFaults, Ok

-----------------------------------------------------------------------------
(* The acting request still fits, one lemma per action.                    *)

LEMMA ArriveFits ==
    ASSUME Typed, NEW r \in Requests, Fits(r), Arrive(r)
    PROVE  Fits(r)'
<1>1. PICK s \in Shapes[r] :
        /\ shape' = [shape EXCEPT ![r] = s]
        /\ \/ /\ pc' = [pc EXCEPT ![r] = "answered"]
              /\ answer' = [answer EXCEPT ![r] = [Unanswered EXCEPT !.kind = "empty", !.status = 404]]
           \/ pc' = [pc EXCEPT ![r] = "wrap"]
  BY DEF Arrive
<1>2. /\ pc[r] = "idle" /\ commits[r] = 0 /\ lease[r].request = "unforced" /\ ~lease[r].own
      /\ lease' = lease /\ commits' = commits /\ result' = result
  BY DEF Arrive, Fits, LeaseFits, CommitsFit, Waiting
<1>. USE DEF Typed
<1>3. CASE pc' = [pc EXCEPT ![r] = "wrap"]
  BY <1>2, <1>3 DEF Fits, LeaseFits, CommitsFit, WrapFits, AnswerFits, Answered, Waiting
<1>4. CASE /\ pc' = [pc EXCEPT ![r] = "answered"]
           /\ answer' = [answer EXCEPT ![r] = [Unanswered EXCEPT !.kind = "empty", !.status = 404]]
  <2>1. /\ pc'[r] = "answered" /\ answer'[r].kind = "empty" /\ answer'[r].status = 404
    BY <1>4 DEF Unanswered
  <2>. QED BY <1>2, <2>1 DEF Fits, LeaseFits, CommitsFit, WrapFits, AnswerFits, Answered,
                             Succeeded, Waiting
<1>. QED BY <1>1, <1>3, <1>4

LEMMA WrapKeepsFit ==
    ASSUME Typed, NEW r \in Requests, Fits(r), Wrap(r)
    PROVE  Fits(r)'
<1>1. /\ pc[r] = "wrap" /\ commits[r] = 0 /\ lease[r].request = "unforced" /\ ~lease[r].own
      /\ UNCHANGED <<shape, lease, idle, rows, commits, answer>>
  BY DEF Wrap, Fits, LeaseFits, CommitsFit, Waiting
<1>2. /\ pc'[r] \in {"wait_own", "wait_peek", "escape", "enter"}
      /\ pc'[r] = "wait_own" => shape[r].wrap = "own"
      /\ pc'[r] = "escape" => shape[r].wrap = "probes"
  <2>. DEFINE wrap == shape[r].wrap
              failed == wrap = "probes" /\ ContainsBody(context[r]).fault # Ok
  <2>1. pc'[r] = CASE wrap = "own"   -> "wait_own"
                   [] wrap = "peeks" -> "wait_peek"
                   [] failed         -> "escape"
                   [] OTHER          -> "enter"
    BY DEF Wrap, Typed
  <2>. QED BY <2>1
<1>. QED BY <1>1, <1>2 DEF Fits, LeaseFits, CommitsFit, WrapFits, AnswerFits, Answered, Waiting

LEMMA ObtainKeepsFit ==
    ASSUME Typed, NEW r \in Requests, Fits(r), Obtain(r)
    PROVE  Fits(r)'
<1>1. /\ pc[r] \in Waiting /\ commits[r] = 0 /\ lease[r].request = "unforced"
      /\ UNCHANGED <<shape, context, rows, commits, result, answer>>
  BY DEF Obtain, Fits, LeaseFits, CommitsFit, Waiting
<1>2. CASE pc[r] = "wait_store"
  <2>1. pc'[r] \in {"load", "execute"} /\ lease'[r].request = "held"
    BY <1>2 DEF Obtain, Typed, FirstStage
  <2>. QED BY <1>1, <2>1 DEF Fits, LeaseFits, CommitsFit, WrapFits, AnswerFits, Answered, Waiting
<1>3. CASE pc[r] \in {"wait_own", "wait_peek"}
  <2>1. pc'[r] = "enter" /\ lease'[r].request \in {"held", "unforced"}
    BY <1>1, <1>3 DEF Obtain, Typed
  <2>. QED BY <1>1, <2>1 DEF Fits, LeaseFits, CommitsFit, WrapFits, AnswerFits, Answered, Waiting
<1>. QED BY <1>1, <1>2, <1>3 DEF Waiting

LEMMA ExpireKeepsFit ==
    ASSUME Typed, NEW r \in Requests, Fits(r), Expire(r)
    PROVE  Fits(r)'
<1>1. /\ pc[r] \in Waiting /\ commits[r] = 0 /\ lease[r].request = "unforced"
      /\ UNCHANGED <<shape, context, idle, rows, commits, answer>>
  BY DEF Expire, Fits, LeaseFits, CommitsFit, Waiting
<1>2. CASE pc[r] = "wait_own"
  <2>1. pc'[r] = "escape" /\ lease'[r] = lease[r]
    BY <1>2 DEF Expire, Typed
  <2>. QED BY <1>1, <1>2, <2>1 DEF Fits, LeaseFits, CommitsFit, WrapFits, AnswerFits, Answered,
                                   Waiting
<1>3. CASE pc[r] \in {"wait_peek", "wait_store"}
  <2>1. /\ pc'[r] \in {"enter", "settle"} /\ lease'[r].request = "failed"
    BY <1>3 DEF Expire, Typed
  <2>2. pc'[r] = "settle" => result'[r] = "DatabaseFailure"
    BY <1>3 DEF Expire, Typed
  <2>. QED BY <1>1, <2>1, <2>2 DEF Fits, LeaseFits, CommitsFit, WrapFits, AnswerFits, Answered,
                                   Waiting, Ok
<1>. QED BY <1>1, <1>2, <1>3 DEF Waiting

LEMMA EnterKeepsFit ==
    ASSUME Typed, NEW r \in Requests, Fits(r), Enter(r)
    PROVE  Fits(r)'
<1>1. /\ pc[r] = "enter" /\ commits[r] = 0
      /\ UNCHANGED <<shape, lease, idle, rows, commits, answer>>
  BY DEF Enter, Fits, CommitsFit
<1>2. PICK fault : /\ result' = [result EXCEPT ![r] = fault]
                   /\ pc' = [pc EXCEPT ![r] = IF fault = Ok THEN "check" ELSE "settle"]
  BY DEF Enter
<1>3. /\ result'[r] = fault
      /\ pc'[r] = IF fault = Ok THEN "check" ELSE "settle"
  BY <1>2 DEF Typed
<1>4. pc'[r] = "check" \/ (pc'[r] = "settle" /\ result'[r] # Ok)
  BY <1>3
<1>. QED BY <1>1, <1>4 DEF Fits, LeaseFits, CommitsFit, WrapFits, AnswerFits, Answered, Waiting

LEMMA CheckKeepsFit ==
    ASSUME Typed, NEW r \in Requests, Fits(r), Check(r)
    PROVE  Fits(r)'
<1>1. /\ pc[r] = "check" /\ commits[r] = 0
      /\ UNCHANGED <<shape, context, lease, idle, rows, commits, answer>>
  BY DEF Check, Fits, CommitsFit
<1>. DEFINE forced == Forced(r, FirstStage(shape[r]))
<1>2. PICK fault : /\ result' = [result EXCEPT ![r] = IF fault # Ok THEN fault ELSE forced.fault]
                   /\ pc' = [pc EXCEPT ![r] = IF fault # Ok THEN "settle" ELSE forced.stage]
  BY DEF Check
<1>3. CASE fault # Ok
  <2>1. pc'[r] = "settle" /\ result'[r] # Ok
    BY <1>2, <1>3 DEF Typed
  <2>. QED BY <1>1, <2>1 DEF Fits, LeaseFits, CommitsFit, WrapFits, AnswerFits, Answered, Waiting
<1>4. CASE fault = Ok
  <2>1. pc'[r] = forced.stage /\ result'[r] = forced.fault
    BY <1>2, <1>4 DEF Typed
  <2>2. lease[r].request \in {"unforced", "held", "failed"}
    BY DEF Typed
  <2>3. \/ lease[r].request = "unforced" /\ forced.stage = "wait_store"
        \/ lease[r].request = "held" /\ forced.stage \in {"load", "execute"}
        \/ lease[r].request = "failed" /\ forced.stage = "settle" /\ forced.fault # Ok
    BY <2>2 DEF Forced, FirstStage, Ok
  <2>. HIDE DEF forced
  <2>. QED BY <1>1, <2>1, <2>3 DEF Fits, LeaseFits, CommitsFit, WrapFits, AnswerFits, Answered,
                                   Waiting
<1>. QED BY <1>3, <1>4

LEMMA LoadKeepsFit ==
    ASSUME Typed, NEW r \in Requests, Fits(r), Load(r)
    PROVE  Fits(r)'
<1>1. /\ pc[r] = "load" /\ commits[r] = 0 /\ lease[r].request = "held"
      /\ UNCHANGED <<shape, context, lease, idle, rows, commits, answer>>
  BY DEF Load, Fits, CommitsFit, LeaseFits
<1>2. PICK fault : /\ result' = [result EXCEPT ![r] = fault]
                   /\ pc' = [pc EXCEPT ![r] = IF fault = Ok THEN "execute" ELSE "settle"]
  BY DEF Load
<1>3. /\ result'[r] = fault
      /\ pc'[r] = IF fault = Ok THEN "execute" ELSE "settle"
  BY <1>2 DEF Typed
<1>4. pc'[r] = "execute" \/ (pc'[r] = "settle" /\ result'[r] # Ok)
  BY <1>3
<1>. QED BY <1>1, <1>4 DEF Fits, LeaseFits, CommitsFit, WrapFits, AnswerFits, Answered, Waiting

LEMMA CommitKeepsFit ==
    ASSUME Typed, NEW r \in Requests, Fits(r), Commit(r)
    PROVE  Fits(r)'
<1>1. /\ pc[r] = "execute" /\ commits[r] = 0 /\ lease[r].request = "held"
      /\ UNCHANGED <<shape, context, lease, idle, answer>>
  BY DEF Commit, Fits, CommitsFit, LeaseFits
<1>2. commits'[r] = Expected(r)'
  BY <1>1 DEF Commit, Typed, Expected
<1>3. pc'[r] \in {"settle", "render"} /\ result'[r] = Ok
  BY DEF Commit, Typed
<1>. QED BY <1>1, <1>2, <1>3 DEF Fits, LeaseFits, CommitsFit, WrapFits, AnswerFits, Answered, Waiting

LEMMA RollBackKeepsFit ==
    ASSUME Typed, NEW r \in Requests, Fits(r), RollBack(r)
    PROVE  Fits(r)'
<1>1. /\ pc[r] = "execute" /\ commits[r] = 0 /\ lease[r].request = "held"
      /\ UNCHANGED <<shape, context, lease, idle, rows, commits, answer>>
  BY DEF RollBack, Fits, CommitsFit, LeaseFits
<1>2. PICK fault \in StoreFaults(shape[r]) : result' = [result EXCEPT ![r] = fault]
  BY DEF RollBack
<1>3. pc'[r] = "settle" /\ result'[r] # Ok
  BY <1>2, StoreFaultsAreFaults DEF RollBack, Typed
<1>. QED BY <1>1, <1>3 DEF Fits, LeaseFits, CommitsFit, WrapFits, AnswerFits, Answered, Waiting

LEMMA RenderKeepsFit ==
    ASSUME Typed, NEW r \in Requests, Fits(r), Render(r)
    PROVE  Fits(r)'
<1>1. /\ pc[r] = "render" /\ commits[r] = Expected(r) /\ lease[r].request = "held"
      /\ UNCHANGED <<shape, context, lease, idle, rows, commits, answer>>
  BY DEF Render, Fits, CommitsFit, LeaseFits
<1>2. PICK fault \in {Ok} \cup RenderFaults : result' = [result EXCEPT ![r] = fault]
  BY DEF Render
<1>3. pc'[r] = "settle" /\ (result'[r] = Ok \/ result'[r] \in SerialisationErrors)
  BY <1>2 DEF Render, RenderFaults, Typed
<1>4. Expected(r)' = Expected(r)
  BY <1>1 DEF Expected
<1>. QED BY <1>1, <1>3, <1>4 DEF Fits, LeaseFits, CommitsFit, WrapFits, AnswerFits, Answered, Waiting

\* A dropped context keeps no handle, and remembers that it never got one.
LEMMA DroppedLease ==
    ASSUME Typed, NEW r \in Requests, DropContext(r)
    PROVE  /\ lease'[r].request # "held" /\ ~lease'[r].own
           /\ lease'[r].request = "failed" => lease[r].request = "failed"
BY DEF DropContext, Typed

LEMMA SettleKeepsFit ==
    ASSUME Typed, NEW r \in Requests, Fits(r), Settle(r)
    PROVE  Fits(r)'
<1>1. /\ pc[r] = "settle" /\ pc'[r] = "answered" /\ DropContext(r)
      /\ UNCHANGED <<shape, context, rows, commits>>
  BY DEF Settle, Typed
<1>2. Expected(r)' = Expected(r)
  BY <1>1 DEF Expected
<1>3. PICK stamp \in StampFaults(shape[r].endpoint), written \in BOOLEAN :
         LET code == IF result[r] # Ok THEN result[r] ELSE stamp
             rendered == IF code = Ok THEN Success(shape[r].endpoint) ELSE ErrorDocument(code)
         IN /\ result' = [result EXCEPT ![r] = code]
            /\ answer' = [answer EXCEPT ![r] =
                             IF written \/ rendered.kind = "empty" THEN rendered
                                                                   ELSE Escaped("Unserialisable")]
  BY DEF Settle
<1>. DEFINE code == IF result[r] # Ok THEN result[r] ELSE stamp
            rendered == IF code = Ok THEN Success(shape[r].endpoint) ELSE ErrorDocument(code)
<1>4. answer'[r] = rendered \/ answer'[r] = Escaped("Unserialisable")
  BY <1>3 DEF Typed
<1>5. CASE answer'[r] = Escaped("Unserialisable")
  <2>1. /\ answer'[r].kind = "escaped" /\ answer'[r].code = "Unserialisable" /\ answer'[r].status = 0
    BY <1>5 DEF Escaped
  <2>2. AnswerFits(r)'
    BY <2>1 DEF AnswerFits, Succeeded
  <2>. QED BY <1>1, <2>2, DroppedLease DEF Fits, LeaseFits, CommitsFit, WrapFits, Waiting
<1>6. CASE answer'[r] = rendered /\ code = Ok
  <2>1. commits'[r] = Expected(r)'
    BY <1>1, <1>2, <1>6 DEF Fits, CommitsFit
  <2>2. answer'[r].kind # "escaped" /\ answer'[r].status \in {200, 201, 204}
    BY <1>6 DEF Success
  <2>3. AnswerFits(r)'
    BY <1>1, <2>1, <2>2 DEF AnswerFits, Succeeded, Answered
  <2>. QED BY <1>1, <2>3, DroppedLease DEF Fits, LeaseFits, CommitsFit, WrapFits, Waiting
<1>7. CASE answer'[r] = rendered /\ code # Ok
  <2>1. answer'[r] = ErrorDocument(code)
    BY <1>7
  <2>2. commits[r] > 0 => code \in SerialisationErrors \cup {"GeneratedInvalidHeader"}
    BY <1>1, <1>7 DEF Fits, CommitsFit, StampFaults
  <2>. HIDE DEF code, rendered
  <2>3. /\ answer'[r].kind = "document"
        /\ answer'[r].status \in {400, 403, 404, 406, 409, 415, 422, 500}
        /\ commits[r] > 0 => answer'[r].status = 500
        /\ answer'[r].status >= 500 => /\ answer'[r].code = "InternalServerError"
                                       /\ answer'[r].source = NoSource
    BY <2>1, <2>2, ErrorsAreErrors, ErrorDocuments
  <2>4. AnswerFits(r)'
    BY <1>1, <2>3 DEF AnswerFits, Succeeded, Answered
  <2>. QED BY <1>1, <2>4, DroppedLease DEF Fits, LeaseFits, CommitsFit, WrapFits, Waiting
<1>. QED BY <1>4, <1>5, <1>6, <1>7

LEMMA EscapeKeepsFit ==
    ASSUME Typed, NEW r \in Requests, Fits(r), Escape(r)
    PROVE  Fits(r)'
<1>1. /\ pc[r] = "escape" /\ pc'[r] = "answered" /\ DropContext(r) /\ commits[r] = 0
      /\ shape[r].wrap \in {"own", "probes"}
      /\ UNCHANGED <<shape, context, rows, commits, result>>
  BY DEF Escape, Typed, Fits, CommitsFit, WrapFits
<1>2. answer'[r].kind = "escaped" /\ answer'[r].status = 0
  BY DEF Escape, Escaped, Typed
<1>3. AnswerFits(r)'
  BY <1>1, <1>2 DEF AnswerFits, Succeeded
<1>. QED BY <1>1, <1>3, DroppedLease DEF Fits, LeaseFits, CommitsFit, WrapFits, Waiting

-----------------------------------------------------------------------------
(* The other requests are not touched.                                     *)

Untouched(q) ==
    /\ pc'[q] = pc[q] /\ shape'[q] = shape[q] /\ lease'[q] = lease[q]
    /\ commits'[q] = commits[q] /\ result'[q] = result[q] /\ answer'[q] = answer[q]

LEMMA UntouchedFits ==
    ASSUME NEW q, Fits(q), Untouched(q)
    PROVE  Fits(q)'
<1>1. LeaseFits(q)'
  BY DEF Untouched, Fits, LeaseFits
<1>2. CommitsFit(q)'
  BY DEF Untouched, Fits, CommitsFit, Expected
<1>3. WrapFits(q)'
  BY DEF Untouched, Fits, WrapFits
<1>4. AnswerFits(q)'
  BY DEF Untouched, Fits, AnswerFits, Answered, Succeeded, Expected
<1>. QED BY <1>1, <1>2, <1>3, <1>4 DEF Fits

LEMMA OthersUntouched ==
    ASSUME Typed, NEW r \in Requests, Arrive(r) \/ Advance(r),
           NEW q \in Requests, q # r
    PROVE  Untouched(q)
<1>. USE DEF Typed, Untouched
<1>1. CASE Arrive(r)    BY <1>1 DEF Arrive
<1>2. CASE Wrap(r)      BY <1>2 DEF Wrap
<1>3. CASE Obtain(r)    BY <1>3 DEF Obtain
<1>4. CASE Expire(r)    BY <1>4 DEF Expire
<1>5. CASE Enter(r)     BY <1>5 DEF Enter
<1>6. CASE Check(r)     BY <1>6 DEF Check
<1>7. CASE Load(r)      BY <1>7 DEF Load
<1>8. CASE Commit(r)    BY <1>8 DEF Commit
<1>9. CASE RollBack(r)  BY <1>9 DEF RollBack
<1>10. CASE Render(r)   BY <1>10 DEF Render
<1>11. CASE Settle(r)   BY <1>11 DEF Settle, DropContext
<1>12. CASE Escape(r)   BY <1>12 DEF Escape, DropContext
<1>. QED BY <1>1, <1>2, <1>3, <1>4, <1>5, <1>6, <1>7, <1>8, <1>9, <1>10, <1>11, <1>12 DEF Advance

\* Every request fits after a step of one of them.
LEMMA StepFits ==
    ASSUME Typed, \A q \in Requests : Fits(q),
           NEW r \in Requests, Arrive(r) \/ Advance(r)
    PROVE  \A q \in Requests : Fits(q)'
<1>1. Fits(r)'
  BY ArriveFits, WrapKeepsFit, ObtainKeepsFit, ExpireKeepsFit, EnterKeepsFit, CheckKeepsFit,
     LoadKeepsFit, CommitKeepsFit, RollBackKeepsFit, RenderKeepsFit, SettleKeepsFit,
     EscapeKeepsFit DEF Advance
<1>2. ASSUME NEW q \in Requests, q # r PROVE Fits(q)'
  BY <1>2, OthersUntouched, UntouchedFits
<1>. QED BY <1>1, <1>2

-----------------------------------------------------------------------------
(* Handles are neither lost nor made.                                      *)

LEMMA HeldHandlesMembers ==
    ASSUME NEW q \in Requests
    PROVE  /\ <<q, "own">> \in HeldHandles <=> lease[q].own
           /\ <<q, "request">> \in HeldHandles <=> lease[q].request = "held"
BY DEF HeldHandles

LEMMA HeldHandlesFinite == IsFiniteSet(HeldHandles) /\ Cardinality(HeldHandles) \in Nat
<1>1. IsFiniteSet({"request", "own"})
  <2>1. IsFiniteSet({"request"}) /\ IsFiniteSet({"own"})
    BY FS_Singleton
  <2>2. {"request", "own"} = {"request"} \cup {"own"}
    OBVIOUS
  <2>. QED BY <2>1, <2>2, FS_Union
<1>2. IsFiniteSet(Requests \X {"request", "own"})
  BY <1>1, RequestsAssumption, FS_Product
<1>3. HeldHandles \in SUBSET (Requests \X {"request", "own"})
  BY DEF HeldHandles
<1>. QED BY <1>2, <1>3, FS_Subset, FS_CardinalityType

\* A waiting request is handed exactly one handle it did not have.
LEMMA ObtainTakesOne ==
    ASSUME Typed, NEW r \in Requests, Fits(r), Obtain(r)
    PROVE  /\ idle' \in Nat
           /\ idle' + Cardinality(HeldHandles') = idle + Cardinality(HeldHandles)
<1>. DEFINE kind == IF pc[r] = "wait_own" THEN "own" ELSE "request"
<1>1. /\ pc[r] \in Waiting /\ lease[r].request = "unforced"
      /\ pc[r] = "wait_own" => ~lease[r].own
  BY DEF Obtain, Fits, LeaseFits, Waiting
<1>2. <<r, kind>> \notin HeldHandles
  BY <1>1, HeldHandlesMembers
<1>3. HeldHandles' = HeldHandles \cup {<<r, kind>>}
  <2>1. CASE pc[r] = "wait_own"
    BY <2>1 DEF HeldHandles, Obtain, Typed
  <2>2. CASE pc[r] # "wait_own"
    BY <2>2 DEF HeldHandles, Obtain, Typed
  <2>. QED BY <2>1, <2>2
<1>. HIDE DEF kind
<1>4. Cardinality(HeldHandles') = Cardinality(HeldHandles) + 1
  BY <1>2, <1>3, HeldHandlesFinite, FS_AddElement
<1>5. idle \in Nat /\ idle' = idle - 1 /\ idle' \in Nat
  BY DEF Obtain, Typed
<1>6. Cardinality(HeldHandles) \in Nat
  BY HeldHandlesFinite
<1>. QED BY <1>4, <1>5, <1>6

\* A timeout takes nothing from anybody: the request had no handle to lose.
LEMMA ExpireTakesNone ==
    ASSUME Typed, NEW r \in Requests, Fits(r), Expire(r)
    PROVE  HeldHandles' = HeldHandles
<1>1. lease[r].request = "unforced"
  BY DEF Expire, Fits, LeaseFits, Waiting
<1>. QED BY <1>1 DEF HeldHandles, Expire, Typed

\* A dropped context gives back exactly the handles its request held.
LEMMA DropGivesAllBack ==
    ASSUME Typed, NEW r \in Requests, DropContext(r)
    PROVE  /\ idle' \in Nat
           /\ idle' + Cardinality(HeldHandles') = idle + Cardinality(HeldHandles)
<1>. DEFINE kept == HeldHandles \ {<<r, "request">>}
<1>1. HeldHandles' = kept \ {<<r, "own">>}
  BY DEF HeldHandles, DropContext, Typed
<1>2. <<r, "own">> \in kept <=> lease[r].own
  BY HeldHandlesMembers
<1>3. /\ IsFiniteSet(kept) /\ Cardinality(kept) \in Nat
      /\ Cardinality(kept) = IF lease[r].request = "held" THEN Cardinality(HeldHandles) - 1
                                                          ELSE Cardinality(HeldHandles)
  BY HeldHandlesFinite, HeldHandlesMembers, FS_RemoveElement, FS_CardinalityType
<1>. HIDE DEF kept
<1>4. Cardinality(HeldHandles') = IF lease[r].own THEN Cardinality(kept) - 1 ELSE Cardinality(kept)
  BY <1>1, <1>2, <1>3, FS_RemoveElement
<1>5. idle' = idle + HandlesOf(r)
  BY DEF DropContext
<1>6. idle \in Nat /\ Cardinality(HeldHandles) \in Nat
  BY HeldHandlesFinite DEF Typed
<1>. QED BY <1>3, <1>4, <1>5, <1>6 DEF HandlesOf

LEMMA HandlesKept ==
    ASSUME Typed, NEW r \in Requests, Fits(r), Arrive(r) \/ Advance(r)
    PROVE  /\ idle' \in Nat
           /\ idle' + Cardinality(HeldHandles') = idle + Cardinality(HeldHandles)
<1>1. CASE Obtain(r)
  BY <1>1, ObtainTakesOne
<1>2. CASE Expire(r)
  BY <1>2, ExpireTakesNone DEF Expire, Typed
<1>3. CASE Settle(r) \/ Escape(r)
  BY <1>3, DropGivesAllBack DEF Settle, Escape
<1>4. CASE \/ Arrive(r) \/ Wrap(r) \/ Enter(r) \/ Check(r) \/ Load(r) \/ Commit(r)
           \/ RollBack(r) \/ Render(r)
  <2>1. UNCHANGED <<lease, idle>>
    BY <1>4 DEF Arrive, Wrap, Enter, Check, Load, Commit, RollBack, Render
  <2>2. HeldHandles' = HeldHandles
    BY <2>1 DEF HeldHandles
  <2>. QED BY <2>1, <2>2 DEF Typed
<1>. QED BY <1>1, <1>2, <1>3, <1>4 DEF Advance

-----------------------------------------------------------------------------
(* The invariant.                                                          *)

\* The handles are counted in HandlesKept; the rest of Typed is each action's.
LEMMA StepTyped ==
    ASSUME Typed, NEW r \in Requests, Arrive(r) \/ Advance(r), idle' \in Nat
    PROVE  Typed'
<1>. USE DEF Typed, Stages
<1>1. CASE Arrive(r)
  <2>1. /\ UNCHANGED <<lease, commits, result>>
        /\ DOMAIN shape' = Requests /\ DOMAIN context' = Requests /\ DOMAIN answer' = Requests
        /\ pc' \in [Requests -> Stages]
    BY <1>1 DEF Arrive
  <2>. QED BY <2>1
<1>2. CASE Wrap(r)
  <2>1. /\ UNCHANGED <<shape, lease, idle, rows, commits, answer>>
        /\ DOMAIN context' = Requests /\ DOMAIN result' = Requests
    BY <1>2 DEF Wrap
  <2>2. PICK stage \in {"wait_own", "wait_peek", "escape", "enter"} : pc' = [pc EXCEPT ![r] = stage]
    BY <1>2 DEF Wrap
  <2>. QED BY <2>1, <2>2
<1>3. CASE Obtain(r)
  <2>1. pc' \in [Requests -> Stages]
    BY <1>3 DEF Obtain, FirstStage
  <2>2. lease' \in [Requests -> [request : {"unforced", "held", "failed"}, own : BOOLEAN]]
    BY <1>3 DEF Obtain
  <2>. QED BY <1>3, <2>1, <2>2 DEF Obtain
<1>4. CASE Expire(r)
  <2>1. pc' \in [Requests -> Stages]
    BY <1>4 DEF Expire
  <2>2. lease' \in [Requests -> [request : {"unforced", "held", "failed"}, own : BOOLEAN]]
    BY <1>4 DEF Expire
  <2>. QED BY <1>4, <2>1, <2>2 DEF Expire
<1>5. CASE Enter(r)
  BY <1>5 DEF Enter
<1>6. CASE Check(r)
  <2>1. Forced(r, FirstStage(shape[r])).stage \in {"wait_store", "load", "execute", "settle"}
    <3>1. lease[r].request \in {"unforced", "held", "failed"}
      OBVIOUS
    <3>. QED BY <3>1 DEF Forced, FirstStage
  <2>2. PICK stage \in {"wait_store", "load", "execute", "settle"} : pc' = [pc EXCEPT ![r] = stage]
    BY <1>6, <2>1 DEF Check
  <2>3. UNCHANGED <<shape, context, lease, idle, rows, commits, answer>> /\ DOMAIN result' = Requests
    BY <1>6 DEF Check
  <2>. QED BY <2>2, <2>3
<1>7. CASE Load(r)      BY <1>7 DEF Load
<1>8. CASE Commit(r)    BY <1>8 DEF Commit
<1>9. CASE RollBack(r)  BY <1>9 DEF RollBack
<1>10. CASE Render(r)   BY <1>10 DEF Render
<1>11. CASE Settle(r)
  <2>1. lease' \in [Requests -> [request : {"unforced", "held", "failed"}, own : BOOLEAN]]
    BY <1>11 DEF Settle, DropContext
  <2>2. /\ DOMAIN result' = Requests /\ DOMAIN answer' = Requests
        /\ pc' = [pc EXCEPT ![r] = "answered"] /\ UNCHANGED <<shape, context, rows, commits>>
    BY <1>11 DEF Settle
  <2>. QED BY <2>1, <2>2
<1>12. CASE Escape(r)
  <2>1. lease' \in [Requests -> [request : {"unforced", "held", "failed"}, own : BOOLEAN]]
    BY <1>12 DEF Escape, DropContext
  <2>. QED BY <1>12, <2>1 DEF Escape
<1>. QED BY <1>1, <1>2, <1>3, <1>4, <1>5, <1>6, <1>7, <1>8, <1>9, <1>10, <1>11, <1>12 DEF Advance

LEMMA InitInvariant == Init => PipelineInv
<1>. SUFFICES ASSUME Init PROVE PipelineInv
  OBVIOUS
<1>1. Typed
  BY PoolAssumption DEF Init, Typed, Stages
<1>2. ASSUME NEW q \in Requests PROVE Fits(q)
  BY DEF Init, Fits, LeaseFits, CommitsFit, WrapFits, AnswerFits, Answered, Waiting
<1>3. HeldHandles = {}
  BY DEF Init, HeldHandles
<1>4. idle + Cardinality(HeldHandles) = PoolSize
  BY <1>3, FS_EmptySet, PoolAssumption DEF Init
<1>. QED BY <1>1, <1>2, <1>4 DEF PipelineInv

LEMMA NextInvariant == PipelineInv /\ [Next]_vars => PipelineInv'
<1>. SUFFICES ASSUME PipelineInv, [Next]_vars PROVE PipelineInv'
  OBVIOUS
<1>0. Typed /\ (\A q \in Requests : Fits(q)) /\ idle + Cardinality(HeldHandles) = PoolSize
  BY DEF PipelineInv
<1>1. CASE Next
  <2>1. PICK r \in Requests : Arrive(r) \/ Advance(r)
    BY <1>1 DEF Next
  <2>2. \A q \in Requests : Fits(q)'
    BY <1>0, <2>1, StepFits
  <2>3. idle' \in Nat /\ idle' + Cardinality(HeldHandles') = PoolSize
    BY <1>0, <2>1, HandlesKept
  <2>4. Typed'
    BY <1>0, <2>1, <2>3, StepTyped
  <2>. QED BY <2>2, <2>3, <2>4 DEF PipelineInv
<1>2. CASE UNCHANGED vars
  <2>1. Typed'
    BY <1>0, <1>2 DEF Typed, vars
  <2>2. ASSUME NEW q \in Requests PROVE Fits(q)'
    BY <1>0, <1>2, UntouchedFits DEF Untouched, vars
  <2>3. HeldHandles' = HeldHandles /\ idle' = idle
    BY <1>2 DEF HeldHandles, vars
  <2>. QED BY <1>0, <2>1, <2>2, <2>3 DEF PipelineInv
<1>. QED BY <1>1, <1>2

\* The strengthening holds of every state of every run, for any number of
\* requests over a pool of any size.
THEOREM PipelineInvariant == Spec => []PipelineInv
BY InitInvariant, NextInvariant, PTL DEF Spec

-----------------------------------------------------------------------------
(* What it shows.                                                          *)

\* A 4xx means nothing was written: create, update and link commit before the
\* document is built, so only the server's own faults may follow the commit.
THEOREM RefusalsWroteNothing == Spec => []RefusedRequestsWroteNothing
<1>1. PipelineInv => RefusedRequestsWroteNothing
  BY DEF PipelineInv, RefusedRequestsWroteNothing, Fits, AnswerFits
<1>. QED BY <1>1, PipelineInvariant, PTL

\* A successful write is one committed transaction, and a read is none.
THEOREM SuccessesCommittedOnce == Spec => []SuccessfulWritesCommittedOnce
<1>1. PipelineInv => SuccessfulWritesCommittedOnce
  BY DEF PipelineInv, SuccessfulWritesCommittedOnce, Fits, AnswerFits, Expected, Succeeded
<1>. QED BY <1>1, PipelineInvariant, PTL

\* A request waits for its own connection only while it has none: connection()
\* is forced once and the handle shared by every store of the request.
THEOREM WaitsEmptyHanded == Spec => []NoWaitWhileHolding
<1>1. PipelineInv => NoWaitWhileHolding
  BY DEF PipelineInv, NoWaitWhileHolding, Fits, LeaseFits, Waiting
<1>. QED BY <1>1, PipelineInvariant, PTL

\* After a failed acquire no store() of the request reads or writes.
THEOREM AcquireFailsOnce == Spec => []FailedAcquireIsFinal
<1>1. PipelineInv => FailedAcquireIsFinal
  BY DEF PipelineInv, FailedAcquireIsFinal, Fits, LeaseFits, CommitsFit
<1>. QED BY <1>1, PipelineInvariant, PTL

\* Every handle of the pool is idle or held by a request not yet answered.
THEOREM HandlesComeBack == Spec => []NoHandleLeaks
<1>1. PipelineInv => NoHandleLeaks
  BY DEF PipelineInv, NoHandleLeaks, Fits, LeaseFits, Answered
<1>. QED BY <1>1, PipelineInvariant, PTL

\* Past the crossing only an unwritable document escapes, and a 5xx is redacted.
THEOREM ErrorsStayInside == Spec => []BoundaryAnswersItself
<1>1. PipelineInv => BoundaryAnswersItself
  BY DEF PipelineInv, BoundaryAnswersItself, Fits, AnswerFits
<1>. QED BY <1>1, PipelineInvariant, PTL
-----------------------------------------------------------------------------
(***************************************************************************)
(* The JSON:API boundary and the body of a request, for any headers, bodies*)
(* and schema: nothing reaches the store under headers JSON:API rules out, *)
(* and what is said of a body is true of what was sent.                    *)
(***************************************************************************)

\* FirstFault is "ok" only of checks that all are, and else one of them.
LEMMA FirstFaultOf ==
    ASSUME NEW n \in Nat, NEW checks, DOMAIN checks = 1..n
    PROVE  \/ FirstFault(checks) = Ok
           \/ \E i \in 1..n : FirstFault(checks) = checks[i]
<1>. DEFINE faults == {i \in 1..n : checks[i] # Ok}
<1>1. CASE faults = {}
  BY <1>1 DEF FirstFault
<1>2. CASE faults # {}
  <2>1. Min(faults) \in faults
    BY <1>2, LeastIsMember
  <2>. QED BY <1>2, <2>1 DEF FirstFault
<1>. QED BY <1>1, <1>2

LEMMA AnyFaultOf ==
    ASSUME NEW codes
    PROVE  AnyFault(codes) = Ok \/ AnyFault(codes) \in codes
BY DEF AnyFault

-----------------------------------------------------------------------------
(* Headers.                                                                *)

TypeCodes == {"NotAJsonApiMediaType", "UnsupportedQualityValue", "UnsupportedMediaTypeParameter"}

LEMMA TypeFaults ==
    ASSUME NEW media
    PROVE  JsonApiMediaType(media).fault \in {Ok} \cup TypeCodes
<1>1. \A p : ParameterFault(p) \in {Ok} \cup TypeCodes
  BY DEF ParameterFault, TypeCodes, Ok
<1>. QED BY <1>1 DEF JsonApiMediaType, TypeCodes

\* A media type that passes is one of JSON:API's, without an extension; its
\* weight is that of one of its parameters.
LEMMA PassedTypes ==
    ASSUME NEW media, media.parameters \in Seq(ToSet(media.parameters)),
           \A p \in ToSet(media.parameters) : IsParameter(p),
           JsonApiMediaType(media).fault = Ok,
           Unsupported(JsonApiMediaType(media)) = {}
    PROVE  /\ media.essence \in Accepted
           /\ \A i \in DOMAIN media.parameters :
                \/ media.parameters[i].name = "profile"
                \/ media.parameters[i].name = "q" /\ media.parameters[i].weight # "malformed"
           /\ NamedParameters(media, "q") # {} =>
                \E i \in NamedParameters(media, "q") :
                    /\ JsonApiMediaType(media).quality = media.parameters[i].weight
                    /\ media.parameters[i].weight \in {"zero", "some"}
<1>. DEFINE parameters == media.parameters
            faulty == {i \in DOMAIN parameters : ParameterFault(parameters[i]) # Ok}
            weights == NamedParameters(media, "q")
<1>1. DOMAIN parameters = 1..Len(parameters) /\ Len(parameters) \in Nat
  OBVIOUS
<1>2. \A i \in DOMAIN parameters : IsParameter(parameters[i])
  BY DEF ToSet
<1>3. media.essence \in Accepted
  BY DEF JsonApiMediaType, Ok
<1>4. faulty = {}
  <2>1. SUFFICES ASSUME faulty # {} PROVE FALSE
    OBVIOUS
  <2>2. Min(faulty) \in faulty
    BY <1>1, <2>1, LeastIsMember
  <2>3. JsonApiMediaType(media).fault = ParameterFault(parameters[Min(faulty)])
    BY <1>3, <2>1 DEF JsonApiMediaType
  <2>. QED BY <2>2, <2>3
<1>5. \A i \in DOMAIN parameters :
        \/ parameters[i].name \in {"profile", "ext"}
        \/ parameters[i].name = "q" /\ parameters[i].weight # "malformed"
  BY <1>4 DEF ParameterFault, Ok
<1>6. \A i \in DOMAIN parameters : parameters[i].name # "ext"
  <2>1. SUFFICES ASSUME NEW i \in DOMAIN parameters, parameters[i].name = "ext" PROVE FALSE
    OBVIOUS
  <2>2. PICK uri : uri \in parameters[i].uris
    BY <1>2, <2>1 DEF IsParameter
  <2>3. uri \in JsonApiMediaType(media).extensions
    BY <2>1, <2>2 DEF JsonApiMediaType, NamedParameters
  <2>. QED BY <2>3 DEF Unsupported, SupportedExtensions
<1>7. ASSUME weights # {}
      PROVE  \E i \in weights : /\ JsonApiMediaType(media).quality = parameters[i].weight
                                /\ parameters[i].weight \in {"zero", "some"}
  <2>1. Max(weights) \in weights
    BY <1>1, <1>7, GreatestIsMember DEF NamedParameters
  <2>2. JsonApiMediaType(media).quality = parameters[Max(weights)].weight
    BY <1>7 DEF JsonApiMediaType
  <2>3. \A i \in weights : parameters[i].weight \in {"zero", "some"}
    BY <1>2, <1>5 DEF IsParameter, NamedParameters
  <2>. QED BY <2>1, <2>2, <2>3
<1>. QED BY <1>3, <1>5, <1>6, <1>7

LEMMA AcceptedTypesAreUsable ==
    ASSUME NEW media, media.parameters \in Seq(ToSet(media.parameters)),
           \A p \in ToSet(media.parameters) : IsParameter(p),
           JsonApiMediaType(media).fault = Ok,
           Unsupported(JsonApiMediaType(media)) = {},
           JsonApiMediaType(media).quality # "zero"
    PROVE  Usable(media)
BY PassedTypes DEF Usable

NegotiationCodes ==
    {Ok, "MissingContentType", "InvalidHeaderValue", "InvalidContentType",
     "UnsupportedContentType", "ContentTypeCarriesQuality", "UnsupportedJsonApiExtension",
     "InvalidAcceptHeader", "NoAcceptableMediaType", "UnusableAcceptMediaTypes",
     "UnsatisfiableJsonApiExtension"} \cup TypeCodes

LEMMA NegotiationEndsIn ==
    ASSUME NEW contentType, NEW accept, NEW bodied \in BOOLEAN
    PROVE  Negotiate(contentType, accept, bodied) \in NegotiationCodes
<1>1. ContentTypeFault(contentType, bodied) \in NegotiationCodes
  BY TypeFaults DEF ContentTypeFault, NegotiationCodes
<1>2. AcceptFault(accept) \in NegotiationCodes
  BY DEF AcceptFault, NegotiationCodes
<1>. QED BY <1>1, <1>2 DEF Negotiate

LEMMA ContentTypeConforms ==
    ASSUME NEW header, IsHeader(header), header.sent, NEW bodied,
           ContentTypeFault(header, bodied) = Ok
    PROVE  /\ header.readable
           /\ \A m \in ToSet(header.instances) :
                m.essence = "" \/ /\ m.essence = "json_api"
                                  /\ Usable(m)
                                  /\ NamedParameters(m, "q") = {}
<1>. DEFINE listed == ListFrom(header)
            media == header.instances[CHOOSE i \in listed : TRUE]
            typed == JsonApiMediaType(media)
<1>1. header.readable /\ ~(\A i \in listed : listed # {i})
  BY DEF ContentTypeFault, Ok
<1>2. PICK i \in listed : listed = {i}
  BY <1>1
<1>3. media = header.instances[i] /\ media \in ToSet(header.instances)
  BY <1>2 DEF ListFrom, ToSet
<1>. HIDE DEF media
<1>4. /\ media.essence = "json_api" /\ typed.fault = Ok
      /\ typed.quality = "none" /\ Unsupported(typed) = {}
  BY <1>1 DEF ContentTypeFault, Ok, media
<1>5. /\ media.parameters \in Seq(ToSet(media.parameters))
      /\ \A p \in ToSet(media.parameters) : IsParameter(p)
  BY <1>3 DEF IsHeader
<1>6. NamedParameters(media, "q") = {}
  BY <1>4, <1>5, PassedTypes
<1>7. Usable(media)
  BY <1>4, <1>5, AcceptedTypesAreUsable
<1>8. ASSUME NEW m \in ToSet(header.instances), m.essence # "" PROVE m = media
  BY <1>2, <1>3, <1>8 DEF ListFrom, ToSet
<1>. QED BY <1>1, <1>4, <1>6, <1>7, <1>8

LEMMA AcceptConforms ==
    ASSUME NEW header, IsHeader(header), header.sent, AcceptFault(header) = Ok
    PROVE  header.readable /\ \E m \in ToSet(header.instances) : Usable(m)
<1>. DEFINE media == {header.instances[i] : i \in ListFrom(header)}
            types == AcceptableTypes(media)
<1>1. header.readable /\ ~(\A t \in types : Unsupported(t) # {})
  BY DEF AcceptFault, Ok
<1>2. PICK t \in types : Unsupported(t) = {}
  BY <1>1
<1>3. PICK m \in media : t = JsonApiMediaType(m) /\ t.fault = Ok /\ t.quality # "zero"
  BY <1>2 DEF AcceptableTypes
<1>4. m \in ToSet(header.instances)
  BY <1>3 DEF ListFrom, ToSet
<1>5. Usable(m)
  BY <1>2, <1>3, <1>4, AcceptedTypesAreUsable DEF IsHeader
<1>. QED BY <1>1, <1>4, <1>5

\* What negotiation lets through conforms, given that the probe is right.
LEMMA NegotiationConforms ==
    ASSUME NEW s, IsShape(s), NEW found \in BOOLEAN, ~found => s.bytes = <<>>,
           Negotiate(s.contentType, s.accept, found) = Ok
    PROVE  ConformingHeaders(s)
<1>1. ContentTypeFault(s.contentType, found) = Ok /\ AcceptFault(s.accept) = Ok
  BY DEF Negotiate
<1>2. ~s.contentType.sent => ~found
  BY <1>1 DEF ContentTypeFault, Ok
<1>. QED BY <1>1, <1>2, ContentTypeConforms, AcceptConforms DEF ConformingHeaders, IsShape

-----------------------------------------------------------------------------
(* The body.                                                               *)

\* A context that still knows what its client sent.
Keeps(c, s) ==
    /\ DOMAIN c = {"held", "bytes", "broken", "present"}
    /\ c.held \in BOOLEAN /\ c.present \in {"unprobed", "yes", "no"}
    /\ c.broken = s.broken
    /\ c.held => c.bytes = s.bytes
    /\ c.present = "no" => s.bytes = <<>>

LEMMA TakenBody ==
    ASSUME NEW s, NEW c, Keeps(c, s)
    PROVE  LET taken == RequireBody(c)
           IN /\ Keeps(taken.context, s) /\ ~taken.context.held
              /\ taken.context.present = c.present
              /\ taken.fault = IF c.held THEN Ok ELSE "RequestBodyConsumed"
              /\ c.held => taken.bytes = s.bytes
BY DEF RequireBody, Keeps

\* The probe puts back what it read, and says "no body" of an empty one only.
LEMMA ProbedBody ==
    ASSUME NEW s, IsShape(s), NEW c, Keeps(c, s), c.held \/ c.present = "unprobed"
    PROVE  LET probe == ContainsBody(c)
           IN /\ Keeps(probe.context, s)
              /\ probe.found \in BOOLEAN
              /\ probe.fault \in {Ok, "RequestBodyConsumed", "RequestBodyPeekFailed"}
              /\ probe.fault = "RequestBodyConsumed" => ~c.held
              /\ probe.fault = Ok => /\ c.held /\ probe.context.held
                                     /\ probe.context.present # "unprobed"
                                     /\ ~probe.found => s.bytes = <<>>
<1>. DEFINE taken == RequireBody(c)
            peeked == IF taken.bytes = <<>> THEN <<>> ELSE <<Head(taken.bytes)>>
            rest == IF taken.bytes = <<>> THEN <<>> ELSE Tail(taken.bytes)
            probe == ContainsBody(c)
<1>1. CASE c.present # "unprobed"
  <2>1. probe = [fault |-> Ok, found |-> c.present = "yes", context |-> c]
    BY <1>1 DEF ContainsBody
  <2>. QED BY <1>1, <2>1 DEF Keeps, Ok
<1>2. CASE c.present = "unprobed" /\ ~c.held
  <2>1. probe = [fault |-> "RequestBodyConsumed", found |-> FALSE, context |-> taken.context]
    BY <1>2, TakenBody DEF ContainsBody, Ok
  <2>. QED BY <1>2, <2>1, TakenBody DEF Ok
<1>3. CASE c.present = "unprobed" /\ c.held /\ c.broken = "at_once"
  <2>1. probe = [fault |-> "RequestBodyPeekFailed", found |-> FALSE, context |-> taken.context]
    BY <1>3, TakenBody DEF ContainsBody, Ok
  <2>. QED BY <1>3, <2>1, TakenBody DEF Ok
<1>4. CASE c.present = "unprobed" /\ c.held /\ c.broken # "at_once"
  <2>1. taken.fault = Ok /\ taken.bytes = s.bytes /\ Keeps(taken.context, s)
    BY <1>4, TakenBody
  <2>2. s.bytes \in Seq(ToSet(s.bytes))
    BY DEF IsShape
  <2>3. peeked \o rest = s.bytes /\ (peeked = <<>> <=> s.bytes = <<>>)
    BY <2>1, <2>2
  <2>. DEFINE present == IF peeked = <<>> THEN "no" ELSE "yes"
              after == [taken.context EXCEPT !.held = TRUE, !.bytes = peeked \o rest, !.present = present]
  <2>4. /\ probe.fault = Ok /\ probe.context = after
        /\ probe.found = (peeked # <<>>)
    BY <1>4, <2>1 DEF ContainsBody, Ok
  <2>5. /\ DOMAIN after = {"held", "bytes", "broken", "present"}
        /\ after.held = TRUE /\ after.bytes = s.bytes /\ after.broken = taken.context.broken
        /\ after.present = present
    BY <2>1, <2>3 DEF Keeps
  <2>6. Keeps(after, s) /\ after.held /\ after.present # "unprobed"
    BY <2>1, <2>3, <2>5 DEF Keeps
  <2>7. /\ probe.fault = Ok /\ probe.context = after
        /\ probe.found \in BOOLEAN /\ (~probe.found => s.bytes = <<>>)
    <3>. HIDE DEF after, peeked, rest, probe
    <3>. QED BY <2>3, <2>4
  <2>. HIDE DEF after, peeked, rest, probe
  <2>8. /\ Keeps(probe.context, s) /\ probe.found \in BOOLEAN
        /\ probe.fault = Ok /\ probe.fault # "RequestBodyConsumed"
        /\ c.held /\ probe.context.held /\ probe.context.present # "unprobed"
        /\ ~probe.found => s.bytes = <<>>
    BY <1>4, <2>6, <2>7 DEF Ok
  <2>. QED BY <2>8 DEF probe
<1>. QED BY <1>1, <1>2, <1>3, <1>4 DEF Keeps

\* What a handler behind the boundary is told of the body is true of it.
LEMMA ParsedBody ==
    ASSUME NEW s, IsShape(s), NEW c, Keeps(c, s), c.held, c.present # "unprobed"
    PROVE  LET parsed == ParseBody(c, Sent(s))
           IN /\ parsed.payload.document = s.payload.document
              /\ parsed.fault \in {Ok, "MalformedRequestBody", "InvalidRequestBodyContent"}
              /\ parsed.fault = "MalformedRequestBody" =>
                     s.payload.form = "malformed" \/ s.broken = "later"
              /\ parsed.fault = Ok /\ parsed.payload.form = "null" =>
                     s.bytes = <<>> \/ s.payload.form = "null"
<1>1. /\ ContainsBody(c).fault = Ok /\ ContainsBody(c).context = c
      /\ ContainsBody(c).found <=> c.present = "yes"
  BY DEF ContainsBody
<1>2. CASE c.present = "no"
  <2>1. ParseBody(c, Sent(s)) =
           [fault |-> Ok, payload |-> [form |-> "null", document |-> Sent(s).payload.document]]
    <3>1. ~ContainsBody(c).found
      BY <1>1, <1>2
    <3>. QED BY <1>1, <3>1, Zenon DEF ParseBody
  <2>. QED BY <1>2, <2>1 DEF Keeps, Sent, Ok
<1>3. CASE c.present = "yes"
  <2>1. RequireBody(c).fault = Ok /\ RequireBody(c).bytes = s.bytes
    BY TakenBody
  <2>2. ParseBody(c, Sent(s)) = Decode(s.bytes, s.broken, Sent(s))
    <3>1. ContainsBody(c).found /\ c.broken = s.broken
      BY <1>1, <1>3 DEF Keeps
    <3>. QED BY <1>1, <2>1, <3>1, Zenon DEF ParseBody
  <2>. QED BY <2>2 DEF Decode, Sent, JsonError, Ok
<1>. QED BY <1>2, <1>3 DEF Keeps

-----------------------------------------------------------------------------
(* What a handler's checks end with.                                       *)

DocumentCodes ==
    {"ErrorDocumentSubmitted", "PrimaryDataIsNotAResource", "ResourceTypeMismatch",
     "ResourceIdMissing", "ResourceIdMismatch", "UnresolvableIdentifier",
     "IdentifierTypeMismatch", "InvalidIntegerIdentifier", "UnknownAttribute",
     "InvalidRequestBodyContent", "ResourceValidationFailure", "ClientGeneratedIdNotSupported",
     "InvalidLinkage", "MismatchedRelationshipKind", "QueryValidationFailure",
     "RequiredRouteParameterMissing", "FailedToParseRouteParameter"}

LEMMA MaterialiseEndsIn ==
    ASSUME NEW identifier, NEW type, NEW key
    PROVE  MaterialiseFault(identifier, type, key) \in {Ok} \cup DocumentCodes
BY DEF MaterialiseFault, DocumentCodes

LEMMA RelationshipEndsIn ==
    ASSUME NEW linkage, NEW n \in Nat, DOMAIN linkage.ids = 1..n, NEW descriptor
    PROVE  RelationshipFault(linkage, descriptor) \in {Ok} \cup DocumentCodes
<1>. DEFINE checks == [i \in DOMAIN linkage.ids |->
                         MaterialiseFault(linkage.ids[i], descriptor.related, descriptor.key)]
<1>1. FirstFault(checks) \in {Ok} \cup DocumentCodes
  <2>1. \A i \in 1..n : checks[i] \in {Ok} \cup DocumentCodes
    BY MaterialiseEndsIn
  <2>2. DOMAIN checks = 1..n
    OBVIOUS
  <2>. HIDE DEF checks
  <2>. QED BY <2>1, <2>2, FirstFaultOf
<1>. QED BY <1>1 DEF RelationshipFault, DocumentCodes

LEMMA IdEndsIn ==
    ASSUME NEW routeId
    PROVE  IdFault(routeId) \in {Ok} \cup DocumentCodes
BY DEF IdFault, DocumentCodes

\* What `parsed` allows beyond the faults of a document.
Told(parsed) ==
    IF parsed.fault # Ok THEN {parsed.fault}
    ELSE IF parsed.payload.form = "null" THEN {"MissingResourceBody", "MissingLinkageBody"}
    ELSE {}

LEMMA RecordEndsIn ==
    ASSUME NEW s, IsShape(s), NEW parsed, parsed.payload.document = s.payload.document, NEW routeId
    PROVE  RecordFault(parsed, routeId) \in {Ok} \cup DocumentCodes \cup Told(parsed)
<1>. DEFINE resource == parsed.payload.document.data[1]
            id == IF resource.id = NoId THEN Ok
                  ELSE MaterialiseFault(resource, Schema.name, Schema.key)
            attributes == IF ~(resource.attributes \subseteq Schema.attributes) THEN "UnknownAttribute"
                          ELSE IF ~resource.convertible THEN JsonError("Data")
                          ELSE Ok
            Attached(name) == IF name \notin DOMAIN Schema.relationships
                              THEN "ResourceValidationFailure"
                              ELSE RelationshipFault(resource.relationships[name],
                                                     Schema.relationships[name])
            related == AnyFault({Attached(n) : n \in DOMAIN resource.relationships})
<1>1. CASE ResourceFault(parsed, routeId) # Ok
  <2>1. ResourceFault(parsed, routeId) \in {Ok} \cup DocumentCodes \cup Told(parsed)
    BY DEF ResourceFault, DocumentCodes, Told
  <2>. QED BY <1>1, <2>1 DEF RecordFault
<1>2. CASE ResourceFault(parsed, routeId) = Ok
  <2>1. /\ resource \in ToSet(s.payload.document.data)
    <3>1. parsed.payload.document.content = "record"
      BY <1>2 DEF ResourceFault, Ok
    <3>. QED BY <3>1 DEF IsShape, ToSet
  <2>2. ASSUME NEW n \in DOMAIN resource.relationships
        PROVE  Attached(n) \in {Ok} \cup DocumentCodes
    <3>. DEFINE ids == resource.relationships[n].ids
    <3>1. ids \in Seq(ToSet(ids))
      BY <2>1 DEF IsShape
    <3>2. Len(ids) \in Nat /\ DOMAIN ids = 1..Len(ids)
      BY <3>1
    <3>3. RelationshipFault(resource.relationships[n], Schema.relationships[n])
             \in {Ok} \cup DocumentCodes
      BY <3>2, RelationshipEndsIn
    <3>. QED BY <3>3 DEF DocumentCodes
  <2>3. id \in {Ok} \cup DocumentCodes
    BY MaterialiseEndsIn
  <2>4. attributes \in {Ok} \cup DocumentCodes
    BY DEF DocumentCodes, JsonError
  <2>5. related \in {Ok} \cup DocumentCodes
    BY <2>2, AnyFaultOf
  <2>6. RecordFault(parsed, routeId) = FirstFault(<<id, attributes, related>>)
    BY <1>2 DEF RecordFault
  <2>. HIDE DEF id, attributes, related
  <2>. DEFINE checks == <<id, attributes, related>>
  <2>7. DOMAIN checks = 1..3 /\ \A i \in 1..3 : checks[i] \in {Ok} \cup DocumentCodes
    BY <2>3, <2>4, <2>5
  <2>. HIDE DEF checks
  <2>8. FirstFault(checks) \in {Ok} \cup DocumentCodes
    BY <2>7, FirstFaultOf
  <2>. QED BY <2>6, <2>8 DEF checks
<1>. QED BY <1>1, <1>2

LEMMA LinkageEndsIn ==
    ASSUME NEW s, IsShape(s), NEW parsed, parsed.payload.document = s.payload.document
    PROVE  LinkageChecks(s, parsed) \in {Ok} \cup DocumentCodes \cup Told(parsed)
<1>. DEFINE document == parsed.payload.document
            linkage == LinkageOf(document)
            descriptor == Schema.relationships[s.relationship]
<1>1. LinkageFault(parsed) \in {Ok} \cup DocumentCodes \cup Told(parsed)
  BY DEF LinkageFault, DocumentCodes, Told
<1>2. Len(document.data) \in Nat /\ DOMAIN linkage.ids = 1..Len(document.data)
  <2>1. document.data \in Seq(ToSet(document.data))
    BY DEF IsShape
  <2>2. linkage.ids = [i \in DOMAIN document.data |->
                          [type |-> document.data[i].type, id |-> document.data[i].id]]
    BY Zenon DEF LinkageOf
  <2>. QED BY <2>1, <2>2
<1>. HIDE DEF linkage
<1>3. RelationshipFault(linkage, descriptor) \in {Ok} \cup DocumentCodes
  BY <1>2, RelationshipEndsIn
<1>4. ManyFault(linkage, descriptor) \in {Ok} \cup DocumentCodes
  BY DEF ManyFault, DocumentCodes
<1>. QED BY <1>1, <1>3, <1>4 DEF LinkageChecks, linkage

\* A handler refuses a request for its document, its id or its query, and
\* says of its body only what parsing found.
LEMMA ChecksEndIn ==
    ASSUME NEW s, IsShape(s), s.endpoint # "unmatched",
           NEW parsed, parsed.payload.document = s.payload.document
    PROVE  ChecksBeforeStore(s, parsed) \in {Ok} \cup DocumentCodes \cup Told(parsed)
<1>. DEFINE Codes == {Ok} \cup DocumentCodes \cup Told(parsed)
<1>1. \A query : QueryFault(query) \in Codes
  BY DEF QueryFault, DocumentCodes
<1>2. IdFault(s.routeId) \in Codes
  BY IdEndsIn
<1>3. LinkageChecks(s, parsed) \in Codes
  BY LinkageEndsIn
<1>4. RecordChecks(s, parsed) \in Codes
  <2>1. \A resource : ClientIdFault(resource) \in Codes
    BY DEF ClientIdFault, DocumentCodes
  <2>2. \A routeId : RecordFault(parsed, routeId) \in Codes
    BY RecordEndsIn
  <2>. HIDE DEF Codes
  <2>. QED BY <1>1, <2>1, <2>2 DEF RecordChecks
<1>5. FirstFault(<<QueryFault(s.query), IdFault(s.routeId)>>) \in Codes
  <2>. DEFINE checks == <<QueryFault(s.query), IdFault(s.routeId)>>
  <2>1. DOMAIN checks = 1..2 /\ \A i \in 1..2 : checks[i] \in Codes
    BY <1>1, <1>2
  <2>2. Ok \in Codes
    OBVIOUS
  <2>. HIDE DEF checks, Codes
  <2>3. FirstFault(checks) \in Codes
    BY <2>1, <2>2, FirstFaultOf
  <2>. QED BY <2>3 DEF checks
<1>6. s.endpoint \in Endpoints /\ Ok \in Codes
  BY DEF IsShape
<1>. HIDE DEF Codes
<1>7. ChecksBeforeStore(s, parsed) \in Codes
  BY <1>1, <1>2, <1>3, <1>4, <1>5, <1>6 DEF ChecksBeforeStore, Endpoints, Targeted
<1>. QED BY <1>7 DEF Codes

-----------------------------------------------------------------------------
(* The invariant.                                                          *)

AllCodes == {Ok} \cup RoutingErrors \cup DatabaseErrors \cup SerialisationErrors
BodyCodes == {"MissingResourceBody", "MissingLinkageBody", "MalformedRequestBody",
              "RequestBodyConsumed"}
PlainCodes == AllCodes \ BodyCodes

\* What a code says of the body of a request.
Said(code, s) ==
    /\ code \in {"MissingResourceBody", "MissingLinkageBody"} =>
           s.bytes = <<>> \/ s.payload.form = "null"
    /\ code = "MalformedRequestBody" => s.payload.form = "malformed" \/ s.broken = "later"
    /\ code = "RequestBodyConsumed" => s.wrap = "drains"

\* Where a request is tells what its context still has of the body.
BodyFits(r) ==
    /\ Keeps(context[r], shape[r])
    /\ pc[r] = "wrap" => context[r].held /\ context[r].present = "unprobed"
    /\ pc[r] \in {"wait_own", "wait_peek", "enter"} =>
           \/ context[r].held
           \/ context[r].present = "unprobed" /\ shape[r].wrap = "drains"
    /\ pc[r] = "check" => context[r].held /\ context[r].present # "unprobed"

\* Behind the boundary the headers have been negotiated.
HeadersFit(r) ==
    \/ pc[r] \in {"check", "wait_store", "load", "execute", "render"}
    \/ pc[r] = "settle" /\ result[r] = Ok
    \/ Succeeded(r)
    => ConformingHeaders(shape[r])

Truthful(r) ==
    /\ pc[r] = "idle" => result[r] = Ok
    /\ result[r] \in AllCodes
    /\ pc[r] # "idle" =>
         /\ shape[r] \in Shapes[r]
         /\ shape[r].endpoint = "unmatched" => pc[r] = "answered"
         /\ BodyFits(r) /\ HeadersFit(r) /\ Said(result[r], shape[r])

ResultTabled == result = [r \in Requests |-> result[r]]

BoundaryInv == PipelineInv /\ ResultTabled /\ \A r \in Requests : Truthful(r)

LEMMA OrdinaryCodes ==
    /\ {Ok, "DatabaseFailure", "RecordNotFound", "RequestBodyPeekFailed", "GeneratedInvalidHeader"}
         \cup NegotiationCodes \cup DocumentCodes \cup SerialisationErrors \subseteq PlainCodes
    /\ \A s : StoreFaults(s) \subseteq PlainCodes
<1>1. /\ {Ok, "DatabaseFailure", "RecordNotFound", "RequestBodyPeekFailed", "GeneratedInvalidHeader"}
           \subseteq PlainCodes
      /\ NegotiationCodes \subseteq PlainCodes
      /\ DocumentCodes \subseteq PlainCodes
      /\ SerialisationErrors \subseteq PlainCodes
  BY DEF PlainCodes, AllCodes, BodyCodes, Ok, RoutingErrors, DatabaseErrors, SerialisationErrors,
         NegotiationCodes, TypeCodes, DocumentCodes, UnsupportedMediaType, NotAcceptable
<1>2. ASSUME NEW s PROVE StoreFaults(s) \subseteq PlainCodes
  <2>1. StoreFaults(s) \subseteq {"DatabaseFailure", "ConstraintViolation", "RelatedRecordNotFound",
                                  "RecordNotFound", "MismatchedRelationshipKind"}
    BY DEF StoreFaults
  <2>. QED BY <2>1 DEF PlainCodes, AllCodes, BodyCodes, Ok, DatabaseErrors
<1>. QED BY <1>1, <1>2

LEMMA PlainCodesSayNothing ==
    ASSUME NEW code \in PlainCodes, NEW s
    PROVE  code \in AllCodes /\ Said(code, s)
BY DEF PlainCodes, BodyCodes, Said

\* A request that keeps what it was sent, its context and its place among the
\* stages stays truthful if its new result is an ordinary one.
LEMMA StaysTruthful ==
    ASSUME NEW r \in Requests, Truthful(r), pc[r] \notin {"idle", "answered"},
           pc'[r] \in Stages \ {"idle", "wrap", "wait_own", "wait_peek", "enter", "check", "answered"},
           shape' = shape, context' = context, result'[r] \in PlainCodes,
           ConformingHeaders(shape[r]) \/ (pc'[r] = "settle" /\ result'[r] # Ok)
    PROVE  Truthful(r)'
<1>1. /\ shape[r] \in Shapes[r] /\ shape[r].endpoint # "unmatched" /\ Keeps(context[r], shape[r])
  BY DEF Truthful, BodyFits
<1>2. BodyFits(r)'
  BY <1>1 DEF BodyFits
<1>3. ConformingHeaders(shape[r])' <=> ConformingHeaders(shape[r])
  OBVIOUS
<1>4. HeadersFit(r)'
  BY <1>3 DEF HeadersFit, Succeeded, Answered
<1>5. result'[r] \in AllCodes /\ Said(result'[r], shape'[r])
  BY PlainCodesSayNothing
<1>. QED BY <1>1, <1>2, <1>4, <1>5 DEF Truthful

LEMMA ShapesAreShapes ==
    ASSUME NEW r \in Requests, NEW s \in Shapes[r]
    PROVE  IsShape(s)
BY ShapesAssumption

-----------------------------------------------------------------------------
(* One lemma per action.                                                   *)

LEMMA ArriveTruthful ==
    ASSUME Typed, NEW r \in Requests, Truthful(r), Arrive(r)
    PROVE  Truthful(r)'
<1>1. PICK s \in Shapes[r] :
        /\ shape' = [shape EXCEPT ![r] = s]
        /\ context' = [context EXCEPT ![r] = FromRequest(s.bytes, s.broken)]
        /\ IF s.endpoint = "unmatched"
           THEN /\ pc' = [pc EXCEPT ![r] = "answered"]
                /\ answer' = [answer EXCEPT ![r] = [Unanswered EXCEPT !.kind = "empty", !.status = 404]]
           ELSE pc' = [pc EXCEPT ![r] = "wrap"]
  BY DEF Arrive
<1>2. /\ shape'[r] = s /\ context'[r] = FromRequest(s.bytes, s.broken)
      /\ result'[r] = Ok
  BY <1>1 DEF Arrive, Typed, Truthful
<1>3. /\ Keeps(context'[r], s) /\ context'[r].held /\ context'[r].present = "unprobed"
  BY <1>2 DEF FromRequest, Keeps
<1>4. Ok \in AllCodes /\ Said(Ok, s)
  BY OrdinaryCodes, PlainCodesSayNothing
<1>5. CASE s.endpoint = "unmatched"
  <2>1. pc'[r] = "answered" /\ answer'[r].status = 404
    <3>1. /\ pc' = [pc EXCEPT ![r] = "answered"]
          /\ answer' = [answer EXCEPT ![r] = [Unanswered EXCEPT !.kind = "empty", !.status = 404]]
      BY <1>1, <1>5
    <3>. QED BY <3>1 DEF Typed, Unanswered
  <2>. QED BY <1>2, <1>3, <1>4, <2>1 DEF Truthful, BodyFits, HeadersFit, Succeeded, Answered
<1>6. CASE s.endpoint # "unmatched"
  <2>1. pc'[r] = "wrap"
    BY <1>1, <1>6 DEF Typed
  <2>. QED BY <1>2, <1>3, <1>4, <1>6, <2>1 DEF Truthful, BodyFits, HeadersFit, Succeeded, Answered
<1>. QED BY <1>5, <1>6

LEMMA WrapTruthful ==
    ASSUME Typed, NEW r \in Requests, Truthful(r), Wrap(r)
    PROVE  Truthful(r)'
<1>. DEFINE wrap == shape[r].wrap
            probe == ContainsBody(context[r])
            failed == wrap = "probes" /\ probe.fault # Ok
<1>1. /\ pc[r] = "wrap" /\ shape' = shape
      /\ context'[r] = CASE wrap = "drains" -> RequireBody(context[r]).context
                         [] wrap = "probes" -> probe.context
                         [] OTHER           -> context[r]
      /\ pc'[r] = CASE wrap = "own"   -> "wait_own"
                    [] wrap = "peeks" -> "wait_peek"
                    [] failed         -> "escape"
                    [] OTHER          -> "enter"
      /\ result'[r] = IF failed THEN probe.fault ELSE Ok
  BY DEF Wrap, Typed
<1>2. /\ shape[r] \in Shapes[r] /\ IsShape(shape[r]) /\ shape[r].endpoint # "unmatched"
      /\ Keeps(context[r], shape[r]) /\ context[r].held /\ context[r].present = "unprobed"
  BY <1>1, ShapesAreShapes DEF Truthful, BodyFits
<1>3. /\ Keeps(probe.context, shape[r])
      /\ probe.fault \in {Ok, "RequestBodyPeekFailed"}
      /\ probe.fault = Ok => probe.context.held
  BY <1>2, ProbedBody
<1>. HIDE DEF probe
<1>4. result'[r] \in AllCodes /\ Said(result'[r], shape[r])
  BY <1>1, <1>3, OrdinaryCodes, PlainCodesSayNothing
<1>5. pc'[r] \in {"wait_own", "wait_peek", "escape", "enter"}
  BY <1>1
<1>6. /\ Keeps(context'[r], shape[r])
      /\ pc'[r] # "escape" => context'[r].held
                              \/ (context'[r].present = "unprobed" /\ wrap = "drains")
  <2>1. CASE wrap = "drains"
    BY <1>1, <1>2, <2>1, TakenBody
  <2>2. CASE wrap = "probes"
    BY <1>1, <1>3, <2>2
  <2>3. CASE wrap \notin {"drains", "probes"}
    BY <1>1, <1>2, <2>3
  <2>. QED BY <2>1, <2>2, <2>3
<1>. QED BY <1>1, <1>2, <1>4, <1>5, <1>6 DEF Truthful, BodyFits, HeadersFit, Succeeded, Answered

LEMMA ObtainTruthful ==
    ASSUME Typed, NEW r \in Requests, Truthful(r), Obtain(r)
    PROVE  Truthful(r)'
<1>1. /\ pc[r] \in Waiting
      /\ shape' = shape /\ context' = context /\ result' = result
      /\ pc'[r] = IF pc[r] = "wait_store" THEN FirstStage(shape[r]) ELSE "enter"
  BY DEF Obtain, Typed, Waiting
<1>2. pc'[r] = "enter" \/ (pc[r] = "wait_store" /\ pc'[r] \in {"load", "execute"})
  BY <1>1 DEF FirstStage
<1>3. pc'[r] = "enter" => pc[r] \in {"wait_own", "wait_peek"}
  BY <1>1 DEF FirstStage, Waiting
<1>4. /\ shape[r] \in Shapes[r] /\ shape[r].endpoint # "unmatched"
      /\ BodyFits(r) /\ HeadersFit(r) /\ Said(result[r], shape[r]) /\ result[r] \in AllCodes
  BY <1>1 DEF Truthful, Waiting
<1>5. BodyFits(r)'
  BY <1>1, <1>2, <1>3, <1>4 DEF BodyFits
<1>6. HeadersFit(r)'
  BY <1>1, <1>2, <1>4 DEF HeadersFit, Succeeded, Answered
<1>. QED BY <1>1, <1>2, <1>4, <1>5, <1>6 DEF Truthful

LEMMA ExpireTruthful ==
    ASSUME Typed, NEW r \in Requests, Truthful(r), Expire(r)
    PROVE  Truthful(r)'
<1>1. /\ pc[r] \in Waiting /\ shape' = shape /\ context' = context
      /\ result'[r] \in {Ok, "DatabaseFailure"}
  BY DEF Expire, Typed, Waiting
<1>2. /\ pc[r] = "wait_own" => pc'[r] = "escape"
      /\ pc[r] = "wait_peek" => pc'[r] = "enter"
      /\ pc[r] = "wait_store" => pc'[r] = "settle" /\ result'[r] = "DatabaseFailure"
  BY DEF Expire, Typed
<1>3. /\ shape[r] \in Shapes[r] /\ shape[r].endpoint # "unmatched" /\ BodyFits(r)
  BY <1>1 DEF Truthful, Waiting
<1>4. result'[r] \in AllCodes /\ Said(result'[r], shape[r])
  BY <1>1, OrdinaryCodes, PlainCodesSayNothing
<1>5. BodyFits(r)'
  BY <1>1, <1>2, <1>3 DEF BodyFits, Waiting
<1>6. HeadersFit(r)'
  BY <1>1, <1>2 DEF HeadersFit, Succeeded, Answered, Ok, Waiting
<1>. QED BY <1>1, <1>2, <1>3, <1>4, <1>5, <1>6 DEF Truthful, Waiting

LEMMA EnterTruthful ==
    ASSUME Typed, NEW r \in Requests, Truthful(r), Enter(r)
    PROVE  Truthful(r)'
<1>. DEFINE s == shape[r]
            probe == ContainsBody(context[r])
            negotiated == Negotiate(s.contentType, s.accept, probe.found)
            fault == IF probe.fault # Ok THEN probe.fault ELSE negotiated
<1>1. /\ pc[r] = "enter" /\ shape' = shape
      /\ context'[r] = probe.context /\ result'[r] = fault
      /\ pc'[r] = IF fault = Ok THEN "check" ELSE "settle"
  BY DEF Enter, Typed
<1>2. /\ s \in Shapes[r] /\ IsShape(s) /\ s.endpoint # "unmatched"
      /\ Keeps(context[r], s)
      /\ context[r].held \/ (context[r].present = "unprobed" /\ s.wrap = "drains")
  BY <1>1, ShapesAreShapes DEF Truthful, BodyFits
<1>3. /\ Keeps(probe.context, s) /\ probe.found \in BOOLEAN
      /\ probe.fault \in {Ok, "RequestBodyConsumed", "RequestBodyPeekFailed"}
      /\ probe.fault = "RequestBodyConsumed" => s.wrap = "drains"
      /\ probe.fault = Ok => /\ probe.context.held /\ probe.context.present # "unprobed"
                             /\ ~probe.found => s.bytes = <<>>
  BY <1>2, ProbedBody
<1>4. negotiated \in NegotiationCodes
  BY <1>3, NegotiationEndsIn
<1>5. probe.fault = Ok /\ negotiated = Ok => ConformingHeaders(s)
  BY <1>2, <1>3, NegotiationConforms
<1>. HIDE DEF probe, negotiated
<1>6. fault \in AllCodes /\ Said(fault, s)
  <2>1. CASE fault = "RequestBodyConsumed"
    <3>1. probe.fault = "RequestBodyConsumed"
      BY <1>4, <2>1 DEF NegotiationCodes, TypeCodes, Ok
    <3>. QED BY <1>3, <2>1, <3>1 DEF Said, AllCodes, RoutingErrors
  <2>2. CASE fault # "RequestBodyConsumed"
    <3>1. fault \in PlainCodes
      BY <1>3, <1>4, <2>2, OrdinaryCodes
    <3>. QED BY <3>1, PlainCodesSayNothing
  <2>. QED BY <2>1, <2>2
<1>7. BodyFits(r)'
  BY <1>1, <1>3 DEF BodyFits
<1>8. HeadersFit(r)'
  BY <1>1, <1>5 DEF HeadersFit, Succeeded, Answered
<1>. HIDE DEF fault
<1>. QED BY <1>1, <1>2, <1>6, <1>7, <1>8 DEF Truthful

LEMMA CheckTruthful ==
    ASSUME Typed, NEW r \in Requests, Truthful(r), Check(r)
    PROVE  Truthful(r)'
<1>. DEFINE s == shape[r]
            parsed == ParseBody(context[r], Sent(s))
            fault == ChecksBeforeStore(s, parsed)
            forced == Forced(r, FirstStage(s))
<1>1. /\ pc[r] = "check" /\ shape' = shape /\ context' = context
      /\ result'[r] = IF fault # Ok THEN fault ELSE forced.fault
      /\ pc'[r] = IF fault # Ok THEN "settle" ELSE forced.stage
  BY DEF Check, Typed
<1>2. /\ s \in Shapes[r] /\ IsShape(s) /\ s.endpoint # "unmatched"
      /\ Keeps(context[r], s) /\ context[r].held /\ context[r].present # "unprobed"
      /\ ConformingHeaders(s)
  BY <1>1, ShapesAreShapes DEF Truthful, BodyFits, HeadersFit
<1>3. /\ parsed.payload.document = s.payload.document
      /\ parsed.fault \in {Ok, "MalformedRequestBody", "InvalidRequestBodyContent"}
      /\ parsed.fault = "MalformedRequestBody" =>
             s.payload.form = "malformed" \/ s.broken = "later"
      /\ parsed.fault = Ok /\ parsed.payload.form = "null" =>
             s.bytes = <<>> \/ s.payload.form = "null"
  BY <1>2, ParsedBody
<1>. HIDE DEF parsed
<1>4. fault \in {Ok} \cup DocumentCodes \cup Told(parsed)
  BY <1>2, <1>3, ChecksEndIn
<1>. HIDE DEF fault
<1>5. fault \in AllCodes /\ Said(fault, s)
  <2>1. CASE fault \in {Ok} \cup DocumentCodes
    BY <2>1, OrdinaryCodes, PlainCodesSayNothing
  <2>2. CASE fault \in Told(parsed)
    <3>1. CASE parsed.fault = "InvalidRequestBodyContent"
      BY <2>2, <3>1, OrdinaryCodes, PlainCodesSayNothing DEF Told, Ok, DocumentCodes
    <3>2. CASE parsed.fault = "MalformedRequestBody"
      <4>1. fault = "MalformedRequestBody"
        BY <2>2, <3>2 DEF Told, Ok
      <4>. QED BY <1>3, <3>2, <4>1 DEF Said, AllCodes, RoutingErrors
    <3>3. CASE parsed.fault = Ok
      <4>1. /\ parsed.payload.form = "null"
            /\ fault \in {"MissingResourceBody", "MissingLinkageBody"}
        BY <2>2, <3>3 DEF Told
      <4>. QED BY <1>3, <3>3, <4>1 DEF Said, AllCodes, RoutingErrors
    <3>. QED BY <1>3, <3>1, <3>2, <3>3
  <2>. QED BY <1>4, <2>1, <2>2
<1>6. /\ forced.fault \in {Ok, "DatabaseFailure"}
      /\ forced.stage \in {"wait_store", "load", "execute", "settle"}
  <2>1. lease[r].request \in {"unforced", "held", "failed"}
    BY DEF Typed
  <2>. QED BY <2>1 DEF Forced, FirstStage
<1>. HIDE DEF forced
<1>7. result'[r] \in AllCodes /\ Said(result'[r], s)
  <2>1. forced.fault \in AllCodes /\ Said(forced.fault, s)
    BY <1>6, OrdinaryCodes, PlainCodesSayNothing
  <2>. QED BY <1>1, <1>5, <2>1
<1>8. pc'[r] \in {"wait_store", "load", "execute", "settle"}
  BY <1>1, <1>6
<1>9. BodyFits(r)' /\ HeadersFit(r)'
  BY <1>1, <1>2, <1>8 DEF BodyFits, HeadersFit
<1>. QED BY <1>1, <1>2, <1>7, <1>8, <1>9 DEF Truthful

LEMMA LoadTruthful ==
    ASSUME Typed, NEW r \in Requests, Truthful(r), Load(r)
    PROVE  Truthful(r)'
<1>1. PICK failure \in {Ok, "DatabaseFailure"} :
        LET s == shape[r]
            fault == IF s.endpoint = "related" /\ IdFault(s.routeId) # Ok THEN IdFault(s.routeId)
                     ELSE IF failure # Ok THEN failure
                     ELSE IF s.routeId \notin rows THEN "RecordNotFound"
                     ELSE IF s.endpoint = "related" THEN QueryFault(s.relatedQuery)
                     ELSE Ok
        IN /\ result' = [result EXCEPT ![r] = fault]
           /\ pc' = [pc EXCEPT ![r] = IF fault = Ok THEN "execute" ELSE "settle"]
  BY DEF Load
<1>2. /\ result'[r] \in {Ok, "DatabaseFailure", "RecordNotFound"} \cup DocumentCodes
      /\ pc'[r] \in {"execute", "settle"}
  BY <1>1, IdEndsIn DEF Typed, QueryFault, DocumentCodes
<1>3. /\ pc[r] = "load" /\ shape' = shape /\ context' = context
      /\ ConformingHeaders(shape[r])
  BY DEF Load, Truthful, HeadersFit
<1>4. result'[r] \in PlainCodes
  BY <1>2, OrdinaryCodes
<1>. QED BY <1>2, <1>3, <1>4, StaysTruthful DEF Stages

LEMMA CommitTruthful ==
    ASSUME Typed, NEW r \in Requests, Truthful(r), Commit(r)
    PROVE  Truthful(r)'
<1>1. /\ pc[r] = "execute" /\ shape' = shape /\ context' = context
      /\ ConformingHeaders(shape[r]) /\ result'[r] = Ok
      /\ pc'[r] \in {"settle", "render"}
  BY DEF Commit, Truthful, HeadersFit, Typed
<1>2. result'[r] \in PlainCodes
  BY <1>1, OrdinaryCodes
<1>. QED BY <1>1, <1>2, StaysTruthful DEF Stages

LEMMA RollBackTruthful ==
    ASSUME Typed, NEW r \in Requests, Truthful(r), RollBack(r)
    PROVE  Truthful(r)'
<1>1. PICK fault \in StoreFaults(shape[r]) : result' = [result EXCEPT ![r] = fault]
  BY DEF RollBack
<1>2. /\ pc[r] = "execute" /\ shape' = shape /\ context' = context
      /\ ConformingHeaders(shape[r]) /\ pc'[r] = "settle"
  BY DEF RollBack, Truthful, HeadersFit, Typed
<1>3. result'[r] \in PlainCodes
  BY <1>1, OrdinaryCodes DEF Typed
<1>. QED BY <1>2, <1>3, StaysTruthful DEF Stages

LEMMA RenderTruthful ==
    ASSUME Typed, NEW r \in Requests, Truthful(r), Render(r)
    PROVE  Truthful(r)'
<1>1. PICK fault \in {Ok} \cup RenderFaults : result' = [result EXCEPT ![r] = fault]
  BY DEF Render
<1>2. /\ pc[r] = "render" /\ shape' = shape /\ context' = context
      /\ ConformingHeaders(shape[r]) /\ pc'[r] = "settle"
  BY DEF Render, Truthful, HeadersFit, Typed
<1>3. result'[r] \in PlainCodes
  BY <1>1, OrdinaryCodes DEF Typed, RenderFaults
<1>. QED BY <1>2, <1>3, StaysTruthful DEF Stages

\* Only what was negotiated succeeds: every other answer is an error's.
LEMMA SettleTruthful ==
    ASSUME Typed, NEW r \in Requests, Truthful(r), Settle(r)
    PROVE  Truthful(r)'
<1>1. PICK stamp \in StampFaults(shape[r].endpoint), written \in BOOLEAN :
         LET code == IF result[r] # Ok THEN result[r] ELSE stamp
             rendered == IF code = Ok THEN Success(shape[r].endpoint) ELSE ErrorDocument(code)
         IN /\ result' = [result EXCEPT ![r] = code]
            /\ answer' = [answer EXCEPT ![r] =
                             IF written \/ rendered.kind = "empty" THEN rendered
                                                                   ELSE Escaped("Unserialisable")]
  BY DEF Settle
<1>. DEFINE code == IF result[r] # Ok THEN result[r] ELSE stamp
            rendered == IF code = Ok THEN Success(shape[r].endpoint) ELSE ErrorDocument(code)
<1>2. /\ pc[r] = "settle" /\ pc'[r] = "answered" /\ shape' = shape /\ context' = context
      /\ result'[r] = code
      /\ answer'[r] = rendered \/ answer'[r] = Escaped("Unserialisable")
  BY <1>1 DEF Settle, Typed
<1>3. /\ shape[r] \in Shapes[r] /\ Keeps(context[r], shape[r])
      /\ result[r] \in AllCodes /\ Said(result[r], shape[r])
      /\ result[r] = Ok => ConformingHeaders(shape[r])
  BY <1>2 DEF Truthful, BodyFits, HeadersFit
<1>4. code \in AllCodes /\ Said(code, shape[r])
  <2>1. stamp \in PlainCodes
    BY OrdinaryCodes DEF StampFaults
  <2>. QED BY <1>3, <2>1, PlainCodesSayNothing
<1>5. code = Ok => ConformingHeaders(shape[r])
  BY <1>3
<1>6. ASSUME code # Ok PROVE ~Succeeded(r)'
  <2>1. rendered = ErrorDocument(code)
    BY <1>6
  <2>. HIDE DEF code, rendered
  <2>2. rendered.status \in {400, 403, 404, 406, 409, 415, 422, 500}
    BY <2>1, ErrorsAreErrors, ErrorDocuments
  <2>3. Escaped("Unserialisable").status = 0
    BY DEF Escaped
  <2>. QED BY <1>2, <2>2, <2>3 DEF Succeeded
<1>. HIDE DEF code, rendered
<1>7. HeadersFit(r)'
  BY <1>2, <1>5, <1>6 DEF HeadersFit
<1>8. BodyFits(r)'
  BY <1>2, <1>3 DEF BodyFits
<1>. QED BY <1>2, <1>3, <1>4, <1>7, <1>8 DEF Truthful

LEMMA EscapeTruthful ==
    ASSUME Typed, NEW r \in Requests, Truthful(r), Escape(r)
    PROVE  Truthful(r)'
<1>1. /\ pc[r] = "escape" /\ pc'[r] = "answered" /\ shape' = shape /\ context' = context
      /\ result' = result /\ answer'[r] = Escaped(result[r])
  BY DEF Escape, Typed
<1>2. ~Succeeded(r)'
  BY <1>1 DEF Escaped, Succeeded
<1>. QED BY <1>1, <1>2 DEF Truthful, BodyFits, HeadersFit

\* The others keep what they were sent, know and were answered.
LEMMA OthersTruthful ==
    ASSUME Typed, NEW r \in Requests, Arrive(r) \/ Advance(r),
           NEW q \in Requests, q # r, Truthful(q)
    PROVE  Truthful(q)'
<1>1. Untouched(q)
  BY OthersUntouched
<1>2. context'[q] = context[q]
  BY DEF Arrive, Advance, Wrap, Obtain, Expire, Enter, Check, Load, Commit, RollBack, Render,
         Settle, Escape, Typed
<1>3. BodyFits(q)' <=> BodyFits(q)
  BY <1>1, <1>2 DEF Untouched, BodyFits
<1>4. HeadersFit(q)' <=> HeadersFit(q)
  BY <1>1 DEF Untouched, HeadersFit, Succeeded, Answered
<1>. QED BY <1>1, <1>3, <1>4 DEF Untouched, Truthful

LEMMA StepTruthful ==
    ASSUME Typed, \A q \in Requests : Truthful(q), NEW r \in Requests, Arrive(r) \/ Advance(r)
    PROVE  \A q \in Requests : Truthful(q)'
<1>1. Truthful(r)'
  BY ArriveTruthful, WrapTruthful, ObtainTruthful, ExpireTruthful, EnterTruthful, CheckTruthful,
     LoadTruthful, CommitTruthful, RollBackTruthful, RenderTruthful, SettleTruthful,
     EscapeTruthful DEF Advance
<1>2. ASSUME NEW q \in Requests, q # r PROVE Truthful(q)'
  BY <1>2, OthersTruthful
<1>. QED BY <1>1, <1>2

LEMMA StepTabled ==
    ASSUME Typed, ResultTabled, NEW r \in Requests, Arrive(r) \/ Advance(r)
    PROVE  ResultTabled'
<1>1. \/ result' = result
      \/ \E code : result' = [result EXCEPT ![r] = code]
  BY Zenon DEF Arrive, Advance, Wrap, Obtain, Expire, Enter, Check, Load, Commit, RollBack, Render,
               Settle, Escape
<1>2. ASSUME NEW code, result' = [result EXCEPT ![r] = code] PROVE ResultTabled'
  BY <1>2 DEF ResultTabled
<1>. QED BY <1>1, <1>2 DEF ResultTabled

\* The strengthening: for any headers and bodies, what a request ended with is
\* true of what its client sent.
THEOREM BoundaryInvariant == Spec => []BoundaryInv
<1>1. Init => BoundaryInv
  <2>. SUFFICES ASSUME Init, NEW q \in Requests PROVE Truthful(q)
    BY InitInvariant DEF BoundaryInv, ResultTabled, Init
  <2>. QED BY OrdinaryCodes DEF Init, Truthful, PlainCodes
<1>2. BoundaryInv /\ [Next]_vars => BoundaryInv'
  <2>. SUFFICES ASSUME BoundaryInv, [Next]_vars
                PROVE  ResultTabled' /\ \A q \in Requests : Truthful(q)'
    BY NextInvariant DEF BoundaryInv
  <2>0. Typed /\ ResultTabled /\ \A q \in Requests : Truthful(q)
    BY DEF BoundaryInv, PipelineInv
  <2>1. CASE Next
    <3>1. PICK r \in Requests : Arrive(r) \/ Advance(r)
      BY <2>1 DEF Next
    <3>. QED BY <2>0, <3>1, StepTruthful, StepTabled
  <2>2. CASE UNCHANGED vars
    BY <2>0, <2>2 DEF vars, ResultTabled, Truthful, BodyFits, HeadersFit, Succeeded, Answered
  <2>. QED BY <2>1, <2>2
<1>. QED BY <1>1, <1>2, PTL DEF Spec

\* Every stage, lease and result is one the code knows, and the pool never has
\* more idle handles than it opened.
THEOREM PipelineTyped == Spec => []TypeOK
<1>1. BoundaryInv => TypeOK
  <2>. SUFFICES ASSUME BoundaryInv PROVE TypeOK
    OBVIOUS
  <2>1. Typed /\ idle + Cardinality(HeldHandles) = PoolSize
    BY DEF BoundaryInv, PipelineInv
  <2>2. idle \in 0..PoolSize
    BY <2>1, HeldHandlesFinite, PoolAssumption DEF Typed
  <2>3. result \in [Requests -> {Ok} \cup RoutingErrors \cup DatabaseErrors \cup SerialisationErrors]
    BY <2>1 DEF BoundaryInv, ResultTabled, Truthful, AllCodes
  <2>. QED BY <2>1, <2>2, <2>3 DEF TypeOK, Typed
<1>. QED BY <1>1, BoundaryInvariant, PTL

\* Negotiation's probe, the parser and the handler agree on the body: what a
\* refusal says of it is true of what was sent.
THEOREM BodiesAreReadAsSent == Spec => []ParserSeesWhatWasSent
<1>1. BoundaryInv => ParserSeesWhatWasSent
  BY DEF BoundaryInv, Truthful, Said, ParserSeesWhatWasSent, Answered
<1>. QED BY <1>1, BoundaryInvariant, PTL

\* Nothing runs against the store, or succeeds, under headers that JSON:API
\* rules out.
THEOREM OnlyNegotiatedRequestsReachTheStore == Spec => []StoreBehindNegotiation
<1>1. BoundaryInv => StoreBehindNegotiation
  <2>. SUFFICES ASSUME BoundaryInv, NEW r \in Requests,
                       pc[r] \in {"load", "execute", "render"} \/ Succeeded(r)
                PROVE  ConformingHeaders(shape[r])
    BY DEF StoreBehindNegotiation
  <2>1. Truthful(r) /\ pc[r] # "idle"
    BY DEF BoundaryInv, Succeeded, Answered
  <2>. QED BY <2>1 DEF Truthful, HeadersFit
<1>. QED BY <1>1, BoundaryInvariant, PTL
=============================================================================
