----------------------------- MODULE AIService -----------------------------
(***************************************************************************)
(* The aiservice output of src/plugins/outputs/aiservice/aiservice.go,    *)
(* driven by Telegraf's output loop.  Telegraf calls Connect once, then   *)
(* Write with the buffered batch; a batch whose Write returns nil leaves  *)
(* the buffer, one whose Write fails stays for the next flush.  Write     *)
(* logs in again when its token is older than loginInterval, adds a      *)
(* heartbeat, cuts the batch per measurement into blocks of at most      *)
(* writeAmountOfBatchData metrics and POSTs every block, each through    *)
(* makeAndDoRequest (up to maxRequestTimes attempts).  Each attempt is    *)
(* one step, so the clock, input plugins and the server's answers         *)
(* interleave with them.  A token is a login number; time is in ticks.    *)
(***************************************************************************)
EXTENDS Integers, Sequences, SequencesExt, FiniteSets

CONSTANTS
    Metrics,          \* the metrics the input plugins produce
    NameOf,           \* metric.Name() of each metric
    Heartbeat,        \* the sai_event heartbeat metric Write adds
    WriteAmountOfBatchData,
    MaxRequestTimes,
    LoginInterval,    \* loginInterval, in ticks
    TokenLifetime,    \* how long the server accepts a token, in ticks
    MaxTime,          \* last tick explored
    MaxLogins         \* logins explored (each issues a new token)

ASSUME NameOf \in [Metrics \cup {Heartbeat} -> STRING]

VARIABLES
    now,          \* the clock
    authority,    \* i.authority: a login number, 0 for ""
    refreshTime,  \* i.refreshTime
    logins,       \* logins the server has answered with a token
    issued,       \* issued[t]: when the server issued token t (a sequence)
    pending,      \* metrics not yet produced
    buffer,       \* Telegraf's buffer of this output
    pc,           \* "start" | "idle" | "send" | "stopped"
    batch,        \* the metrics of the current Write, heartbeat included
    blocks,       \* measurementsOfBlocksMetricsArray: name -> blocks
    order,        \* the [name, index] of the blocks still to send
    attempt,      \* n of makeAndDoRequest
    sentBody,     \* whether the request body of the current block was read
    posted,       \* the blocks of the current Write answered without a retry
    received,     \* metrics the server stored
    dropped,      \* metrics Telegraf removed after a Write that returned nil
    checkedAt     \* [time, token] after the last checkAuthoriyExpiration

vars == <<now, authority, refreshTime, logins, issued, pending, buffer, pc, batch,
          blocks, order, attempt, sentBody, posted, received, dropped, checkedAt>>

NoAuth == 0

(***************************************************************************)
(* retryCrit: an error is retried when its text contains ANY character of *)
(* "INTERNAL_ERROR & Client.Timeout" (strings.ContainsAny); a response    *)
(* is retried when its status is 502.                                      *)
(***************************************************************************)
RetryChars == ToSet(<<"I","N","T","E","R","N","A","L","_","E","R","R","O","R"," ","&"," ",
                      "C","l","i","e","n","t",".","T","i","m","e","o","u","t">>)

RetryCrit(resp) ==
    IF resp.err # <<>> THEN ToSet(resp.err) \cap RetryChars # {}
    ELSE resp.status = 502

(***************************************************************************)
(* getAuthority: refreshTime is set first; the login request either      *)
(* fails (authority kept), or its answer is read for "Authentication",    *)
(* which a rejected login lacks (authority becomes "").                   *)
(***************************************************************************)
GetAuthority(outcome) ==
    /\ refreshTime' = now
    /\ CASE outcome = "token" ->
              /\ logins < MaxLogins
              /\ logins' = logins + 1
              /\ authority' = logins + 1
              /\ issued' = Append(issued, now)
         [] outcome = "rejected" ->
              authority' = NoAuth /\ UNCHANGED <<logins, issued>>
         [] outcome = "error" ->
              UNCHANGED <<authority, logins, issued>>

LoginOutcomes == {"token", "rejected", "error"}

(* createBlockMetricsArray for one measurement: blocks of at most W.      *)
BlocksOf(ms, w) ==
    [b \in 1..((Len(ms) + w - 1) \div w) |-> SubSeq(ms, (b - 1) * w + 1, Min({b * w, Len(ms)}))]

CreateBlockMetricsArray(ms) ==
    [n \in {NameOf[m] : m \in ToSet(ms)} |->
        BlocksOf(SelectSeq(ms, LAMBDA m : NameOf[m] = n), WriteAmountOfBatchData)]

(* Telegraf's Connect at start-up; the agent stops when it fails.         *)
Connect ==
    /\ pc = "start"
    /\ \E o \in LoginOutcomes :
          /\ GetAuthority(o)
          /\ pc' = IF o = "error" THEN "stopped" ELSE "idle"
    /\ UNCHANGED <<now, pending, buffer, batch, blocks, order, attempt, sentBody,
                   posted, received, dropped, checkedAt>>

(* An input plugin adds a metric to the buffer.                            *)
Produce ==
    /\ \E m \in pending : pending' = pending \ {m} /\ buffer' = Append(buffer, m)
    /\ UNCHANGED <<now, authority, refreshTime, logins, issued, pc, batch, blocks,
                   order, attempt, sentBody, posted, received, dropped, checkedAt>>

Tick ==
    /\ now < MaxTime
    /\ now' = now + 1
    /\ UNCHANGED <<authority, refreshTime, logins, issued, pending, buffer, pc, batch,
                   blocks, order, attempt, sentBody, posted, received, dropped, checkedAt>>

(***************************************************************************)
(* The errors http.Client.Do returns, each kept as the word of its text   *)
(* that tells it apart: a client timeout, a refused connection, and the   *)
(* transport's "ContentLength=n with Body length 0" for a request whose   *)
(* body was already read.                                                  *)
(***************************************************************************)
ErrTimeout == <<"C","l","i","e","n","t",".","T","i","m","e","o","u","t">>
ErrRefused == <<"r","e","f","u","s","e","d">>
ErrBodyLength == <<"C","o","n","t","e","n","t","L","e","n","g","t","h">>

(* The server stores a block sent with a token it issued less than         *)
(* TokenLifetime ago, and answers 401 to any other.                        *)
Valid(tok) == tok # NoAuth /\ now - issued[tok] < TokenLifetime

(***************************************************************************)
(* The answers one attempt of doRequest may get.  A request whose body    *)
(* was read by an earlier attempt fails in the transport.  Otherwise the  *)
(* server answers (the body is read; 502 when the gateway fails), or the  *)
(* client times out after sending the body (the server may have stored   *)
(* it) or before, or the connection is refused.                           *)
(***************************************************************************)
Answers(tok) ==
    IF sentBody
    THEN {[status |-> 0, err |-> ErrBodyLength, stored |-> FALSE, read |-> TRUE]}
    ELSE {[status |-> IF Valid(tok) THEN 200 ELSE 401, err |-> <<>>, stored |-> Valid(tok), read |-> TRUE],
          [status |-> 502, err |-> <<>>, stored |-> FALSE, read |-> TRUE],
          [status |-> 0, err |-> ErrTimeout, stored |-> Valid(tok), read |-> TRUE],
          [status |-> 0, err |-> ErrTimeout, stored |-> FALSE, read |-> FALSE],
          [status |-> 0, err |-> ErrRefused, stored |-> FALSE, read |-> FALSE]}

(* The block the loop of Write is sending.                                  *)
CurrentBlock == blocks[order[1].n][order[1].b]

(* The metrics Telegraf passed to Write: the batch without the heartbeat.  *)
Passed == Front(batch)

(* The server's answer to one attempt is applied.                           *)
Deliver(r) ==
    received' = IF r.stored THEN received \cup (ToSet(CurrentBlock) \cap Metrics) ELSE received

(* Write returns an error: Telegraf keeps the batch for the next flush.    *)
WriteFails ==
    /\ pc' = "idle"
    /\ UNCHANGED <<buffer, dropped>>

(* Write returns nil: Telegraf removes the batch from its buffer.           *)
WriteSucceeds(ms) ==
    /\ pc' = "idle"
    /\ buffer' = SubSeq(buffer, Len(ms) + 1, Len(buffer))
    /\ dropped' = dropped \cup (ToSet(ms) \ received')

(***************************************************************************)
(* Write: without a token it calls Connect, ignores its error and returns *)
(* nil, so the batch is discarded.                                         *)
(***************************************************************************)
WriteWithoutAuthority ==
    /\ pc = "idle"
    /\ buffer # <<>>
    /\ authority = NoAuth
    /\ \E o \in LoginOutcomes : GetAuthority(o)
    /\ received' = received
    /\ WriteSucceeds(buffer)
    /\ UNCHANGED <<now, pending, batch, blocks, order, attempt, sentBody, posted, checkedAt>>

(***************************************************************************)
(* Write with a token, up to its send loop: checkAuthoriyExpiration logs  *)
(* in again (error ignored) when refreshTime is more than loginInterval   *)
(* ago; AddIntervalAgentHeartbeatMetric appends the heartbeat or fails    *)
(* (GetDcaiAgent); createBlockMetricsArray; the map is iterated in an     *)
(* order Go leaves unspecified.                                            *)
(***************************************************************************)
WriteStart ==
    /\ pc = "idle"
    /\ buffer # <<>>
    /\ authority # NoAuth
    /\ IF now - refreshTime > LoginInterval
       THEN \E o \in LoginOutcomes : GetAuthority(o)
       ELSE UNCHANGED <<authority, refreshTime, logins, issued>>
    /\ checkedAt' = [time |-> now, token |-> authority']
    /\ \/ /\ UNCHANGED <<pc, batch, blocks, order, attempt, sentBody, posted>>
       \/ LET ms == Append(buffer, Heartbeat)
              bm == CreateBlockMetricsArray(ms)
          IN /\ batch' = ms
             /\ blocks' = bm
             /\ \E names \in SetToSeqs(DOMAIN bm) :
                   order' = FlattenSeq([j \in 1..Len(names) |->
                                [b \in 1..Len(bm[names[j]]) |-> [n |-> names[j], b |-> b]]])
             /\ attempt' = 1
             /\ sentBody' = FALSE
             /\ posted' = <<>>
             /\ pc' = "send"
    /\ UNCHANGED <<now, pending, buffer, received, dropped>>

(* makeAndDoRequest: retryCrit retries and n is below maxRequestTimes.     *)
(* Mutant: n is not incremented.                                            *)
RetryAttemptNoCount(r) ==
    /\ RetryCrit(r) /\ attempt < MaxRequestTimes
    /\ attempt' = attempt
    /\ sentBody' = r.read
    /\ UNCHANGED <<pc, buffer, dropped, order, posted>>

(* Mutant: the loop runs while n <= maxRequestTimes, counting one past it. *)
RetryAttemptOffByOne(r) ==
    /\ RetryCrit(r) /\ attempt <= MaxRequestTimes
    /\ attempt' = attempt + 1
    /\ sentBody' = r.read
    /\ UNCHANGED <<pc, buffer, dropped, order, posted>>

RetryAttempt(r) ==
    /\ RetryCrit(r) /\ attempt < MaxRequestTimes
    /\ attempt' = attempt + 1
    /\ sentBody' = r.read
    /\ UNCHANGED <<pc, buffer, dropped, order, posted>>

(* The last attempt is retried too: "out of maximum request times".        *)
OutOfRequestTimes(r) ==
    /\ RetryCrit(r) /\ attempt = MaxRequestTimes
    /\ WriteFails
    /\ UNCHANGED <<attempt, sentBody, order, posted>>

(***************************************************************************)
(* An answer retryCrit does not retry is returned; Write treats any      *)
(* response as sent and goes on with the next block, returning nil after *)
(* the last.  (An error without a character of retryCrit's set would     *)
(* make Write fail; the texts of net/http always have one.)               *)
(***************************************************************************)
BlockPosted(r) ==
    /\ ~RetryCrit(r) /\ r.err = <<>>
    /\ posted' = Append(posted, [n |-> order[1].n, ms |-> CurrentBlock])
    /\ order' = Tail(order)
    /\ attempt' = 1
    /\ sentBody' = FALSE
    /\ IF Tail(order) = <<>> THEN WriteSucceeds(Passed) ELSE UNCHANGED <<pc, buffer, dropped>>

(* One attempt of doRequest for the current block.                          *)
DoRequest ==
    /\ pc = "send"
    /\ \E r \in Answers(authority) :
          /\ Deliver(r)
          /\ \/ RetryAttempt(r)
             \/ OutOfRequestTimes(r)
             \/ BlockPosted(r)
    /\ UNCHANGED <<now, authority, refreshTime, logins, issued, pending, batch, blocks, checkedAt>>

Init ==
    /\ now = 0
    /\ authority = NoAuth
    /\ refreshTime = 0
    /\ logins = 0
    /\ issued = <<>>
    /\ pending = Metrics
    /\ buffer = <<>>
    /\ pc = "start"
    /\ batch = <<>>
    /\ blocks = <<>>
    /\ order = <<>>
    /\ attempt = 1
    /\ sentBody = FALSE
    /\ posted = <<>>
    /\ received = {}
    /\ dropped = {}
    /\ checkedAt = [time |-> 0, token |-> NoAuth]

Next ==
    \/ Connect
    \/ Produce
    \/ Tick
    \/ WriteWithoutAuthority
    \/ WriteStart
    \/ DoRequest

(***************************************************************************)
(* Every attempt of the send loop returns: the clients of newAiservice    *)
(* time out after 10 and 30 seconds.  Nothing forces Telegraf to flush or *)
(* the inputs to produce within the explored time.                        *)
(***************************************************************************)
Spec == Init /\ [][Next]_vars /\ WF_vars(DoRequest)

-----------------------------------------------------------------------------
TypeOK ==
    /\ now \in 0..MaxTime
    /\ logins \in 0..MaxLogins
    /\ authority \in 0..logins
    /\ refreshTime \in 0..now
    /\ issued \in Seq(0..MaxTime) /\ Len(issued) = logins
    /\ pending \subseteq Metrics
    /\ buffer \in Seq(Metrics)
    /\ pc \in {"start", "idle", "send", "stopped"}
    /\ attempt \in 1..MaxRequestTimes
    /\ sentBody \in BOOLEAN
    /\ received \subseteq Metrics
    /\ dropped \subseteq Metrics

(* Every Write that reaches its send loop returns: makeAndDoRequest gives  *)
(* up on a block after maxRequestTimes attempts.                            *)
WriteTerminates == pc = "send" ~> pc = "idle"

(***************************************************************************)
(* A Write that returns nil has delivered its batch (Telegraf drops a     *)
(* batch once Write returns nil).                                          *)
(***************************************************************************)
NoSilentLoss == dropped = {}

(***************************************************************************)
(* checkAuthoriyExpiration exists so that a Write sends with a token      *)
(* obtained at most loginInterval before it started.                       *)
(***************************************************************************)
TokenCheckedFresh ==
    pc = "send" =>
        /\ checkedAt.token # NoAuth
        /\ checkedAt.time - issued[checkedAt.token] <= LoginInterval

(* A request retried by makeAndDoRequest is sent again with its block.     *)
RetryResendsBody == pc = "send" => ~sentBody

=============================================================================
