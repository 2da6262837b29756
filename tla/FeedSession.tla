---------------------------- MODULE FeedSession ----------------------------
(***************************************************************************)
(* run_feed_session, the loop that keeps one market-data feed alive: it    *)
(* makes an attempt, decides from the outcome whether to stop, backs off   *)
(* and tries again.  One attempt is one BinanceWebSocketFeedClient::run    *)
(* over one beast::WebSocketClient::run, on the session's thread.  A       *)
(* signal handler sets the stop flag between any two steps; the network    *)
(* chooses how every blocking call ends.                                   *)
(*                                                                         *)
(* Times are natural numbers of an unspecified unit.  The counters that    *)
(* the code leaves unbounded saturate at MessageCap and AttemptCap, above  *)
(* every limit they are compared with.                                     *)
(***************************************************************************)
EXTENDS Naturals

CONSTANTS
  MessageLimits,  \* values of max_messages, 0 for no limit
  AttemptLimits,  \* values of max_attempts, 0 for no limit
  Backoffs,       \* values of initial_backoff
  BackoffCaps,    \* values of max_backoff
  Multiplier,     \* FeedRetryPolicy.multiplier
  PollInterval,   \* kStopPollInterval
  MessageCap,     \* bound: where message counters saturate
  AttemptCap      \* bound: where attempt counters saturate

ASSUME SessionAssumption ==
  /\ MessageCap \in Nat /\ MessageLimits \subseteq 0 .. MessageCap - 1
  /\ AttemptCap \in Nat /\ AttemptLimits \subseteq 0 .. AttemptCap - 1
  /\ Backoffs \subseteq Nat
  /\ BackoffCaps \subseteq Nat
  /\ Multiplier \in Nat
  /\ PollInterval \in Nat \ {0}

VARIABLES
  options,         \* FeedSessionOptions, and what the build and URL allow
  pc,              \* where the session's thread is
  stop,            \* g_stop_requested
  status,          \* the attempt's status; last_status once it has returned
  flags,           \* the booleans of FeedSessionCallbackState that are set
  attempts, reconnects, messages,       \* FeedSessionStats
  clientLimit, clientMessages,          \* the feed client's own count
  backoff, remaining,                   \* the wait, and what is left of it
  reason,          \* stop_reason, "None" until the session returns
  delivered,       \* history: messages handed to the downstream handler
  late             \* history: what was begun after the stop flag was set

counters == <<attempts, reconnects, messages, clientLimit, clientMessages>>
waits == <<backoff, remaining>>
vars == <<options, pc, stop, status, flags, counters, waits, reason,
          delivered, late>>

Options ==
  [maxMessages : MessageLimits, maxAttempts : AttemptLimits,
   initialBackoff : Backoffs, maxBackoff : BackoffCaps,
   reconnectOnCompleted : BOOLEAN,
   transport : {"Usable", "InvalidEndpoint", "BackendUnavailable"}]

ConnectFailures == {"ResolveFailed", "ConnectFailed", "TlsHandshakeFailed",
                    "WebSocketHandshakeFailed"}
Statuses == ConnectFailures \cup
  {"Completed", "StoppedByHandler", "InvalidEndpoint", "BackendUnavailable",
   "ReadFailed", "CloseFailed", "UnknownError"}
Reasons == {"Completed", "MaxMessagesReached", "StoppedByHandler",
            "StopRequested", "MaxAttemptsReached", "NotRetryable"}
Places == {"loop", "start", "connect", "read", "callback", "deliver",
           "closing", "decide", "sleep", "done"}

ControlType ==
  /\ options \in Options
  /\ pc \in Places
  /\ stop \in BOOLEAN
  /\ status \in Statuses
  /\ flags \subseteq {"max", "stop", "handler"}
  /\ reason \in Reasons \cup {"None"}

CountType ==
  /\ attempts \in 0 .. AttemptCap /\ reconnects \in 0 .. AttemptCap
  /\ messages \in 0 .. MessageCap
  /\ clientLimit \in 0 .. MessageCap /\ clientMessages \in 0 .. MessageCap
  /\ backoff \in Nat /\ remaining \in Nat
  /\ delivered \in 0 .. MessageCap
  /\ late \in [attempts : 0 .. AttemptCap, deliveries : 0 .. MessageCap]

TypeOK == ControlType /\ CountType

-----------------------------------------------------------------------------
(* classify_feed_run_status, is_retryable_feed_error, next_backoff.        *)

ErrorClass(s) ==
  CASE s = "Completed"          -> "None"
    [] s = "StoppedByHandler"   -> "Stopped"
    [] s = "InvalidEndpoint"    -> "Configuration"
    [] s = "BackendUnavailable" -> "Dependency"
    [] s \in {"ResolveFailed", "ConnectFailed", "TlsHandshakeFailed"} ->
         "Network"
    [] s = "WebSocketHandshakeFailed" -> "Protocol"
    [] s \in {"ReadFailed", "CloseFailed"} -> "Io"
    [] OTHER -> "Unknown"

Retryable(class) == class \in {"Network", "Protocol", "Io", "Unknown"}

Least(a, b) == IF a < b THEN a ELSE b
Raise(n, cap) == IF n < cap THEN n + 1 ELSE cap
SlipReached(n, limit) == limit # 0 /\ n > limit  \* slip: one more is let through
Reached(n, limit) == limit # 0 /\ n >= limit

SlipNextBackoff ==   \* slip: the multiplied wait is not capped
  IF backoff = 0 THEN options.initialBackoff ELSE backoff * Multiplier

\* The code multiplies in double and cuts the product to a long long: for the default 2.0,
\* which nothing in the program changes, that is the product of naturals for every wait
\* below 2^53 milliseconds.
NextBackoff ==
  IF backoff = 0 THEN options.initialBackoff
                 ELSE Least(backoff * Multiplier, options.maxBackoff)

-----------------------------------------------------------------------------
(* The session loop.                                                       *)

Finish(why) == pc' = "done" /\ reason' = why

\* The checks at the top of the loop, in their order.
CheckBefore ==
  IF stop THEN "StopRequested"
  ELSE IF Reached(messages, options.maxMessages) THEN "MaxMessagesReached"
  ELSE IF Reached(attempts, options.maxAttempts) THEN "MaxAttemptsReached"
  ELSE "None"

LoopTop ==
  /\ pc = "loop"
  /\ IF CheckBefore = "None" THEN pc' = "start" /\ UNCHANGED reason
                             ELSE Finish(CheckBefore)
  /\ UNCHANGED <<options, stop, status, flags, counters, waits, delivered, late>>

SlipStartAttempt ==   \* slip: attempts are not counted
  /\ pc = "start" /\ pc' = "connect"
  /\ flags' = {} /\ clientMessages' = 0
  /\ clientLimit' = IF options.maxMessages = 0 THEN 0
                    ELSE options.maxMessages - messages
  /\ UNCHANGED <<options, stop, status, attempts, late, reconnects, messages,
                 waits, reason, delivered>>

StartAttempt ==
  /\ pc = "start" /\ pc' = "connect"
  /\ attempts' = Raise(attempts, AttemptCap)
  /\ flags' = {}
  /\ clientMessages' = 0
  /\ clientLimit' = IF options.maxMessages = 0 THEN 0
                    ELSE options.maxMessages - messages
  /\ late' = [late EXCEPT !.attempts =
                IF stop THEN Raise(@, AttemptCap) ELSE @]
  /\ UNCHANGED <<options, stop, status, reconnects, messages, waits, reason,
                 delivered>>

\* The checks after run_once has returned, in their order.
CheckAfter ==
  IF "max" \in flags THEN "MaxMessagesReached"
  ELSE IF "stop" \in flags \/ stop THEN "StopRequested"
  ELSE IF "handler" \in flags THEN "StoppedByHandler"
  ELSE IF status = "Completed" /\ ~options.reconnectOnCompleted THEN "Completed"
  ELSE IF ~Retryable(ErrorClass(status)) /\ status # "Completed"
    THEN "NotRetryable"
  ELSE IF Reached(attempts, options.maxAttempts) THEN "MaxAttemptsReached"
  ELSE "None"

Decide ==
  /\ pc = "decide"
  /\ IF CheckAfter = "None"
       THEN /\ pc' = "sleep"
            /\ reconnects' = Raise(reconnects, AttemptCap)
            /\ backoff' = NextBackoff
            /\ remaining' = NextBackoff
            /\ UNCHANGED reason
       ELSE Finish(CheckAfter) /\ UNCHANGED <<reconnects, waits>>
  /\ UNCHANGED <<options, stop, status, flags, attempts, messages, clientLimit,
                 clientMessages, delivered, late>>

SlipChunk == PollInterval   \* slip: the last chunk is not cut to what is left
Chunk == Least(remaining, PollInterval)

\* sleep_for_backoff: the flag is polled before every chunk and after the last.
SleepPoll ==
  /\ pc = "sleep"
  /\ \/ stop /\ Finish("StopRequested") /\ UNCHANGED remaining
     \/ ~stop /\ remaining > 0
        /\ remaining' = remaining - Chunk
        /\ UNCHANGED <<pc, reason>>
     \/ ~stop /\ remaining = 0 /\ pc' = "loop" /\ UNCHANGED <<remaining, reason>>
  /\ UNCHANGED <<options, stop, status, flags, counters, backoff, delivered, late>>

-----------------------------------------------------------------------------
(* One attempt: connect, then a blocking read per message.                 *)

EndAttempt(s, next) == status' = s /\ pc' = next

Connect ==
  /\ pc = "connect"
  /\ \/ options.transport # "Usable" /\ EndAttempt(options.transport, "decide")
     \/ /\ options.transport = "Usable"
        /\ \E s \in ConnectFailures : EndAttempt(s, "decide")
     \/ options.transport = "Usable" /\ pc' = "read" /\ UNCHANGED status
  /\ UNCHANGED <<options, stop, flags, counters, waits, reason, delivered, late>>

ReadEnds ==
  /\ pc = "read"
  /\ \E s \in {"Completed", "ReadFailed"} : EndAttempt(s, "closing")
  /\ UNCHANGED <<options, stop, flags, counters, waits, reason, delivered, late>>

\* A message: the client counts it, and the session observes it in its stats.
ReadMessage ==
  /\ pc = "read" /\ pc' = "callback"
  /\ clientMessages' = Raise(clientMessages, MessageCap)
  /\ messages' = Raise(messages, MessageCap)
  /\ UNCHANGED <<options, stop, status, flags, attempts, reconnects, clientLimit,
                 waits, reason, delivered, late>>

SlipCheckStop ==   \* slip: the stop flag is not polled between messages
  /\ pc = "callback" /\ pc' = "deliver"
  /\ UNCHANGED <<options, stop, status, flags, counters, waits, reason,
                 delivered, late>>

CheckStop ==
  /\ pc = "callback"
  /\ \/ stop /\ flags' = flags \cup {"stop"}
             /\ EndAttempt("StoppedByHandler", "closing")
     \/ ~stop /\ pc' = "deliver" /\ UNCHANGED <<status, flags>>
  /\ UNCHANGED <<options, stop, counters, waits, reason, delivered, late>>

SlipClientFull ==   \* slip: off by one
  clientLimit # 0 /\ clientMessages + 1 >= clientLimit

\* The client's own limit is what the session's limit had left at the start.
ClientFull == Reached(clientMessages, clientLimit)

Deliver ==
  /\ pc = "deliver"
  /\ delivered' = Raise(delivered, MessageCap)
  /\ late' = [late EXCEPT !.deliveries =
                IF stop THEN Raise(@, MessageCap) ELSE @]
  /\ \/ /\ flags' = flags \cup {"handler"}   \* the downstream handler refuses
        /\ EndAttempt("StoppedByHandler", "closing")
     \/ /\ Reached(messages, options.maxMessages)
        /\ flags' = flags \cup {"max"}
        /\ EndAttempt("StoppedByHandler", "closing")
     \/ /\ ~Reached(messages, options.maxMessages) /\ ClientFull
        /\ EndAttempt("StoppedByHandler", "closing") /\ UNCHANGED flags
     \/ /\ ~Reached(messages, options.maxMessages) /\ ~ClientFull
        /\ pc' = "read" /\ UNCHANGED <<status, flags>>
  /\ UNCHANGED <<options, stop, counters, waits, reason>>

CloseConnection ==
  /\ pc = "closing"
  /\ \/ EndAttempt(status, "decide")
     \/ status = "Completed" /\ EndAttempt("CloseFailed", "decide")
  /\ UNCHANGED <<options, stop, flags, counters, waits, reason, delivered, late>>

-----------------------------------------------------------------------------
\* request_stop, the handler of SIGINT and SIGTERM.
RequestStop ==
  /\ stop' = TRUE
  /\ UNCHANGED <<options, pc, status, flags, counters, waits, reason, delivered,
                 late>>

Init ==
  /\ options \in Options
  /\ pc = "loop"
  /\ stop = FALSE
  /\ status = "UnknownError"
  /\ flags = {}
  /\ attempts = 0 /\ reconnects = 0 /\ messages = 0
  /\ clientLimit = 0 /\ clientMessages = 0
  /\ backoff = 0 /\ remaining = 0
  /\ reason = "None"
  /\ delivered = 0
  /\ late = [attempts |-> 0, deliveries |-> 0]

Session == LoopTop \/ StartAttempt \/ Decide \/ SleepPoll \/ CheckStop \/ Deliver
Network == Connect \/ ReadEnds \/ ReadMessage \/ CloseConnection

\* Once run_feed_session has returned only the signal handler can still run.
Next == Session \/ Network \/ RequestStop

Spec == Init /\ [][Next]_vars

\* The session's thread is never parked for good outside a blocking call, and
\* every blocking call returns, with whatever outcome.
FairSpec == Spec /\ WF_vars(Session) /\ WF_vars(Network)

-----------------------------------------------------------------------------
(* Properties.                                                             *)

\* Over all attempts together no more than max_messages are taken, and every
\* message the statistics count has gone to the downstream handler, except the
\* one in the callback now and the one during which the stop flag was seen.
MessageBudget ==
  /\ options.maxMessages # 0 => messages <= options.maxMessages
  /\ messages < MessageCap =>
       messages = delivered + IF pc \in {"callback", "deliver"} \/ "stop" \in flags
                                THEN 1 ELSE 0

\* The stop reason, which decides the exit code of the process, names what
\* really happened: a limit that was reached in full, a handler that refused, a
\* signal that came, or a transport no retry can repair.  In particular the
\* client's own message limit never ends an attempt behind the session's back,
\* which would be reported as not retryable.
ReasonIsHonest ==
  /\ reason = "MaxMessagesReached" => Reached(delivered, options.maxMessages)
  /\ reason = "StopRequested" => stop
  /\ reason = "StoppedByHandler" => "handler" \in flags
  /\ reason = "Completed" =>
       status = "Completed" /\ ~options.reconnectOnCompleted
  /\ reason = "MaxAttemptsReached" =>
       /\ options.maxAttempts # 0 /\ attempts = options.maxAttempts
       /\ status = "Completed" \/ Retryable(ErrorClass(status))
  /\ reason = "NotRetryable" => options.transport # "Usable" /\ attempts = 1

\* After the stop flag is set the session begins at most one more thing: one
\* delivery, or one attempt, which then delivers nothing.
LateBound == late.attempts + late.deliveries <= 1

\* With a sensible policy (0 < initial_backoff <= max_backoff, multiplier >= 1)
\* the waits never shrink and never pass max_backoff, over any mixture of
\* failures and successful attempts: a good connection does not reset them.
BackoffDiscipline ==
  [][0 < options.initialBackoff /\ options.initialBackoff <= options.maxBackoff
       /\ Multiplier >= 1
     => backoff <= backoff' /\ backoff' <= options.maxBackoff]_vars

\* A session asked to stop returns, from wherever it is, also when it retries
\* for ever: provided that blocking network calls return.
StopHonoured == stop ~> pc = "done"

\* With both limits set the session returns by itself.
BoundedWorkEnds ==
  options.maxMessages # 0 /\ options.maxAttempts # 0 ~> pc = "done"

=============================================================================
