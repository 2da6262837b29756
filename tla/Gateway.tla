------------------------------ MODULE Gateway ------------------------------
(***************************************************************************)
(* marketdata-gateway --binance-live: the command line is parsed, the feed *)
(* resolved, a FeedMessagePipeline put together from what was asked for,   *)
(* and run_feed_session hands it every message of every attempt.  The      *)
(* handlers outlive the attempts: the payload log, which may refuse a      *)
(* message, and behind it a mapper handler that never does.                *)
(*                                                                         *)
(* A command line is a sequence of arguments, each a name and, after "=",  *)
(* a value; a number that does not parse is NaN.  Numbers are parsed       *)
(* modulo U64, and --max-attempts is cut to U32.                           *)
(***************************************************************************)
EXTENDS FeedSession, SequencesExt, Integers

CONSTANTS
  CommandLines,     \* what the program is started with
  DefaultMessages,  \* max_messages when it is not given
  DefaultBackoff, DefaultBackoffCap,
  U32, U64          \* number of values of uint32 and uint64

NaN == -1

VARIABLES
  line,      \* the command line
  args,      \* what it was parsed to
  logger,    \* FeedPayloadLogHandler, and history: how often it refused
  mapper     \* the MapperRuntimeStats and logged_events of the mapper handler

gatewayVars == <<vars, line, args, logger, mapper>>

-----------------------------------------------------------------------------
(* parse_binance_live_args.                                                *)

Defaults ==
  [symbols |-> "one", kind |-> "TopOfBook", maxMessages |-> DefaultMessages,
   logPayload |-> FALSE, logPayloads |-> 0, normalize |-> FALSE,
   logNormalized |-> FALSE, logEvents |-> 0, maxAttempts |-> 1,
   backoff |-> DefaultBackoff, maxBackoff |-> DefaultBackoffCap,
   reconnectOnCompleted |-> FALSE]

Kinds == [trade |-> "Trade", aggTrade |-> "AggregateTrade", bookTicker |-> "TopOfBook",
          depth |-> "BookUpdate", depth20 |-> "BookSnapshot"]

NumberFields ==
  ("--messages=" :> "maxMessages") @@ ("--log-payload=" :> "logPayloads")
    @@ ("--log-normalized=" :> "logEvents") @@ ("--max-attempts=" :> "maxAttempts")
    @@ ("--backoff-ms=" :> "backoff") @@ ("--max-backoff-ms=" :> "maxBackoff")

\* What a number sets, and what else its option switches on.
TakeNumber(parsed, arg) ==
  LET n == IF arg.name = "--max-attempts=" THEN (arg.value % U64) % U32
           ELSE arg.value % U64
      set == [parsed EXCEPT ![NumberFields[arg.name]] = n]
  IN CASE arg.name = "--log-payload=" -> [set EXCEPT !.logPayload = TRUE]
       [] arg.name = "--log-normalized=" ->
            [set EXCEPT !.normalize = TRUE, !.logNormalized = TRUE]
       [] OTHER -> set

\* An argument nobody knows, and one whose value does not parse, change nothing.
TakeArg(parsed, arg) ==
  CASE arg.name \in DOMAIN NumberFields ->
         IF arg.value = NaN THEN parsed ELSE TakeNumber(parsed, arg)
    [] arg.name = "--symbol=" -> [parsed EXCEPT !.symbols = arg.value]
    [] arg.name = "--symbols=" ->
         IF arg.value = "none" THEN parsed ELSE [parsed EXCEPT !.symbols = arg.value]
    [] arg.name = "--feed=" ->
         IF arg.value \in DOMAIN Kinds THEN [parsed EXCEPT !.kind = Kinds[arg.value]]
         ELSE parsed
    [] arg.name = "--normalize" -> [parsed EXCEPT !.normalize = TRUE]
    [] arg.name = "--log-payload" ->
         [parsed EXCEPT !.logPayload = TRUE, !.logPayloads = 5]
    [] arg.name = "--log-normalized" ->
         [parsed EXCEPT !.normalize = TRUE, !.logNormalized = TRUE, !.logEvents = 5]
    [] arg.name = "--reconnect" -> [parsed EXCEPT !.maxAttempts = 0]
    [] arg.name = "--reconnect-completed" ->
         [parsed EXCEPT !.reconnectOnCompleted = TRUE]
    [] OTHER -> parsed

Parse(arguments) == FoldLeft(TakeArg, Defaults, arguments)

ASSUME LinesAssumption ==
  \A l \in CommandLines : Parse(l).logPayloads \in Nat /\ Parse(l).logEvents \in Nat

-----------------------------------------------------------------------------
(* run_binance_live puts the session together.                             *)

\* resolve_feeds throws, before there is a session, when ALL is one of several
\* symbols or the kind has no feed for all of them.
Resolves ==
  /\ args.symbols # "ALL among others"
  /\ args.symbols = "ALL" => args.kind = "TopOfBook"

\* Normalization needs one feed with a symbol, of a kind that has a mapper.
MapperKind ==
  IF args.normalize /\ args.symbols = "one" /\ args.kind \in {"TopOfBook", "Trade"}
    THEN args.kind ELSE "none"

\* A uint64 becomes a count of signed milliseconds.  What comes out negative is no wait:
\* next_backoff and sleep_for_backoff treat it as they treat 0.
Milliseconds(n) == IF n < U64 \div 2 THEN n ELSE 0

SessionOptions ==
  [maxMessages |-> args.maxMessages, maxAttempts |-> args.maxAttempts,
   initialBackoff |-> Milliseconds(args.backoff), maxBackoff |-> Milliseconds(args.maxBackoff),
   reconnectOnCompleted |-> args.reconnectOnCompleted]

GatewayInit ==
  /\ line \in CommandLines /\ args = Parse(line)
  /\ Resolves
  /\ Init
  /\ \A f \in DOMAIN SessionOptions : options[f] = SessionOptions[f]
  /\ logger = [seen |-> 0, logged |-> 0, refused |-> 0]
  /\ mapper = [input |-> 0, output |-> 0, failures |-> 0, logged |-> 0]

-----------------------------------------------------------------------------
(* The pipeline.                                                           *)

Count(condition) == IF condition THEN 1 ELSE 0

SlipLogs == args.logPayload /\ logger.logged <= args.logPayloads   \* slip: off by one
Logs == args.logPayload /\ ~Reached(logger.logged, args.logPayloads)

\* What a payload may lack.  A quote is mapped without a time.
Defects == {"none", "symbol", "field", "number", "time"}
MapsToQuote(defect) == defect \in {"none", "time"}
MapsToTrade(defect) == defect = "none"
Maps(defect) ==
  IF MapperKind = "TopOfBook" THEN MapsToQuote(defect) ELSE MapsToTrade(defect)

SlipMapperHandle(defect) ==   \* slip: a failure is not counted as an input
  mapper' = IF Maps(defect)
              THEN [mapper EXCEPT !.input = @ + 1, !.output = @ + 1,
                      !.logged = @ + Count(args.logNormalized /\ @ < args.logEvents)]
              ELSE [mapper EXCEPT !.failures = @ + 1]

\* The mapper handler counts a success or a failure, and logs the first events.
MapperHandle(defect) ==
  LET event == Maps(defect)
      logs == event /\ args.logNormalized /\ mapper.logged < args.logEvents
  IN mapper' = [input |-> mapper.input + 1,
                output |-> mapper.output + Count(event),
                failures |-> mapper.failures + Count(~event),
                logged |-> mapper.logged + Count(logs)]

\* The payload log, if there is one; it refuses when writing the log throws.
LogHandle(refused) ==
  logger' = IF args.logPayload
              THEN [seen |-> logger.seen + 1, logged |-> logger.logged + Count(Logs),
                    refused |-> logger.refused + Count(refused)]
              ELSE logger

SlipPipelineDeliver(defect, throws) ==   \* slip: a refusal is not passed on
  /\ Deliver
  /\ "handler" \notin flags'
  /\ LogHandle(Logs /\ throws)
  /\ IF MapperKind = "none" THEN UNCHANGED mapper ELSE MapperHandle(defect)
  /\ UNCHANGED <<line, args>>

\* FeedMessagePipeline::on_message as the session's downstream handler: the first
\* handler that refuses is the last one called.
PipelineDeliver(defect, throws) ==
  LET refused == Logs /\ throws
  IN /\ Deliver
     /\ ("handler" \in flags') = refused
     /\ LogHandle(refused)
     /\ IF refused \/ MapperKind = "none" THEN UNCHANGED mapper
        ELSE MapperHandle(defect)
     /\ UNCHANGED <<line, args>>

\* Bound: no message comes beyond MessageCap.
SessionStep ==
  /\ \/ LoopTop \/ StartAttempt \/ Decide \/ SleepPoll \/ CheckStop
     \/ Connect \/ ReadEnds \/ CloseConnection \/ RequestStop
     \/ messages < MessageCap /\ ReadMessage
  /\ UNCHANGED <<line, args, logger, mapper>>

GatewayNext ==
  \/ SessionStep
  \/ \E defect \in Defects, throws \in BOOLEAN : PipelineDeliver(defect, throws)

GatewaySpec == GatewayInit /\ [][GatewayNext]_gatewayVars

-----------------------------------------------------------------------------
(* Properties.                                                             *)

\* What the three counters of the stop report say agrees, over all attempts: the
\* payload log has seen every message that was delivered, and the mapper every
\* one of them that the log did not refuse.
CountersAgree ==
  /\ args.logPayload => logger.seen = delivered
  /\ MapperKind # "none" => mapper.input = delivered - logger.refused
  /\ mapper.input = mapper.output + mapper.failures

\* Both logs hold the first so many of the session, not of each attempt; for
\* normalized events 0 means none, for payloads it means all.
LogsAreTheFirst ==
  /\ args.logPayload =>
       logger.logged = IF args.logPayloads = 0 THEN delivered
                       ELSE Least(delivered, args.logPayloads)
  /\ args.logNormalized => mapper.logged = Least(mapper.output, args.logEvents)

\* After a refusal nothing more is delivered and no attempt begins, however the
\* session may retry; it ends as stopped by the handler, or by a signal.
RefusalEndsSession ==
  [][logger.refused > 0 =>
       /\ UNCHANGED <<delivered, attempts>>
       /\ reason' \in {"None", "StoppedByHandler", "StopRequested"}]_gatewayVars

\* What the command line asks for: the number of --max-attempts, unless
\* --reconnect comes after it.
Asked ==
  FoldLeft(LAMBDA n, arg :
             IF arg.name = "--reconnect" THEN 0
             ELSE IF arg.name = "--max-attempts=" /\ arg.value # NaN THEN arg.value
             ELSE n, 1, line)

\* binance_live_runner.cpp:314 offers --max-attempts=1 or --reconnect: a session
\* that was given a number of attempts makes no more than that.
AttemptsAsAsked == Asked # 0 => attempts <= Asked

=============================================================================
