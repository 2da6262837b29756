--------------------------- MODULE GatewayProofs ---------------------------
(***************************************************************************)
(* First what a feed session guarantees for every retry policy and every   *)
(* limit: its types, its message budget, the truth of its stop reason and  *)
(* the bound on work begun after a stop.  None of these is inductive       *)
(* alone; SessionInv below is.                                             *)
(*                                                                         *)
(* Then the gateway, which runs a feed session: every step of it is one of *)
(* FeedSession, so that what is proved of a session holds of the gateway.  *)
(* On top of the session's invariant, that the counters of the handlers    *)
(* agree, that the logs are the first of the session, and that a refusal   *)
(* ends it, for every set of command lines, limit and policy.              *)
(***************************************************************************)
EXTENDS Gateway, TLAPS

Between == {"loop", "start", "sleep"}
Working == {"connect", "read", "callback", "deliver"}
Ending  == {"closing", "decide"}

\* A status that stands for a transport that was reached.
Reachable == ConnectFailures \cup {"Completed", "ReadFailed", "CloseFailed",
                                   "StoppedByHandler"}

\* The callback's flags are set by the step that ends the attempt, and an
\* attempt that ends as StoppedByHandler has one.
FlagsInv ==
  /\ pc \in Between \cup Working => flags = {}
  /\ pc \in Ending /\ flags = {} => status # "StoppedByHandler"
  /\ "stop" \in flags => stop /\ "max" \notin flags
  /\ "max" \in flags => Reached(messages, options.maxMessages)

\* As long as more may be read, the budget is not used up.
BudgetInv ==
  /\ MessageBudget
  /\ options.maxMessages # 0 =>
       /\ pc \in Between \cup {"connect", "read"} =>
            messages < options.maxMessages
       /\ pc \in Ending /\ flags = {} => messages < options.maxMessages

\* During an attempt the client's limit and the session's leave the same rest.
ClientInv ==
  pc \in Working =>
    /\ options.maxMessages = 0 => clientLimit = 0
    /\ options.maxMessages # 0 =>
         /\ clientLimit + messages = options.maxMessages + clientMessages
         /\ clientMessages <= messages

AttemptsInv ==
  /\ options.maxAttempts # 0 => attempts <= options.maxAttempts
  /\ pc = "start" /\ options.maxAttempts # 0 => attempts < options.maxAttempts
  /\ pc \in Between => status = "Completed" \/ Retryable(ErrorClass(status))

\* A transport that cannot work is found out by the first attempt.
TransportInv ==
  /\ options.transport # "Usable" =>
       \/ pc \in {"loop", "start"} /\ attempts = 0
       \/ pc = "connect" /\ attempts = 1
       \/ pc = "decide" /\ attempts = 1 /\ status = options.transport
       \/ pc = "done"
  /\ options.transport = "Usable" /\ pc \in Ending => status \in Reachable

ReasonInv == ReasonIsHonest /\ (reason # "None" => pc = "done")

\* What was begun late is begun from a place the session never comes back to.
LateInv ==
  /\ LateBound
  /\ late.attempts + late.deliveries # 0 =>
       stop /\ pc \in {"connect", "read", "callback", "closing", "decide", "done"}

SessionInv ==
  /\ TypeOK
  /\ FlagsInv /\ BudgetInv /\ ClientInv /\ AttemptsInv
  /\ TransportInv /\ ReasonInv /\ LateInv

-----------------------------------------------------------------------------
\* What the types of the options say.
LEMMA OptionsType ==
  ASSUME options \in Options
  PROVE  /\ options.maxMessages \in Nat /\ options.maxMessages < MessageCap
         /\ options.maxAttempts \in Nat /\ options.maxAttempts < AttemptCap
         /\ options.initialBackoff \in Nat /\ options.maxBackoff \in Nat
         /\ options.reconnectOnCompleted \in BOOLEAN
         /\ options.transport \in {"Usable", "InvalidEndpoint", "BackendUnavailable"}
         /\ MessageCap \in Nat /\ AttemptCap \in Nat
<1>1. /\ options.maxMessages \in MessageLimits
      /\ options.maxAttempts \in AttemptLimits
      /\ options.initialBackoff \in Backoffs
      /\ options.maxBackoff \in BackoffCaps
      /\ options.reconnectOnCompleted \in BOOLEAN
      /\ options.transport \in {"Usable", "InvalidEndpoint", "BackendUnavailable"}
  BY SMT DEF Options
<1>2. options.maxMessages \in 0 .. MessageCap - 1
  BY <1>1, SessionAssumption
<1>3. options.maxAttempts \in 0 .. AttemptCap - 1
  BY <1>1, SessionAssumption
<1>4. options.initialBackoff \in Nat /\ options.maxBackoff \in Nat
  BY <1>1, SessionAssumption
<1> QED BY <1>1, <1>2, <1>3, <1>4, SessionAssumption, SMT

\* The next wait is a number again.
LEMMA BackoffType ==
  ASSUME options \in Options, backoff \in Nat
  PROVE  NextBackoff \in Nat
<1>1. backoff * Multiplier \in Nat
  BY SessionAssumption, SMT
<1> QED BY <1>1, OptionsType, SMT DEF NextBackoff, Least

\* A session that has not begun satisfies the invariant.
LEMMA InitInv == Init => SessionInv
<1> SUFFICES ASSUME Init PROVE SessionInv OBVIOUS
<1>1. TypeOK
  <2>1. ControlType
    BY Zenon DEF Init, ControlType, Statuses, Places
  <2>2. CountType
    BY SessionAssumption, SMT DEF Init, CountType
  <2> QED BY <2>1, <2>2 DEF TypeOK
<1>2. FlagsInv /\ ClientInv /\ LateInv
  BY SMT
    DEF Init, FlagsInv, ClientInv, LateInv, LateBound, Between, Working,
    Ending
<1>3. BudgetInv
  BY OptionsType, SMT DEF Init, BudgetInv, MessageBudget, Ending
<1>4. AttemptsInv /\ TransportInv /\ ReasonInv
  BY OptionsType, SMT DEF Init, AttemptsInv, TransportInv, ReasonInv,
     ReasonIsHonest, Retryable, ErrorClass, Ending
<1> QED BY <1>1, <1>2, <1>3, <1>4 DEF SessionInv

-----------------------------------------------------------------------------
(* One lemma per action: with the invariant before, it holds after.        *)

\* The checks before an attempt keep it: each that fails names what it found.
LEMMA LoopTopStep ==
  ASSUME SessionInv, LoopTop
  PROVE  SessionInv'
<1>a. ControlType'
  BY SMT
    DEF SessionInv, TypeOK, ControlType, LoopTop, Finish, CheckBefore, Places,
    Reasons
<1>b. CountType'
  BY SMT DEF SessionInv, TypeOK, CountType, counters, waits, LoopTop
<1>c. FlagsInv'
  BY SMT DEF SessionInv, LoopTop, FlagsInv, Finish, Between, Ending
<1>d. BudgetInv'
  BY SMT
    DEF SessionInv, counters, LoopTop, Finish, Between, BudgetInv,
    MessageBudget
<1>e. ClientInv'
  BY SMT DEF LoopTop, ClientInv, Finish, Working
<1>f. AttemptsInv'
  BY OptionsType, SMT
    DEF SessionInv, TypeOK, ControlType, CountType, counters, LoopTop,
    AttemptsInv, Finish, Between, CheckBefore, Reached
<1>g. TransportInv'
  BY SMT DEF SessionInv, counters, LoopTop, TransportInv, Finish, Ending
<1>h. ReasonInv'
  BY OptionsType, SMT
    DEF SessionInv, TypeOK, ControlType, CountType, counters, LoopTop,
    ReasonInv, ReasonIsHonest, Finish, BudgetInv, AttemptsInv, CheckBefore,
    Reached, Between
<1>i. LateInv'
  BY SMT DEF SessionInv, LoopTop, LateInv, LateBound
<1> QED BY <1>a, <1>b, <1>c, <1>d, <1>e, <1>f, <1>g, <1>h, <1>i
      DEF SessionInv, TypeOK

\* A new attempt gets what is left of the budget.
LEMMA StartAttemptStep ==
  ASSUME SessionInv, StartAttempt
  PROVE  SessionInv'
<1>a. ControlType'
  BY SMT DEF SessionInv, TypeOK, ControlType, StartAttempt, Places
<1>b. CountType'
  BY OptionsType, SMT
    DEF SessionInv, TypeOK, ControlType, CountType, waits, StartAttempt,
    Raise, BudgetInv, Between
<1>c. FlagsInv'
  BY SMT DEF StartAttempt, FlagsInv, Ending
<1>d. BudgetInv'
  BY SMT
    DEF SessionInv, StartAttempt, FlagsInv, Between, BudgetInv, MessageBudget
<1>e. ClientInv'
  BY OptionsType, SMT
    DEF SessionInv, TypeOK, ControlType, CountType, StartAttempt, ClientInv
<1>f. AttemptsInv'
  BY OptionsType, SMT
    DEF SessionInv, TypeOK, ControlType, CountType, StartAttempt, AttemptsInv,
    Between, Raise
<1>g. TransportInv'
  BY OptionsType, SMT
    DEF SessionInv, TypeOK, ControlType, StartAttempt, TransportInv, Ending,
    Raise
<1>h. ReasonInv'
  BY SMT DEF SessionInv, StartAttempt, ReasonInv, ReasonIsHonest
<1>i. LateInv'
  BY OptionsType, SMT
    DEF SessionInv, TypeOK, ControlType, CountType, StartAttempt, LateInv,
    LateBound, Raise
<1> QED BY <1>a, <1>b, <1>c, <1>d, <1>e, <1>f, <1>g, <1>h, <1>i
      DEF SessionInv, TypeOK

\* The checks after an attempt keep it: they read the flags, then the status.
LEMMA DecideStep ==
  ASSUME SessionInv, Decide
  PROVE  SessionInv'
<1>a. ControlType'
  BY SMT
    DEF SessionInv, TypeOK, ControlType, Decide, Finish, CheckAfter, Places,
    Reasons
<1>b. CountType'
  BY OptionsType, BackoffType, SMT
    DEF SessionInv, TypeOK, ControlType, CountType, waits, Decide, Raise
<1>c. FlagsInv'
  BY SMT
    DEF SessionInv, TypeOK, ControlType, Decide, FlagsInv, Finish, Between,
    Working, Ending, CheckAfter
<1>d. BudgetInv'
  BY SMT
    DEF SessionInv, TypeOK, ControlType, Decide, Finish, Between, Ending,
    CheckAfter, BudgetInv, MessageBudget
<1>e. ClientInv'
  BY SMT DEF Decide, ClientInv, Finish, Working
<1>f. AttemptsInv'
  BY SMT DEF SessionInv, Decide, AttemptsInv, Finish, Between, CheckAfter
<1>g. TransportInv'
  BY OptionsType, SMT
    DEF SessionInv, TypeOK, ControlType, Decide, TransportInv, Finish, Ending,
    CheckAfter, Retryable, ErrorClass
<1>h. ReasonInv'
  <2>1. CASE CheckAfter = "None"
    BY <2>1, SMT DEF Decide, SessionInv, ReasonInv, ReasonIsHonest
  <2>2. CASE CheckAfter # "None"
    <3>1. reason' = CheckAfter /\ pc' = "done"
      BY <2>2 DEF Decide, Finish
    <3>2. CheckAfter = "MaxMessagesReached" => Reached(delivered, options.maxMessages)
      BY OptionsType, SMT
        DEF Decide, SessionInv, TypeOK, ControlType, CountType, FlagsInv,
        BudgetInv, MessageBudget, CheckAfter, Reached
    <3>3. CheckAfter = "StopRequested" => stop
      BY SMT DEF SessionInv, FlagsInv, CheckAfter
    <3>4. CheckAfter = "StoppedByHandler" => "handler" \in flags
      BY DEF CheckAfter
    <3>5. CheckAfter = "Completed" => status = "Completed" /\ ~options.reconnectOnCompleted
      BY DEF CheckAfter
    <3>6. CheckAfter = "MaxAttemptsReached" =>
            /\ options.maxAttempts # 0 /\ attempts = options.maxAttempts
            /\ status = "Completed" \/ Retryable(ErrorClass(status))
      BY OptionsType, SMT
        DEF SessionInv, TypeOK, ControlType, CountType, AttemptsInv,
        CheckAfter, Reached
    <3>7. CheckAfter = "NotRetryable" => options.transport # "Usable" /\ attempts = 1
      <4> SUFFICES ASSUME CheckAfter = "NotRetryable", options.transport = "Usable"
                   PROVE  FALSE
        BY SMT DEF Decide, SessionInv, TransportInv
      <4>1. /\ ~Retryable(ErrorClass(status)) /\ status # "Completed"
            /\ "max" \notin flags /\ "stop" \notin flags /\ "handler" \notin flags
        BY SMT DEF CheckAfter
      <4>2. flags = {}
        BY <4>1 DEF SessionInv, TypeOK, ControlType
      <4>3. status # "StoppedByHandler" /\ status \in Reachable
        BY <4>2 DEF Decide, SessionInv, FlagsInv, TransportInv, Ending
      <4> QED
        BY <4>1, <4>3, SMT DEF Reachable, ConnectFailures, Retryable, ErrorClass
    <3> QED
      BY <3>1, <3>2, <3>3, <3>4, <3>5, <3>6, <3>7, SMT
        DEF Decide, ReasonInv, ReasonIsHonest
  <2> QED BY <2>1, <2>2
<1>i. LateInv'
  BY SMT DEF SessionInv, Decide, LateInv, LateBound, Finish, CheckAfter
<1> QED BY <1>a, <1>b, <1>c, <1>d, <1>e, <1>f, <1>g, <1>h, <1>i
      DEF SessionInv, TypeOK

\* Waiting keeps it.
LEMMA SleepPollStep ==
  ASSUME SessionInv, SleepPoll
  PROVE  SessionInv'
<1>a. ControlType'
  BY SMT DEF SessionInv, TypeOK, ControlType, SleepPoll, Finish, Places, Reasons
<1>b. CountType'
  <2>1. remaining > 0 => remaining - Chunk \in Nat
    BY SessionAssumption, SMT DEF SessionInv, TypeOK, CountType, Chunk, Least
  <2> QED BY <2>1, SMT DEF SleepPoll, SessionInv, TypeOK, CountType, counters
<1>c. FlagsInv'
  BY SMT DEF SessionInv, SleepPoll, FlagsInv, Finish, Between, Ending
<1>d. BudgetInv'
  BY SMT
    DEF SessionInv, counters, SleepPoll, Finish, Between, BudgetInv,
    MessageBudget
<1>e. ClientInv'
  BY SMT DEF SleepPoll, ClientInv, Finish, Working
<1>f. AttemptsInv'
  BY SMT DEF SessionInv, counters, SleepPoll, AttemptsInv, Finish, Between
<1>g. TransportInv'
  BY SMT DEF SessionInv, SleepPoll, TransportInv, Finish, Ending
<1>h. ReasonInv'
  BY SMT DEF SessionInv, SleepPoll, ReasonInv, ReasonIsHonest, Finish
<1>i. LateInv'
  BY SMT DEF SessionInv, SleepPoll, LateInv, LateBound
<1> QED BY <1>a, <1>b, <1>c, <1>d, <1>e, <1>f, <1>g, <1>h, <1>i
      DEF SessionInv, TypeOK

\* Polling the flag in the callback keeps it.
LEMMA CheckStopStep ==
  ASSUME SessionInv, CheckStop
  PROVE  SessionInv'
<1>a. ControlType'
  <2>1. flags' \subseteq {"max", "stop", "handler"}
    BY DEF CheckStop, SessionInv, TypeOK, ControlType
  <2>2. pc' \in Places /\ status' \in Statuses
    BY SMT
      DEF CheckStop, EndAttempt, SessionInv, TypeOK, ControlType, Places,
      Statuses
  <2> QED BY <2>2 DEF CheckStop, SessionInv, TypeOK, ControlType
<1>b. CountType'
  BY SMT DEF SessionInv, TypeOK, CountType, counters, waits, CheckStop
<1>c. FlagsInv'
  <2>1. flags = {}
    BY SMT DEF CheckStop, SessionInv, FlagsInv, Working
  <2>2. CASE stop
    BY <2>1, <2>2, SMT DEF CheckStop, EndAttempt, FlagsInv, Between, Working
  <2>3. CASE ~stop
    BY <2>1, <2>3, SMT DEF CheckStop, FlagsInv, Ending
  <2> QED BY <2>2, <2>3
<1>d. BudgetInv'
  BY SMT
    DEF SessionInv, counters, CheckStop, EndAttempt, Between, Ending,
    BudgetInv, MessageBudget
<1>e. ClientInv'
  BY SMT DEF SessionInv, counters, CheckStop, ClientInv, Working
<1>f. AttemptsInv'
  BY SMT DEF SessionInv, counters, CheckStop, AttemptsInv, EndAttempt, Between
<1>g. TransportInv'
  BY SMT DEF SessionInv, CheckStop, TransportInv, EndAttempt, Ending, Reachable
<1>h. ReasonInv'
  BY SMT DEF SessionInv, CheckStop, ReasonInv, ReasonIsHonest
<1>i. LateInv'
  BY SMT DEF SessionInv, CheckStop, LateInv, LateBound, EndAttempt
<1> QED BY <1>a, <1>b, <1>c, <1>d, <1>e, <1>f, <1>g, <1>h, <1>i
      DEF SessionInv, TypeOK

\* Delivering a message keeps it: the flags say why, if the attempt ends.
LEMMA DeliverStep ==
  ASSUME SessionInv, Deliver
  PROVE  SessionInv'
<1>a. ControlType'
  BY SMT
    DEF SessionInv, TypeOK, ControlType, Deliver, EndAttempt, Places, Statuses
<1>b. CountType'
  BY OptionsType, SMT
    DEF SessionInv, TypeOK, ControlType, CountType, counters, waits, Deliver,
    Raise
<1>c. FlagsInv'
  <2>1. flags = {}
    BY SMT DEF Deliver, SessionInv, FlagsInv, Working
  <2>2. Reached(messages, options.maxMessages)' =
          Reached(messages, options.maxMessages)
    BY DEF Deliver, counters
  <2>3. ClientFull => Reached(messages, options.maxMessages)
    BY OptionsType, SMT
      DEF Deliver, SessionInv, TypeOK, ControlType, CountType, ClientInv,
      ClientFull, Reached, Working
  <2>4. pc' \in {"read", "closing"} /\ (pc' = "read" => flags' = {})
    BY <2>1, SMT DEF Deliver, EndAttempt
  <2>5. flags' = {} => pc' = "read"
    BY <2>3, SMT DEF Deliver
  <2>6. "stop" \notin flags' /\ ("max" \in flags' => Reached(messages, options.maxMessages))
    BY <2>1, SMT DEF Deliver
  <2> QED
    BY <2>2, <2>4, <2>5, <2>6, SMT DEF FlagsInv, Between, Working, Ending
<1>d. BudgetInv'
  BY OptionsType, SMT
    DEF SessionInv, TypeOK, ControlType, CountType, counters, Deliver,
    FlagsInv, EndAttempt, Between, Working, Reached, Raise, BudgetInv,
    MessageBudget
<1>e. ClientInv'
  BY SMT DEF SessionInv, counters, Deliver, ClientInv, Working
<1>f. AttemptsInv'
  BY SMT DEF SessionInv, counters, Deliver, AttemptsInv, EndAttempt, Between
<1>g. TransportInv'
  BY SMT DEF SessionInv, Deliver, TransportInv, EndAttempt, Ending, Reachable
<1>h. ReasonInv'
  BY SMT DEF SessionInv, Deliver, ReasonInv, ReasonIsHonest
<1>i. LateInv'
  BY OptionsType, SMT
    DEF SessionInv, TypeOK, ControlType, CountType, Deliver, LateInv,
    LateBound, EndAttempt, Raise
<1> QED BY <1>a, <1>b, <1>c, <1>d, <1>e, <1>f, <1>g, <1>h, <1>i
      DEF SessionInv, TypeOK

\* Connecting keeps it, whatever comes of it.
LEMMA ConnectStep ==
  ASSUME SessionInv, Connect
  PROVE  SessionInv'
<1>a. ControlType'
  BY OptionsType, SMT
    DEF SessionInv, TypeOK, ControlType, Connect, EndAttempt, Places, Statuses
<1>b. CountType'
  BY SMT DEF SessionInv, TypeOK, CountType, counters, waits, Connect
<1>c. FlagsInv'
  BY OptionsType, SMT
    DEF SessionInv, TypeOK, ControlType, Connect, FlagsInv, EndAttempt,
    Working, Ending, ConnectFailures
<1>d. BudgetInv'
  BY SMT DEF SessionInv, counters, Connect, EndAttempt, BudgetInv, MessageBudget
<1>e. ClientInv'
  BY SMT DEF SessionInv, counters, Connect, ClientInv, Working
<1>f. AttemptsInv'
  BY SMT DEF SessionInv, counters, Connect, AttemptsInv, EndAttempt, Between
<1>g. TransportInv'
  BY SMT
    DEF SessionInv, counters, Connect, TransportInv, EndAttempt, Ending,
    Reachable
<1>h. ReasonInv'
  BY SMT DEF SessionInv, Connect, ReasonInv, ReasonIsHonest
<1>i. LateInv'
  BY SMT DEF SessionInv, Connect, LateInv, LateBound, EndAttempt
<1> QED BY <1>a, <1>b, <1>c, <1>d, <1>e, <1>f, <1>g, <1>h, <1>i
      DEF SessionInv, TypeOK

\* The end of a connection keeps it.
LEMMA ReadEndsStep ==
  ASSUME SessionInv, ReadEnds
  PROVE  SessionInv'
<1>a. ControlType'
  BY SMT
    DEF SessionInv, TypeOK, ControlType, ReadEnds, EndAttempt, Places,
    Statuses
<1>b. CountType'
  BY SMT DEF SessionInv, TypeOK, CountType, counters, waits, ReadEnds
<1>c. FlagsInv'
  BY SMT DEF SessionInv, ReadEnds, FlagsInv, EndAttempt, Working
<1>d. BudgetInv'
  BY SMT
    DEF SessionInv, counters, ReadEnds, EndAttempt, BudgetInv, MessageBudget
<1>e. ClientInv'
  BY SMT DEF ReadEnds, ClientInv, EndAttempt, Working
<1>f. AttemptsInv'
  BY SMT DEF SessionInv, counters, ReadEnds, AttemptsInv, EndAttempt, Between
<1>g. TransportInv'
  BY SMT DEF SessionInv, ReadEnds, TransportInv, EndAttempt, Reachable
<1>h. ReasonInv'
  BY SMT DEF SessionInv, ReadEnds, ReasonInv, ReasonIsHonest
<1>i. LateInv'
  BY SMT DEF SessionInv, ReadEnds, LateInv, LateBound, EndAttempt
<1> QED BY <1>a, <1>b, <1>c, <1>d, <1>e, <1>f, <1>g, <1>h, <1>i
      DEF SessionInv, TypeOK

\* Counting a message keeps it: both counts move by one.
LEMMA ReadMessageStep ==
  ASSUME SessionInv, ReadMessage
  PROVE  SessionInv'
<1>a. ControlType'
  BY SMT DEF SessionInv, TypeOK, ControlType, ReadMessage, Places
<1>b. CountType'
  BY OptionsType, SMT
    DEF SessionInv, TypeOK, ControlType, CountType, waits, ReadMessage, Raise
<1>c. FlagsInv'
  BY SMT DEF SessionInv, ReadMessage, FlagsInv, Working, Ending
<1>d. BudgetInv'
  <2>1. flags = {} /\ flags' = {}
    BY SMT DEF ReadMessage, SessionInv, FlagsInv, Working
  <2>2. /\ messages \in 0 .. MessageCap /\ MessageCap \in Nat
        /\ messages' = Raise(messages, MessageCap)
        /\ options.maxMessages # 0 => messages < options.maxMessages
        /\ options.maxMessages \in Nat /\ options.maxMessages < MessageCap
    BY OptionsType
      DEF ReadMessage, SessionInv, TypeOK, ControlType, CountType, BudgetInv
  <2>3. messages < MessageCap => messages = delivered
    BY <2>1, SMT
      DEF ReadMessage, SessionInv, TypeOK, CountType, BudgetInv, MessageBudget
  <2> QED
    BY <2>2, <2>3, SMT
      DEF ReadMessage, BudgetInv, MessageBudget, Raise, Between, Ending
<1>e. ClientInv'
  <2>1. /\ messages \in 0 .. MessageCap /\ clientMessages \in 0 .. MessageCap
        /\ MessageCap \in Nat /\ clientLimit \in 0 .. MessageCap
        /\ options.maxMessages # 0 => messages < options.maxMessages
        /\ options.maxMessages \in Nat /\ options.maxMessages < MessageCap
    BY OptionsType
      DEF ReadMessage, SessionInv, TypeOK, ControlType, CountType, BudgetInv
  <2> QED
    BY <2>1, SMT DEF ReadMessage, SessionInv, ClientInv, Raise, Working
<1>f. AttemptsInv'
  BY SMT DEF SessionInv, ReadMessage, AttemptsInv, Between
<1>g. TransportInv'
  BY SMT DEF SessionInv, ReadMessage, TransportInv, Ending
<1>h. ReasonInv'
  BY SMT DEF SessionInv, ReadMessage, ReasonInv, ReasonIsHonest
<1>i. LateInv'
  BY SMT DEF SessionInv, ReadMessage, LateInv, LateBound
<1> QED BY <1>a, <1>b, <1>c, <1>d, <1>e, <1>f, <1>g, <1>h, <1>i
      DEF SessionInv, TypeOK

\* Closing keeps it, also when it fails.
LEMMA CloseConnectionStep ==
  ASSUME SessionInv, CloseConnection
  PROVE  SessionInv'
<1>a. ControlType'
  BY SMT
    DEF SessionInv, TypeOK, ControlType, CloseConnection, EndAttempt, Places,
    Statuses
<1>b. CountType'
  BY SMT DEF SessionInv, TypeOK, CountType, counters, waits, CloseConnection
<1>c. FlagsInv'
  BY SMT
    DEF SessionInv, counters, CloseConnection, FlagsInv, EndAttempt, Between,
    Working, Ending
<1>d. BudgetInv'
  BY SMT
    DEF SessionInv, counters, CloseConnection, EndAttempt, Between, Ending,
    BudgetInv, MessageBudget
<1>e. ClientInv'
  BY SMT DEF CloseConnection, ClientInv, EndAttempt, Working
<1>f. AttemptsInv'
  BY SMT
    DEF SessionInv, counters, CloseConnection, AttemptsInv, EndAttempt,
    Between
<1>g. TransportInv'
  BY SMT
    DEF SessionInv, CloseConnection, TransportInv, EndAttempt, Ending,
    Reachable
<1>h. ReasonInv'
  BY SMT DEF SessionInv, CloseConnection, ReasonInv, ReasonIsHonest
<1>i. LateInv'
  BY SMT DEF SessionInv, CloseConnection, LateInv, LateBound, EndAttempt
<1> QED BY <1>a, <1>b, <1>c, <1>d, <1>e, <1>f, <1>g, <1>h, <1>i
      DEF SessionInv, TypeOK

\* The signal keeps it, whenever it comes.
LEMMA RequestStopStep ==
  ASSUME SessionInv, RequestStop
  PROVE  SessionInv'
<1>a. ControlType'
  BY SMT DEF SessionInv, TypeOK, ControlType, RequestStop
<1>b. CountType'
  BY SMT DEF SessionInv, TypeOK, CountType, counters, waits, RequestStop
<1>c. FlagsInv'
  BY SMT DEF SessionInv, counters, RequestStop, FlagsInv
<1>d. BudgetInv'
  BY SMT DEF SessionInv, counters, RequestStop, BudgetInv, MessageBudget
<1>e. ClientInv'
  BY SMT DEF SessionInv, counters, RequestStop, ClientInv
<1>f. AttemptsInv'
  BY SMT DEF SessionInv, counters, RequestStop, AttemptsInv
<1>g. TransportInv'
  BY SMT DEF SessionInv, counters, RequestStop, TransportInv
<1>h. ReasonInv'
  BY SMT DEF SessionInv, counters, RequestStop, ReasonInv, ReasonIsHonest
<1>i. LateInv'
  BY SMT DEF SessionInv, RequestStop, LateInv, LateBound
<1> QED BY <1>a, <1>b, <1>c, <1>d, <1>e, <1>f, <1>g, <1>h, <1>i
      DEF SessionInv, TypeOK

\* A step that changes nothing keeps the invariant.
LEMMA StutterStep ==
  ASSUME SessionInv, UNCHANGED vars
  PROVE  SessionInv'
<1>1. TypeOK'
  BY DEF SessionInv, TypeOK, ControlType, CountType, vars, counters, waits
<1>2. FlagsInv' /\ BudgetInv' /\ ClientInv' /\ AttemptsInv'
  BY DEF SessionInv, FlagsInv, BudgetInv, MessageBudget, ClientInv, AttemptsInv,
         Reached, vars, counters, waits
<1>3. TransportInv' /\ ReasonInv' /\ LateInv'
  BY DEF SessionInv, TransportInv, ReasonInv, ReasonIsHonest, LateInv, LateBound,
         Reached, vars, counters, waits
<1> QED BY <1>1, <1>2, <1>3 DEF SessionInv

LEMMA NextStep ==
  ASSUME SessionInv, [Next]_vars
  PROVE  SessionInv'
<1>1. CASE Session
  BY <1>1, LoopTopStep, StartAttemptStep, DecideStep, SleepPollStep,
     CheckStopStep, DeliverStep DEF Session
<1>2. CASE Network
  BY <1>2, ConnectStep, ReadEndsStep, ReadMessageStep, CloseConnectionStep
     DEF Network
<1>3. CASE RequestStop
  BY <1>3, RequestStopStep
<1>4. CASE UNCHANGED vars
  BY <1>4, StutterStep
<1> QED BY <1>1, <1>2, <1>3, <1>4 DEF Next

\* The strengthening holds in every state of every session.
THEOREM Invariance == Spec => []SessionInv
<1>1. Init => SessionInv
  BY InitInv
<1>2. SessionInv /\ [Next]_vars => SessionInv'
  BY NextStep
<1> QED BY <1>1, <1>2, PTL DEF Spec

-----------------------------------------------------------------------------
\* Every counter, wait and flag of run_feed_session stays in its range; the part
\* left of a backoff never goes below zero.
THEOREM TypeCorrect == Spec => []TypeOK
<1>1. SessionInv => TypeOK
  BY DEF SessionInv
<1> QED BY <1>1, Invariance, PTL

\* For every max_messages, over all reconnects together, a session takes no more
\* messages than that, and none it counted goes missing.
THEOREM BudgetHolds == Spec => []MessageBudget
<1>1. SessionInv => MessageBudget
  BY DEF SessionInv, BudgetInv
<1> QED BY <1>1, Invariance, PTL

\* For every policy, the stop reason a session returns names what happened.
THEOREM ReasonHolds == Spec => []ReasonIsHonest
<1>1. SessionInv => ReasonIsHonest
  BY DEF SessionInv, ReasonInv
<1> QED BY <1>1, Invariance, PTL

\* However often the signal comes and whenever it comes, at most one attempt or
\* one delivery begins after it.
THEOREM LateHolds == Spec => []LateBound
<1>1. SessionInv => LateBound
  BY DEF SessionInv, LateInv
<1> QED BY <1>1, Invariance, PTL

-----------------------------------------------------------------------------
(* The backoff.                                                            *)

Sensible ==
  /\ 0 < options.initialBackoff /\ options.initialBackoff <= options.maxBackoff
  /\ Multiplier >= 1

\* The wait is below its cap already before it is raised, or the cap could shrink it.
CapInv == Sensible => backoff <= options.maxBackoff

\* The next wait of a sensible policy is no shorter, and within the cap.
LEMMA BackoffGrows ==
  ASSUME options \in Options, backoff \in Nat, Sensible, backoff <= options.maxBackoff
  PROVE  backoff <= NextBackoff /\ NextBackoff <= options.maxBackoff
<1>1. Multiplier \in Nat /\ Multiplier >= 1
  BY SessionAssumption DEF Sensible
<1>2. backoff * Multiplier \in Nat /\ backoff <= backoff * Multiplier
  BY <1>1, SMT
<1> DEFINE product == backoff * Multiplier
<1>3. product \in Nat /\ backoff <= product
  BY <1>2
<1>4. NextBackoff = IF backoff = 0 THEN options.initialBackoff
                    ELSE Least(product, options.maxBackoff)
  BY DEF NextBackoff
<1> HIDE DEF product
<1> QED BY <1>3, <1>4, OptionsType, SMT DEF Least, Sensible

\* Only the decision to reconnect changes the wait.
LEMMA BackoffMoves ==
  ASSUME SessionInv, [Next]_vars
  PROVE  /\ options' = options
         /\ backoff' = backoff \/ backoff' = NextBackoff
<1>1. CASE Decide
  BY <1>1 DEF Decide, waits
<1>2. CASE LoopTop \/ StartAttempt \/ SleepPoll \/ CheckStop \/ Deliver
  BY <1>2 DEF LoopTop, StartAttempt, SleepPoll, CheckStop, Deliver, waits
<1>3. CASE Network
  BY <1>3 DEF Network, Connect, ReadEnds, ReadMessage, CloseConnection, waits
<1>4. CASE RequestStop \/ UNCHANGED vars
  BY <1>4 DEF RequestStop, vars, waits
<1> QED BY <1>1, <1>2, <1>3, <1>4 DEF Next, Session

\* A step of a session with a sensible policy keeps the wait below the cap.
LEMMA BackoffStep ==
  ASSUME SessionInv, CapInv, [Next]_vars, Sensible
  PROVE  backoff <= backoff' /\ backoff' <= options.maxBackoff
<1>1. options \in Options /\ backoff \in Nat
  BY DEF SessionInv, TypeOK, ControlType, CountType
<1>2. backoff <= options.maxBackoff /\ options.maxBackoff \in Nat
  BY <1>1, OptionsType DEF CapInv
<1>3. backoff <= NextBackoff /\ NextBackoff <= options.maxBackoff
  BY <1>1, <1>2, BackoffGrows
<1>4. CASE backoff' = backoff
  BY <1>1, <1>2, <1>4, SMT
<1>5. CASE backoff' = NextBackoff
  BY <1>3, <1>5
<1> QED BY <1>4, <1>5, BackoffMoves

\* With a sensible policy the waits of a session never shrink and never pass
\* max_backoff, whatever mixture of failures and good connections it meets.
THEOREM BackoffHolds == Spec => BackoffDiscipline
<1>1. Init => CapInv
  BY OptionsType, SMT DEF Init, CapInv, Sensible
<1>2. SessionInv /\ CapInv /\ [Next]_vars => CapInv'
  <2> SUFFICES ASSUME SessionInv, CapInv, [Next]_vars, Sensible'
               PROVE  backoff' <= options'.maxBackoff
    BY DEF CapInv
  <2>1. options' = options
    BY BackoffMoves
  <2> QED BY <2>1, BackoffStep DEF Sensible
<1> DEFINE Disciplined == Sensible => backoff <= backoff' /\ backoff' <= options.maxBackoff
<1>3. SessionInv /\ CapInv /\ [Next]_vars => [Disciplined]_vars
  BY BackoffStep
<1>4. [Disciplined]_vars =>
      [0 < options.initialBackoff /\ options.initialBackoff <= options.maxBackoff
         /\ Multiplier >= 1
       => backoff <= backoff' /\ backoff' <= options.maxBackoff]_vars
  BY DEF Sensible
<1> HIDE DEF Disciplined
<1> QED BY <1>1, <1>2, <1>3, <1>4, Invariance, PTL DEF Spec, BackoffDiscipline

-----------------------------------------------------------------------------
(* How far a session is from its end.  That a session takes its steps is    *)
(* fairness, and left to TLC; what is proved here is that there are few to   *)
(* take.                                                                     *)

\* The most steps a session that was asked to stop has left.
StopDistance ==
  CASE pc = "done" -> 0
    [] pc \in {"loop", "sleep", "decide"} -> 1
    [] pc = "closing" -> 2
    [] pc = "callback" -> 3
    [] pc = "read" -> 4
    [] pc \in {"connect", "deliver"} -> 5
    [] pc = "start" -> 6

StopNears == [][stop => stop' /\ StopDistance' < StopDistance]_vars

\* The places of an attempt, from its end: each is left for a lower one, unless a
\* message is taken or an attempt begins.
PlaceRank ==
  CASE pc = "done" -> 0
    [] pc = "start" -> 1
    [] pc = "loop" -> 2
    [] pc = "sleep" -> 3
    [] pc = "decide" -> 4
    [] pc = "closing" -> 5
    [] pc = "read" -> 6
    [] pc = "deliver" -> 7
    [] pc \in {"callback", "connect"} -> 8

Limited == options.maxMessages # 0 /\ options.maxAttempts # 0

\* What a session with both limits uses up, in this order: the one signal that
\* counts, its attempts, its messages, its places and the wait it sleeps through.
UsesUp ==
  \/ ~stop /\ stop'
  \/ attempts < attempts'
  \/ attempts' = attempts /\ messages < messages'
  \/ attempts' = attempts /\ messages' = messages /\ PlaceRank' < PlaceRank
  \/ /\ attempts' = attempts /\ messages' = messages /\ PlaceRank' = PlaceRank
     /\ remaining' < remaining

WithinLimits == attempts <= options.maxAttempts /\ messages <= options.maxMessages

WorkIsUsedUp == [][Limited => WithinLimits' /\ UsesUp]_vars

LEMMA StopStep ==
  ASSUME SessionInv, Next, stop
  PROVE  (stop' /\ StopDistance' < StopDistance) \/ UNCHANGED vars
<1>1. pc \in Places
  BY DEF SessionInv, TypeOK, ControlType
<1>2. CASE LoopTop
  BY <1>2, SMT DEF LoopTop, CheckBefore, Finish, StopDistance
<1>3. CASE StartAttempt
  BY <1>3, SMT DEF StartAttempt, StopDistance
<1>4. CASE Decide
  <2>1. CheckAfter # "None"
    BY SMT DEF CheckAfter
  <2> QED BY <1>4, <2>1, SMT DEF Decide, Finish, StopDistance
<1>5. CASE SleepPoll
  BY <1>5, SMT DEF SleepPoll, Finish, StopDistance
<1>6. CASE CheckStop
  BY <1>6, SMT DEF CheckStop, EndAttempt, StopDistance
<1>7. CASE Deliver
  BY <1>7, SMT DEF Deliver, EndAttempt, StopDistance
<1>8. CASE Network
  <2>1. stop' = stop
    BY <1>8 DEF Network, Connect, ReadEnds, ReadMessage, CloseConnection
  <2>2. CASE Connect
    <3>1. pc = "connect" /\ pc' \in {"read", "decide"}
      BY <2>2 DEF Connect, EndAttempt
    <3> QED BY <2>1, <3>1, SMT DEF StopDistance
  <2>3. CASE ReadEnds \/ ReadMessage
    <3>1. pc = "read" /\ pc' \in {"callback", "closing"}
      BY <2>3 DEF ReadEnds, ReadMessage, EndAttempt
    <3> QED BY <2>1, <3>1, SMT DEF StopDistance
  <2>4. CASE CloseConnection
    BY <2>1, <2>4, SMT DEF CloseConnection, EndAttempt, StopDistance
  <2> QED BY <1>8, <2>2, <2>3, <2>4 DEF Network
<1>9. CASE RequestStop
  <2>1. stop = TRUE
    BY DEF SessionInv, TypeOK, ControlType
  <2> QED BY <1>9, <2>1 DEF RequestStop, vars, counters, waits
<1> QED BY <1>2, <1>3, <1>4, <1>5, <1>6, <1>7, <1>8, <1>9 DEF Next, Session

\* Wherever the signal comes, the session takes at most six more steps: every one
\* of them brings it nearer to its end, so that no retry, however patient its
\* policy, can outlast a stop.
THEOREM StopNearsEnd == Spec => StopNears
<1>1. SessionInv /\ [Next]_vars => [stop => stop' /\ StopDistance' < StopDistance]_vars
  BY StopStep
<1> QED BY <1>1, Invariance, PTL DEF Spec, StopNears

\* No attempt begins, and no message is taken, beyond the limits.
LEMMA LimitsHold ==
  ASSUME SessionInv, Limited
  PROVE  /\ WithinLimits
         /\ pc = "start" => attempts < options.maxAttempts
         /\ pc = "read" => messages < options.maxMessages
<1>1. attempts <= options.maxAttempts /\ (pc = "start" => attempts < options.maxAttempts)
  BY DEF SessionInv, AttemptsInv, Limited
<1>2. messages <= options.maxMessages /\ (pc = "read" => messages < options.maxMessages)
  BY SMT DEF SessionInv, BudgetInv, MessageBudget, Limited
<1> QED BY <1>1, <1>2 DEF WithinLimits

LEMMA WorkStep ==
  ASSUME SessionInv, Next, Limited
  PROVE  UsesUp \/ UNCHANGED vars
<1>1. /\ options.maxMessages < MessageCap /\ options.maxAttempts < AttemptCap
      /\ options.maxMessages \in Nat /\ options.maxAttempts \in Nat
      /\ MessageCap \in Nat /\ AttemptCap \in Nat
      /\ attempts \in Nat /\ messages \in Nat /\ remaining \in Nat
      /\ stop \in BOOLEAN
  BY OptionsType, SMT DEF SessionInv, TypeOK, ControlType, CountType
<1>2. CASE LoopTop
  BY <1>2, SMT DEF LoopTop, Finish, counters, UsesUp, PlaceRank
<1>3. CASE StartAttempt
  <2>1. attempts < options.maxAttempts
    BY <1>3, LimitsHold DEF StartAttempt
  <2>2. attempts' = attempts + 1
    BY <1>1, <1>3, <2>1, SMT DEF StartAttempt, Raise
  <2> QED BY <1>1, <2>2, SMT DEF UsesUp
<1>4. CASE Decide
  BY <1>4, SMT DEF Decide, Finish, UsesUp, PlaceRank
<1>5. CASE SleepPoll
  <2>1. CASE remaining > 0 /\ remaining' = remaining - Chunk /\ pc' = pc
    <3>1. remaining' < remaining
      BY <1>1, <2>1, SessionAssumption, SMT DEF Chunk, Least
    <3> QED BY <1>5, <2>1, <3>1 DEF SleepPoll, counters, UsesUp, PlaceRank
  <2>2. CASE pc' \in {"loop", "done"}
    BY <1>5, <2>2, SMT DEF SleepPoll, counters, UsesUp, PlaceRank
  <2> QED BY <1>5, <2>1, <2>2 DEF SleepPoll, Finish
<1>6. CASE CheckStop
  BY <1>6, SMT DEF CheckStop, EndAttempt, counters, UsesUp, PlaceRank
<1>7. CASE Deliver
  BY <1>7, SMT DEF Deliver, EndAttempt, counters, UsesUp, PlaceRank
<1>8. CASE ReadMessage
  <2>1. messages < options.maxMessages
    BY <1>8, LimitsHold DEF ReadMessage
  <2>2. messages' = messages + 1 /\ attempts' = attempts
    BY <1>1, <1>8, <2>1, SMT DEF ReadMessage, Raise
  <2> QED BY <1>1, <2>2, SMT DEF UsesUp
<1>9. CASE Connect \/ ReadEnds \/ CloseConnection
  BY <1>9, SMT DEF Connect, ReadEnds, CloseConnection, EndAttempt, counters, UsesUp,
                   PlaceRank
<1>10. CASE RequestStop
  BY <1>1, <1>10 DEF RequestStop, UsesUp, vars, counters, waits
<1> QED BY <1>2, <1>3, <1>4, <1>5, <1>6, <1>7, <1>8, <1>9, <1>10
        DEF Next, Session, Network

\* With both limits set there is an end to what a session can do: no step leaves
\* the attempts, the messages, the place and the wait as they were or goes back in
\* that order, and attempts and messages stay within their limits.
THEOREM WorkIsFinite == Spec => WorkIsUsedUp
<1>1. SessionInv /\ SessionInv' /\ [Next]_vars => [Limited => WithinLimits' /\ UsesUp]_vars
  <2> SUFFICES ASSUME SessionInv, SessionInv', Next, ~UNCHANGED vars, Limited
               PROVE  WithinLimits' /\ UsesUp
    OBVIOUS
  <2>1. options' = options
    BY BackoffMoves
  <2>2. WithinLimits'
    <3>1. Limited'
      BY <2>1 DEF Limited
    <3>2. SessionInv' /\ Limited' => WithinLimits'
      BY DEF SessionInv, AttemptsInv, BudgetInv, MessageBudget, Limited, WithinLimits
    <3> QED BY <3>1, <3>2
  <2> QED BY <2>2, WorkStep
<1> QED BY <1>1, Invariance, PTL DEF Spec, WorkIsUsedUp

-----------------------------------------------------------------------------
\* The gateway.

LoggerType == logger \in [seen : Nat, logged : Nat, refused : Nat]
MapperType == mapper \in [input : Nat, output : Nat, failures : Nat, logged : Nat]
ArgsType == args.logPayloads \in Nat /\ args.logEvents \in Nat

\* MessageBudget without its exception: no counter is ever saturated here.
DeliveredInv ==
  messages = delivered + IF pc \in {"callback", "deliver"} \/ "stop" \in flags
                           THEN 1 ELSE 0

RefusedInv ==
  logger.refused > 0 =>
    /\ pc \in {"closing", "decide", "done"}
    /\ "handler" \in flags /\ "max" \notin flags
    /\ reason \in {"None", "StoppedByHandler", "StopRequested"}

GatewayInv ==
  /\ SessionInv
  /\ LoggerType /\ MapperType /\ ArgsType
  /\ DeliveredInv
  /\ CountersAgree
  /\ LogsAreTheFirst
  /\ RefusedInv

-----------------------------------------------------------------------------
\* Every step of the gateway is a step of the session it runs, or none.
LEMMA GatewayStepIsSessionStep == [GatewayNext]_gatewayVars => [Next]_vars
<1> SUFFICES ASSUME [GatewayNext]_gatewayVars PROVE [Next]_vars OBVIOUS
<1>1. CASE SessionStep
  BY <1>1, Zenon DEF SessionStep, Next, Session, Network
<1>2. CASE \E defect \in Defects, throws \in BOOLEAN : PipelineDeliver(defect, throws)
  BY <1>2, Zenon DEF PipelineDeliver, Next, Session
<1>3. CASE UNCHANGED gatewayVars
  BY <1>3, Zenon DEF gatewayVars
<1> QED BY <1>1, <1>2, <1>3 DEF GatewayNext

\* The gateway implements the session: what is proved of FeedSession's Spec is
\* proved of the gateway.
THEOREM GatewayIsSession == GatewaySpec => Spec
<1>1. GatewayInit => Init
  BY DEF GatewayInit
<1> QED BY <1>1, GatewayStepIsSessionStep, PTL DEF GatewaySpec, Spec

\* The stop reason the gateway reports, and derives its exit code from, is true.
THEOREM GatewayReasonHolds == GatewaySpec => []ReasonIsHonest
BY GatewayIsSession, ReasonHolds, PTL

-----------------------------------------------------------------------------
\* A gateway that has not begun satisfies the invariant.
LEMMA GatewayInitInv == GatewayInit => GatewayInv
<1> SUFFICES ASSUME GatewayInit PROVE GatewayInv OBVIOUS
<1>1. SessionInv
  BY InitInv DEF GatewayInit
<1>2. LoggerType /\ MapperType
  BY SMT DEF GatewayInit, LoggerType, MapperType
<1>3. ArgsType
  BY LinesAssumption DEF GatewayInit, ArgsType
<1>4. DeliveredInv /\ RefusedInv
  BY SMT DEF GatewayInit, Init, DeliveredInv, RefusedInv
<1>5. CountersAgree
  BY SMT DEF GatewayInit, Init, CountersAgree
<1>6. LogsAreTheFirst
  BY <1>3, SMT DEF GatewayInit, Init, LogsAreTheFirst, Least, ArgsType
<1> QED BY <1>1, <1>2, <1>3, <1>4, <1>5, <1>6 DEF GatewayInv

\* The steps outside the pipeline keep the counters, and a session in which a
\* message was refused goes through closing and decide to its end.
LEMMA SessionStepInv ==
  ASSUME GatewayInv, SessionStep, SessionInv'
  PROVE  GatewayInv'
<1>1. LoggerType' /\ MapperType' /\ ArgsType'
  BY DEF SessionStep, GatewayInv, LoggerType, MapperType, ArgsType
<1>2. delivered' = delivered
  BY SMT DEF SessionStep, LoopTop, StartAttempt, Decide, SleepPoll, CheckStop,
     Connect, ReadEnds, CloseConnection, RequestStop, ReadMessage
<1>3. CountersAgree' /\ LogsAreTheFirst'
  BY <1>2 DEF SessionStep, GatewayInv, CountersAgree, LogsAreTheFirst, MapperKind
<1>4. DeliveredInv'
  <2>1. CASE messages < MessageCap /\ ReadMessage
    <3>1. flags = {} /\ pc = "read"
      BY <2>1, SMT DEF ReadMessage, GatewayInv, SessionInv, FlagsInv, Working
    <3>2. messages' = messages + 1 /\ pc' = "callback" /\ flags' = flags
      BY <2>1, SMT DEF ReadMessage, Raise
    <3>3. messages = delivered /\ delivered \in Nat
      BY <3>1, SMT DEF GatewayInv, DeliveredInv, SessionInv, TypeOK, CountType
    <3> QED BY <1>2, <3>1, <3>2, <3>3, SMT DEF DeliveredInv
  <2>2. CASE CheckStop
    <3>1. flags = {}
      BY <2>2, SMT DEF CheckStop, GatewayInv, SessionInv, FlagsInv, Working
    <3> QED BY <2>2, <3>1, SMT DEF CheckStop, EndAttempt, counters, GatewayInv, DeliveredInv
  <2>3. CASE StartAttempt
    <3>1. flags = {}
      BY <2>3, SMT DEF StartAttempt, GatewayInv, SessionInv, FlagsInv, Between
    <3> QED BY <2>3, <3>1, SMT DEF StartAttempt, GatewayInv, DeliveredInv
  <2>4. CASE LoopTop \/ Decide \/ SleepPoll
    BY <2>4, SMT DEF LoopTop, Decide, SleepPoll, Finish, counters, GatewayInv, DeliveredInv
  <2>5. CASE Connect \/ ReadEnds \/ CloseConnection \/ RequestStop
    BY <2>5, SMT DEF Connect, ReadEnds, CloseConnection, RequestStop, EndAttempt,
       counters, GatewayInv, DeliveredInv
  <2> QED BY <2>1, <2>2, <2>3, <2>4, <2>5 DEF SessionStep
<1>5. RefusedInv'
  <2> SUFFICES ASSUME logger.refused > 0 PROVE RefusedInv'
    BY DEF SessionStep, RefusedInv
  <2>1. /\ pc \in {"closing", "decide", "done"}
        /\ "handler" \in flags /\ "max" \notin flags
        /\ reason \in {"None", "StoppedByHandler", "StopRequested"}
    BY DEF GatewayInv, RefusedInv
  <2>2. CASE Decide
    <3>1. CheckAfter \in {"StopRequested", "StoppedByHandler"}
      BY <2>1, SMT DEF CheckAfter
    <3> QED BY <2>1, <2>2, <3>1, SMT DEF Decide, Finish, RefusedInv
  <2>3. CASE CloseConnection
    BY <2>1, <2>3, SMT DEF CloseConnection, EndAttempt, RefusedInv
  <2>4. CASE RequestStop
    BY <2>1, <2>4, SMT DEF RequestStop, RefusedInv
  <2> QED BY <2>1, <2>2, <2>3, <2>4, SMT
            DEF SessionStep, LoopTop, StartAttempt, SleepPoll, CheckStop, Connect, ReadEnds,
            ReadMessage
<1> QED BY <1>1, <1>3, <1>4, <1>5 DEF GatewayInv

\* One message through the pipeline: each handler counts it once, or the log
\* refuses it and the mapper never sees it.
LEMMA PipelineInv ==
  ASSUME GatewayInv, SessionInv',
         NEW defect \in Defects, NEW throws \in BOOLEAN,
         PipelineDeliver(defect, throws)
  PROVE  GatewayInv'
<1> DEFINE refused == Logs /\ throws
<1>1. /\ Deliver
      /\ ("handler" \in flags') = refused
      /\ UNCHANGED <<line, args>>
      /\ logger' = IF args.logPayload
                     THEN [seen |-> logger.seen + 1,
                           logged |-> logger.logged + Count(Logs),
                           refused |-> logger.refused + Count(refused)]
                     ELSE logger
      /\ IF refused \/ MapperKind = "none" THEN UNCHANGED mapper
         ELSE MapperHandle(defect)
  BY DEF PipelineDeliver, LogHandle
<1>2. /\ pc = "deliver" /\ flags = {} /\ logger.refused = 0
      /\ messages' = messages /\ reason' = reason
  BY <1>1, SMT DEF Deliver, counters, GatewayInv, SessionInv, FlagsInv, Working,
     RefusedInv, LoggerType
<1>3. delivered' = delivered + 1
  <2>1. messages = delivered + 1 /\ delivered \in Nat /\ messages \in 0 .. MessageCap
    BY <1>2, SMT DEF GatewayInv, DeliveredInv, SessionInv, TypeOK, CountType
  <2> QED BY <1>1, <2>1, SessionAssumption, SMT DEF Deliver, Raise
<1>4. LoggerType' /\ MapperType' /\ ArgsType'
  BY <1>1, SMT DEF GatewayInv, LoggerType, MapperType, ArgsType, MapperHandle, Count
<1>5. DeliveredInv'
  <2>1. "stop" \notin flags' /\ pc' \in {"closing", "read"}
    BY <1>1, <1>2, SMT DEF Deliver, EndAttempt
  <2> QED BY <1>2, <1>3, <2>1, SMT DEF GatewayInv, DeliveredInv, SessionInv, TypeOK, CountType
<1>6. CountersAgree'
  BY <1>1, <1>2, <1>3, SMT
    DEF GatewayInv, CountersAgree, LoggerType, MapperType, MapperKind, MapperHandle, Count,
    Logs, SessionInv, TypeOK, CountType
<1>7. LogsAreTheFirst'
  BY <1>1, <1>3, SMT
    DEF GatewayInv, CountersAgree, LogsAreTheFirst, LoggerType, MapperType, ArgsType,
    MapperKind, MapperHandle, Count, Logs, Least, Reached, SessionInv, TypeOK, CountType
<1>8. RefusedInv'
  BY <1>1, <1>2, SMT
    DEF Deliver, EndAttempt, RefusedInv, GatewayInv, LoggerType, Count, SessionInv, FlagsInv,
    ReasonInv
<1> QED BY <1>4, <1>5, <1>6, <1>7, <1>8 DEF GatewayInv

\* Every step keeps the invariant.
LEMMA GatewayNextInv == GatewayInv /\ [GatewayNext]_gatewayVars => GatewayInv'
<1> SUFFICES ASSUME GatewayInv, [GatewayNext]_gatewayVars PROVE GatewayInv' OBVIOUS
<1>1. SessionInv'
  BY GatewayStepIsSessionStep, NextStep DEF GatewayInv
<1>2. CASE SessionStep
  BY <1>1, <1>2, SessionStepInv
<1>3. CASE \E defect \in Defects, throws \in BOOLEAN : PipelineDeliver(defect, throws)
  BY <1>1, <1>3, PipelineInv
<1>4. CASE UNCHANGED gatewayVars
  BY <1>1, <1>4, Zenon
    DEF gatewayVars, vars, counters, waits, GatewayInv, LoggerType, MapperType, ArgsType, DeliveredInv,
    CountersAgree, LogsAreTheFirst, RefusedInv, MapperKind
<1> QED BY <1>2, <1>3, <1>4 DEF GatewayNext

\* The invariant holds in every reachable state.
THEOREM GatewayInvariance == GatewaySpec => []GatewayInv
BY GatewayInitInv, GatewayNextInv, PTL DEF GatewaySpec

\* The counters of the stop report agree, for every command line and limit.
THEOREM CountersHold == GatewaySpec => []CountersAgree
<1>1. GatewayInv => CountersAgree
  BY DEF GatewayInv
<1> QED BY <1>1, GatewayInvariance, PTL

\* The logs hold the first messages and events of the session.
THEOREM LogsHold == GatewaySpec => []LogsAreTheFirst
<1>1. GatewayInv => LogsAreTheFirst
  BY DEF GatewayInv
<1> QED BY <1>1, GatewayInvariance, PTL

\* After a refusal nothing is delivered and no attempt begins.
THEOREM RefusalHolds == GatewaySpec => RefusalEndsSession
<1>1. ASSUME GatewayInv, GatewayInv', [GatewayNext]_gatewayVars, logger.refused > 0
      PROVE  /\ UNCHANGED <<delivered, attempts>>
             /\ reason' \in {"None", "StoppedByHandler", "StopRequested"}
  <2>1. pc \in {"closing", "decide", "done"} /\ pc # "deliver" /\ pc # "start"
    BY <1>1, SMT DEF GatewayInv, RefusedInv
  <2>2. UNCHANGED <<delivered, attempts, logger>>
    BY <1>1, <2>1, SMT
      DEF GatewayNext, gatewayVars, vars, SessionStep, PipelineDeliver, LoopTop, StartAttempt,
      Decide, SleepPoll, CheckStop, Connect, ReadEnds, CloseConnection, RequestStop,
      ReadMessage, Deliver, counters
  <2>3. reason' \in {"None", "StoppedByHandler", "StopRequested"}
    BY <1>1, <2>2 DEF GatewayInv, RefusedInv
  <2> QED BY <2>2, <2>3
<1> QED BY <1>1, GatewayInvariance, PTL DEF GatewaySpec, RefusalEndsSession

=============================================================================
