---------------------------- MODULE EventClient -----------------------------
(***************************************************************************)
(* PubSubEventClient: the task that keeps a log subscription open at an    *)
(* RPC node and hands the events it decodes to channels, one per event     *)
(* type.  The loop of start_pubsub is one task with an await in every      *)
(* state of ctl but the final ones; the node, the program whose logs are   *)
(* watched and the receivers of the channels run beside it.                *)
(*                                                                         *)
(* A notification carries the lines of one transaction's log.  The loop    *)
(* takes lines one at a time and notifications in order, so that stream    *)
(* holds the lines of all the notifications that wait, the current one     *)
(* included.                                                               *)
(***************************************************************************)
EXTENDS Integers, Sequences

CONSTANTS
    Channels,        \* the channels that a builder may be given
    Discriminators,  \* of event types
    Logs,            \* the logs that a transaction of the program may leave
    Capacity,        \* channel -> room; an unbounded channel has enough for all lines
    RetryLimits,     \* the values of max_retries
    Forever,         \* max_retries: None
    NoChannel,
    MaxLines,        \* bound: lines notified
    MaxFailures      \* bound: failures in a row without a limit of retries

VARIABLES
    ctl,             \* where the task is
    max_retries, event_handlers,
    retry_count, delay,
    connected,       \* the node still serves the subscription
    stream,          \* lines notified and not yet handled
    channel,         \* what is in each channel
    open,            \* channels whose receiver exists
    diligent,        \* channels whose receivers keep taking
    received,        \* history: what each receiver has taken
    notified,        \* history: all lines notified
    failures         \* history: subscriptions that failed since the last that did not

config  == <<max_retries, event_handlers, diligent>>
retries == <<retry_count, delay, failures>>
flow    == <<stream, channel, received, notified>>
vars    == <<ctl, config, retries, connected, flow, open>>

(* Delays in units of 500 ms.  *)
FirstDelay == 1
LongestDelay == 10

Least(a, b)    == IF a < b THEN a ELSE b
Greatest(a, b) == IF a < b THEN b ELSE a

(* What a line of a log is: program_data when it has the prefix and is     *)
(* base64; then the length of what was encoded, the first eight bytes, and *)
(* whether the rest parses as the event they name.                         *)
LogLine == [program_data : BOOLEAN, length : Nat, disc : Discriminators, parses : BOOLEAN]

Decoded(line) == line.program_data /\ line.length > 8

ChannelFor(handlers, line) ==
    IF Decoded(line) /\ line.parses THEN handlers[line.disc] ELSE NoChannel

ASSUME EventClientAssumption ==
    /\ \A log \in Logs : log \in Seq(LogLine)
    /\ Capacity \in [Channels -> Nat \ {0}]
    /\ RetryLimits \subseteq Int \cup {Forever}
    /\ Forever \notin Int
    /\ NoChannel \notin Channels
    /\ MaxLines \in Nat
    /\ MaxFailures \in Nat

Init ==
    /\ ctl = "building"
    /\ max_retries = Forever
    /\ event_handlers = [d \in Discriminators |-> NoChannel]
    /\ retry_count = 0
    /\ delay = FirstDelay
    /\ failures = 0
    /\ connected = FALSE
    /\ stream = <<>>
    /\ channel = [c \in Channels |-> <<>>]
    /\ open = Channels
    /\ diligent \in SUBSET Channels
    /\ received = [c \in Channels |-> <<>>]
    /\ notified = <<>>

----------------------------------------------------------------------------
(* The builders.  A sender is moved into the handler, so that no channel   *)
(* is given twice.  A later handler takes the place of an earlier one of   *)
(* the same type.                                                          *)
SetMaxRetries(limit) ==
    /\ ctl = "building"
    /\ max_retries' = limit
    /\ UNCHANGED <<ctl, event_handlers, diligent, retries, connected, flow, open>>

AddEventHandler(d, c) ==
    /\ ctl = "building"
    /\ \A e \in Discriminators : event_handlers[e] # c
    /\ event_handlers' = [event_handlers EXCEPT ![d] = c]
    /\ UNCHANGED <<ctl, max_retries, diligent, retries, connected, flow, open>>

Start ==
    /\ ctl = "building"
    /\ \E d \in Discriminators : event_handlers[d] # NoChannel
    /\ ctl' = "connecting"
    /\ UNCHANGED <<config, retries, connected, flow, open>>

----------------------------------------------------------------------------
(* PubsubClient::new, in every iteration, and expect.  *)
Connect ==
    /\ ctl = "connecting"
    /\ ctl' = "subscribing"
    /\ UNCHANGED <<config, retries, connected, flow, open>>

ConnectPanics ==
    /\ ctl = "connecting"
    /\ ctl' = "panicked"
    /\ UNCHANGED <<config, retries, connected, flow, open>>

SubscribedCountKept ==                                            \* mutant
    /\ ctl = "subscribing"
    /\ ctl' = "streaming"
    /\ connected' = TRUE
    /\ delay' = FirstDelay
    /\ failures' = 0
    /\ UNCHANGED <<config, retry_count, flow, open>>

Subscribed ==
    /\ ctl = "subscribing"
    /\ ctl' = "streaming"
    /\ connected' = TRUE
    /\ retry_count' = 0
    /\ delay' = FirstDelay
    /\ failures' = 0
    /\ UNCHANGED <<config, flow, open>>

LimitReached(count) == max_retries # Forever /\ count >= max_retries

SubscribeFailed ==
    /\ ctl = "subscribing"
    /\ failures < MaxFailures
    /\ failures' = failures + 1
    /\ ctl' = IF LimitReached(retry_count) THEN "returned" ELSE "sleeping"
    /\ UNCHANGED <<config, retry_count, delay, connected, flow, open>>

(* The end of an iteration checks the limit again.  *)
AfterIterationZero(count) ==                                       \* mutant
    IF max_retries = Forever \/ LimitReached(count) THEN "returned" ELSE "connecting"

AfterIteration(count) == IF LimitReached(count) THEN "returned" ELSE "connecting"

DoubledDelay(d) == 2 * d                                          \* mutant

NextDelay(d) == Least(2 * d, LongestDelay)

Wake ==
    /\ ctl = "sleeping"
    /\ retry_count' = retry_count + 1
    /\ delay' = NextDelay(delay)
    /\ ctl' = AfterIteration(retry_count + 1)
    /\ UNCHANGED <<config, failures, connected, flow, open>>

(* A send waits for room; to a channel without receiver it fails, and the  *)
(* error is ignored like one of parsing.                                   *)
SendableOpenOnly(c) == c \in open /\ Len(channel[c]) < Capacity[c]  \* mutant

Sendable(c) == c \in open => Len(channel[c]) < Capacity[c]

HandleLine ==
    /\ ctl = "streaming"
    /\ stream # <<>>
    /\ LET c == ChannelFor(event_handlers, Head(stream))
       IN  /\ c # NoChannel => Sendable(c)
           /\ channel' = IF c \in open
                         THEN [channel EXCEPT ![c] = Append(@, Head(stream))]
                         ELSE channel
    /\ stream' = Tail(stream)
    /\ UNCHANGED <<ctl, config, retries, connected, received, notified, open>>

StreamDropped ==                                                  \* mutant
    /\ ctl = "streaming"
    /\ ~connected
    /\ ctl' = AfterIteration(retry_count)
    /\ stream' = <<>>
    /\ UNCHANGED <<config, retries, connected, channel, received, notified, open>>

(* The stream ends after what it still holds; the next iteration connects  *)
(* again without delay.                                                    *)
StreamEnds ==
    /\ ctl = "streaming"
    /\ ~connected
    /\ stream = <<>>
    /\ ctl' = AfterIteration(retry_count)
    /\ UNCHANGED <<config, retries, connected, flow, open>>

Client ==
    \/ Connect \/ ConnectPanics
    \/ Subscribed \/ SubscribeFailed
    \/ Wake
    \/ HandleLine \/ StreamEnds

----------------------------------------------------------------------------
(* The node: notifies the log of a transaction while it serves the         *)
(* subscription, and nobody hears of the others.                           *)
Notify(log) ==
    /\ connected
    /\ Len(notified) + Len(log) <= MaxLines
    /\ stream' = stream \o log
    /\ notified' = notified \o log
    /\ UNCHANGED <<ctl, config, retries, connected, channel, received, open>>

CloseConnection ==
    /\ connected
    /\ connected' = FALSE
    /\ UNCHANGED <<ctl, config, retries, flow, open>>

(* The program that holds the receivers.  *)
Receive(c) ==
    /\ c \in open
    /\ channel[c] # <<>>
    /\ received' = [received EXCEPT ![c] = Append(@, Head(channel[c]))]
    /\ channel' = [channel EXCEPT ![c] = Tail(@)]
    /\ UNCHANGED <<ctl, config, retries, connected, stream, notified, open>>

DropReceiver(c) ==
    /\ c \in open
    /\ open' = open \ {c}
    /\ channel' = [channel EXCEPT ![c] = <<>>]
    /\ UNCHANGED <<ctl, config, retries, connected, stream, received, notified>>

Environment ==
    \/ \E log \in Logs : Notify(log)
    \/ CloseConnection
    \/ \E c \in Channels : Receive(c) \/ DropReceiver(c)

Next ==
    \/ \E limit \in RetryLimits : SetMaxRetries(limit)
    \/ \E d \in Discriminators, c \in Channels : AddEventHandler(d, c)
    \/ Start
    \/ Client
    \/ Environment

Spec == Init /\ [][Next]_vars

(* The task runs, a node that is asked again and again serves some time,   *)
(* and diligent receivers take what is in their channels.                  *)
FairSpec ==
    /\ Spec
    /\ WF_vars(Connect) /\ WF_vars(Wake) /\ WF_vars(HandleLine) /\ WF_vars(StreamEnds)
    /\ SF_vars(Subscribed)
    /\ \A c \in Channels : WF_vars(c \in diligent /\ Receive(c))

----------------------------------------------------------------------------
TypeOK ==
    /\ ctl \in {"building", "connecting", "subscribing", "streaming", "sleeping",
                "returned", "panicked"}
    /\ max_retries \in RetryLimits \cup {Forever}
    /\ event_handlers \in [Discriminators -> Channels \cup {NoChannel}]
    /\ retry_count \in Nat
    /\ failures \in Nat
    /\ delay \in FirstDelay..LongestDelay
    /\ connected \in BOOLEAN
    /\ stream \in Seq(LogLine)
    /\ channel \in [Channels -> Seq(LogLine)]
    /\ open \subseteq Channels
    /\ diligent \subseteq Channels
    /\ received \in [Channels -> Seq(LogLine)]
    /\ notified \in Seq(LogLine)

(* No event is lost, repeated or put behind a later one between the node   *)
(* and a receiver that exists: what it has taken, what waits in its        *)
(* channel and what waits in the stream is what was notified of its type,  *)
(* over lines that are no events, events of other types, sends that fail,  *)
(* and reconnections.  Only a notification of a transaction that happened  *)
(* while no subscription was served is missing.                            *)
LinesFor(handlers, c, lines) ==
    LET among[n \in 0..Len(lines)] ==
          IF n = 0 THEN <<>>
          ELSE IF ChannelFor(handlers, lines[n]) = c THEN Append(among[n - 1], lines[n])
          ELSE among[n - 1]
    IN  among[Len(lines)]

For(c, lines) == LinesFor(event_handlers, c, lines)

NothingSkipped ==
    \A c \in open : received[c] \o channel[c] \o For(c, stream) = For(c, notified)

(* start_pubsub returns only after refusals in a row that its limit        *)
(* accounts for, and never without a limit; a subscription that succeeded  *)
(* in between starts the count again.  A limit of n is documented as n     *)
(* retries, which are n + 1 attempts, and the code makes n: this says what *)
(* both have in common, n or n + 1 of them, and one if n is not positive,  *)
(* which ends the task when a connection closes as well.  It speaks of     *)
(* refused subscriptions: a socket that cannot be opened ends the task at  *)
(* once and is not counted.                                                *)
Attempts == Greatest(max_retries, 1)

GivesUp ==
    /\ ctl = "returned" =>
          /\ max_retries # Forever
          /\ failures \in {Attempts, Attempts + 1} \/ (failures = 0 /\ max_retries <= 0)
    /\ ctl \in {"connecting", "subscribing"} /\ max_retries # Forever => failures <= Attempts

(* The wait before the next attempt depends on the failures in a row alone:*)
(* half a second after the first, twice that after each, never above five. *)
Backoff == <<1, 2, 4, 8, 10>>

DelayFollowsFailures ==
    ctl = "sleeping" => delay = Backoff[Least(failures, Len(Backoff))]

(* A client without a limit of retries subscribes again after any number   *)
(* of closed connections and refusals, as long as no opening of a socket   *)
(* fails: that panics, and is not retried as its documentation says.       *)
Resubscribes ==
    [](ctl # "panicked") =>
        (max_retries = Forever /\ ctl \in {"connecting", "subscribing", "sleeping"}
            ~> ctl = "streaming")

(* Every event notified for a receiver that keeps taking them reaches it,  *)
(* although the loop waits for room in the channels of the others and some *)
(* of them are dropped.  What can keep it is one thing: a bounded channel  *)
(* that is full, whose receiver exists and takes nothing.                  *)
KeptBy(c) ==
    /\ c \in open \ diligent
    /\ stream # <<>>
    /\ ChannelFor(event_handlers, Head(stream)) = c
    /\ Len(channel[c]) = Capacity[c]

AllServed ==
    \A c \in Channels :
        []<>(\/ c \notin open \cap diligent
             \/ channel[c] = <<>> /\ For(c, stream) = <<>>
             \/ \E other \in Channels : KeptBy(other))
=============================================================================
